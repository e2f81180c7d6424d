--------------------------- MODULE MoveDayProofs ---------------------------
(***************************************************************************)
(* Proofs about parts of MCMoveDay, for any number of clerks, places and   *)
(* crews, of desks, jobs and shifts, and of engines, times and rows.       *)
(*                                                                         *)
(* A transaction of StockLedger is judged by its record alone as long as   *)
(* nobody changes what it looked at, and nobody does because it holds the  *)
(* lock: what it has changed is what its row says less what it has still   *)
(* to take, it only changes what it holds, and it takes its locks in one   *)
(* order.                                                                  *)
(*                                                                         *)
(* A desk of CrewCheckin decides on what it read, and the table may change *)
(* before it writes.  What survives that is only this: the shift it names  *)
(* is have, the time it is going to write is not Ahead of the clock by    *)
(* more than may be, and whoever it lets in was cleared when the gate was  *)
(* asked.  With the guards of the writes themselves this keeps the shifts  *)
(* sound.                                                                  *)
(*                                                                         *)
(* A run of AnomalyRuns gathers, loads and applies with the lock on the    *)
(* engine and none on the problem: people and the world act between any    *)
(* two of its steps.  What it gathered was so once, and what it loaded is  *)
(* still the row or was one somebody closed since, and what changes an     *)
(* open row asks again whether it is open.  So the rows keep to one        *)
(* history, no event is counted by two of them, and a run that nothing     *)
(* crossed leaves what is on file in step with the problem.                *)
(***************************************************************************)
EXTENDS StockLedger, CrewCheckin, AnomalyRuns, FiniteSums, FiniteSetTheorems, SequenceTheorems,
        WellFoundedInduction, TLAPS

Spot == Shelf \cup {NoShelf}
Lock == Place \cup Balance
Move == [reason : Reasons, supply : Supply, shelf : Spot, dest : Spot, crew : Crew \cup {NoCrew},
         qty : Int]
Change == [at : Shelf, by : Int]
Plan == [qty : Int, from : Spot, to : Spot, holderDelta : Int, levelChanges : Seq(Change)]
Phase == {"idle", "count", "balance", "levels"}
Work == [phase : Phase, lines : Seq(Move), plan : Plan, holds : SUBSET Lock,
         delta : [Place -> Int], moved : [Place -> Int]]

(* The place a change of a movement is made at. *)
Where(m, change) == <<m.supply, change.at>>

(* What a request says of a shelf or a crew is there. *)
Sensible(m) ==
    /\ m \in Move
    /\ m.reason # "consume" => <<m.supply, m.shelf>> \in Place
    /\ m.shelf # NoShelf => <<m.supply, m.shelf>> \in Place
    /\ m.reason \in {"issue", "return"} \/ m.shelf = NoShelf => m.crew \in Crew
    /\ m.reason = "transfer" => <<m.supply, m.dest>> \in Place /\ m.dest # m.shelf

(* What the changes still to take will do at p. *)
Adds(m, change, p) == IF p = Where(m, change) THEN change.by ELSE 0
Still(m, changes, p) ==
    (IF Len(changes) > 0 THEN Adds(m, changes[1], p) ELSE 0)
    + (IF Len(changes) > 1 THEN Adds(m, changes[2], p) ELSE 0)

(* What the row of a movement says of p. *)
RowAt(m, plan, p) ==
    (IF p = <<m.supply, plan.to>> THEN plan.qty ELSE 0)
    + (IF p = <<m.supply, plan.from>> THEN -plan.qty ELSE 0)

(* The order of the locks: a crew's balance, then the levels. *)
Before(lock, next) ==
    \/ lock \notin Place
    \/ lock[1] < next[1]
    \/ lock[1] = next[1] /\ lock[2] < next[2]

(* A plan changes the levels as its row says, in order. *)
Fits(m, plan) ==
    /\ plan \in Plan
    /\ Len(plan.levelChanges) \in 0 .. 2
    /\ \A i \in 1 .. Len(plan.levelChanges) : Where(m, plan.levelChanges[i]) \in Place
    /\ Len(plan.levelChanges) = 2 => plan.levelChanges[1].at < plan.levelChanges[2].at
    /\ \A p \in Place : Still(m, plan.levelChanges, p) = RowAt(m, plan, p)
    /\ plan.holderDelta # 0 => m.crew \in Crew

(* ... and a count's changes what it counts. *)
FitsCount(m, expected, plan) ==
    /\ plan.holderDelta = 0
    /\ Len(plan.levelChanges) \in 0 .. 1
    /\ Len(plan.levelChanges) = 1 => plan.levelChanges[1].at = m.shelf
    /\ Still(m, plan.levelChanges, <<m.supply, m.shelf>>) = m.qty - expected

-----------------------------------------------------------------------------
(* Places *)

LEMMA PlaceParts ==
    /\ \A p \in Place : /\ p = <<p[1], p[2]>> /\ p[1] \in Nat /\ p[2] \in Nat \ {0}
                        /\ p[1] \in Supply /\ p[2] \in Shelf
    /\ Supply \subseteq Nat /\ Shelf \subseteq Nat \ {0} /\ NoShelf \notin Shelf /\ NoShelf = 0
  BY StockAssumption DEF Supply, Shelf, NoShelf

(* A crew's row is no level's. *)
LEMMA BalanceIsNoPlace == Balance \cap Place = {}
  BY PlaceParts, StockAssumption DEF Balance

LEMMA NoPlanIsPlan ==
    /\ NoPlan \in Plan
    /\ NoPlan.levelChanges = <<>> /\ NoPlan.holderDelta = 0 /\ NoPlan.qty = 0
    /\ NoPlan.from = NoShelf /\ NoPlan.to = NoShelf
  BY PlaceParts DEF NoPlan, Plan, Spot, NoShelf

LEMMA ZeroIsNothing == Zero \in [Place -> Int] /\ \A p \in Place : Zero[p] = 0
  BY DEF Zero

LEMMA NoWorkIsWork ==
    /\ NoWork \in Work /\ NoWork.phase = "idle" /\ NoWork.holds = {} /\ NoWork.delta = Zero
  BY NoPlanIsPlan, ZeroIsNothing DEF NoWork, Work, Phase

-----------------------------------------------------------------------------
(* Requests *)

LEMMA AsksSensibly ==
    ASSUME NEW m \in Requests, Accepted(m)
    PROVE  Sensible(m)
PROOF
  <1>1. CASE m \in {Asks(r, p, NoCrew, q) : r \in {"receive", "consume"}, p \in Place, q \in Qty}
    BY <1>1, PlaceParts, StockAssumption DEF Asks, Sensible, Move, Spot, Reasons, Qty, Accepted
  <1>2. CASE m \in {Asks(r, p, k, q) : r \in {"issue", "return"}, p \in Place, k \in Crew, q \in Qty}
    BY <1>2, PlaceParts, StockAssumption DEF Asks, Sensible, Move, Spot, Reasons, Qty, Accepted
  <1>3. CASE m \in {Asks("consume", <<s, NoShelf>>, k, q) : s \in Supply, k \in Crew, q \in Qty}
    BY <1>3, PlaceParts, StockAssumption DEF Asks, Sensible, Move, Spot, Reasons, Qty, Accepted
  <1>4. CASE m \in {[Asks("transfer", p, NoCrew, q) EXCEPT !.dest = d] : p \in Place, q \in Qty, d \in Shelf}
    <2>1. PICK p \in Place, q \in Qty, d \in Shelf : m = [Asks("transfer", p, NoCrew, q) EXCEPT !.dest = d]
      BY <1>4
    <2>2. /\ m = [reason |-> "transfer", supply |-> p[1], shelf |-> p[2], dest |-> d,
                  crew |-> NoCrew, qty |-> q]
      BY <2>1 DEF Asks
    <2> QED
      BY <2>2, PlaceParts, StockAssumption DEF Sensible, Move, Spot, Reasons, Qty, Accepted
  <1>5. CASE m \in {Asks("adjust", p, NoCrew, q) : p \in Place, q \in {x \in -MaxQty .. MaxQty : x # 0}}
    BY <1>5, PlaceParts, StockAssumption DEF Asks, Sensible, Move, Spot, Reasons, Qty, Accepted
  <1>6. CASE m \in {Asks("count", p, NoCrew, q) : p \in Place, q \in 0 .. MaxQty}
    BY <1>6, PlaceParts, StockAssumption DEF Asks, Sensible, Move, Spot, Reasons, Qty, Accepted
  <1> QED
    BY <1>1, <1>2, <1>3, <1>4, <1>5, <1>6 DEF Requests

LEMMA SignedParts ==
    ASSUME NEW shelf \in Shelf, NEW by \in Int
    PROVE  /\ Signed(shelf, by) \in Plan
           /\ Signed(shelf, by).qty = (IF by < 0 THEN -by ELSE by)
           /\ Signed(shelf, by).from = (IF by < 0 THEN shelf ELSE NoShelf)
           /\ Signed(shelf, by).to = (IF by < 0 THEN NoShelf ELSE shelf)
           /\ Signed(shelf, by).holderDelta = 0
           /\ by = 0 => Len(Signed(shelf, by).levelChanges) = 0
           /\ by # 0 => /\ Len(Signed(shelf, by).levelChanges) = 1
                        /\ Signed(shelf, by).levelChanges[1] = [at |-> shelf, by |-> by]
PROOF
  <1> DEFINE changes == IF by = 0 THEN <<>> ELSE <<[at |-> shelf, by |-> by]>>
             qty == IF by < 0 THEN -by ELSE by
             from == IF by < 0 THEN shelf ELSE NoShelf
             to == IF by < 0 THEN NoShelf ELSE shelf
  <1>1. changes \in Seq(Change)
    <2>1. [at |-> shelf, by |-> by] \in Change
      BY DEF Change
    <2> QED
      BY <2>1
  <1>2. qty \in Int /\ from \in Spot /\ to \in Spot
    BY DEF Spot
  <1>3. Signed(shelf, by) =
           [NoPlan EXCEPT !.qty = qty, !.from = from, !.to = to, !.levelChanges = changes]
    BY Zenon DEF Signed
  <1> HIDE DEF changes, qty, from, to
  <1>4. /\ Signed(shelf, by) \in Plan
        /\ Signed(shelf, by).qty = qty /\ Signed(shelf, by).from = from
        /\ Signed(shelf, by).to = to /\ Signed(shelf, by).levelChanges = changes
        /\ Signed(shelf, by).holderDelta = 0
    BY <1>1, <1>2, <1>3, NoPlanIsPlan DEF Plan
  <1> QED
    <2>1. by = 0 => changes = <<>>
      BY DEF changes
    <2>2. by # 0 => changes = <<[at |-> shelf, by |-> by]>>
      BY DEF changes
    <2>3. by = 0 => Len(changes) = 0
      BY <2>1
    <2>4. by # 0 => Len(changes) = 1 /\ changes[1] = [at |-> shelf, by |-> by]
      BY <2>2
    <2> QED
      BY <1>4, <2>3, <2>4 DEF qty, from, to

(* What an adjustment or a count of m at its shelf comes to. *)
LEMMA SignedFits ==
    ASSUME NEW m, Sensible(m), NEW by \in Int, m.shelf # NoShelf
    PROVE  /\ Fits(m, Signed(m.shelf, by))
           /\ Signed(m.shelf, by).holderDelta = 0
           /\ Len(Signed(m.shelf, by).levelChanges) \in 0 .. 1
           /\ Len(Signed(m.shelf, by).levelChanges) = 1
              => Signed(m.shelf, by).levelChanges[1].at = m.shelf
           /\ Still(m, Signed(m.shelf, by).levelChanges, <<m.supply, m.shelf>>) = by
PROOF
  <1> DEFINE plan == Signed(m.shelf, by)
             p0 == <<m.supply, m.shelf>>
  <1>0. p0 \in Place /\ m.shelf \in Shelf /\ m.shelf # 0 /\ m.supply \in Supply
    BY PlaceParts DEF Sensible, Move, Spot
  <1>1. /\ plan \in Plan /\ plan.holderDelta = 0
        /\ plan.qty = (IF by < 0 THEN -by ELSE by)
        /\ plan.from = (IF by < 0 THEN m.shelf ELSE NoShelf)
        /\ plan.to = (IF by < 0 THEN NoShelf ELSE m.shelf)
        /\ by = 0 => Len(plan.levelChanges) = 0
        /\ by # 0 => /\ Len(plan.levelChanges) = 1
                     /\ plan.levelChanges[1] = [at |-> m.shelf, by |-> by]
    BY <1>0, SignedParts
  <1> HIDE DEF plan
  <1>2. \A p \in Place : Still(m, plan.levelChanges, p) = IF p = p0 THEN by ELSE 0
    BY <1>1 DEF Still, Adds, Where
  <1>3. \A p \in Place : RowAt(m, plan, p) = IF p = p0 THEN by ELSE 0
    BY <1>1, <1>0, PlaceParts DEF RowAt
  <1>4. Len(plan.levelChanges) \in {0, 1}
    BY <1>1
  <1>5. \A i \in 1 .. Len(plan.levelChanges) : Where(m, plan.levelChanges[i]) \in Place
    BY <1>0, <1>1 DEF Where
  <1>6. Len(plan.levelChanges) = 1 => plan.levelChanges[1].at = m.shelf
    BY <1>1
  <1>7. Fits(m, plan)
    BY <1>1, <1>2, <1>3, <1>4, <1>5 DEF Fits
  <1>8. Still(m, plan.levelChanges, p0) = by
    BY <1>0, <1>2
  <1>9. Len(plan.levelChanges) \in 0 .. 1
    BY <1>4
  <1>10. plan.holderDelta = 0
    BY <1>1
  <1> QED
    BY <1>6, <1>7, <1>8, <1>9, <1>10, Zenon DEF plan

(* A movement that changes one level. *)
LEMMA FitsOne ==
    ASSUME NEW m, Sensible(m), m.shelf # NoShelf, NEW plan \in Plan,
           Len(plan.levelChanges) = 1, plan.levelChanges[1].at = m.shelf,
           \/ /\ plan.to = m.shelf /\ plan.from = NoShelf
              /\ plan.levelChanges[1].by = plan.qty
           \/ /\ plan.from = m.shelf /\ plan.to = NoShelf
              /\ plan.levelChanges[1].by = -plan.qty,
           plan.holderDelta # 0 => m.crew \in Crew
    PROVE  Fits(m, plan)
PROOF
  <1> DEFINE by == plan.levelChanges[1].by
             p0 == <<m.supply, m.shelf>>
  <1>0. p0 \in Place /\ m.shelf \in Shelf /\ m.shelf # 0 /\ m.supply \in Supply
    BY PlaceParts DEF Sensible, Move, Spot
  <1>1. plan.qty \in Int
    BY DEF Plan
  <1>2. \A p \in Place : Still(m, plan.levelChanges, p) = IF p = p0 THEN by ELSE 0
    <2>1. by \in Int
      BY <1>1
    <2> QED
      BY <2>1 DEF Still, Adds, Where
  <1>3. \A p \in Place : RowAt(m, plan, p) = IF p = p0 THEN by ELSE 0
    BY <1>0, <1>1, PlaceParts DEF RowAt
  <1>4. Len(plan.levelChanges) \in 0 .. 2
    OBVIOUS
  <1>5. \A i \in 1 .. Len(plan.levelChanges) : Where(m, plan.levelChanges[i]) \in Place
    BY <1>0 DEF Where
  <1> QED
    BY <1>2, <1>3, <1>4, <1>5 DEF Fits

(* A transfer changes two. *)
LEMMA FitsTwo ==
    ASSUME NEW m, Sensible(m), m.reason = "transfer", NEW plan \in Plan, plan.holderDelta = 0,
           plan.from = m.shelf, plan.to = m.dest, Len(plan.levelChanges) = 2,
           \/ /\ m.shelf < m.dest
              /\ plan.levelChanges[1] = [at |-> m.shelf, by |-> -plan.qty]
              /\ plan.levelChanges[2] = [at |-> m.dest, by |-> plan.qty]
           \/ /\ ~(m.shelf < m.dest)
              /\ plan.levelChanges[1] = [at |-> m.dest, by |-> plan.qty]
              /\ plan.levelChanges[2] = [at |-> m.shelf, by |-> -plan.qty]
    PROVE  Fits(m, plan)
PROOF
  <1> DEFINE changes == plan.levelChanges
  <1>0. /\ <<m.supply, m.shelf>> \in Place /\ <<m.supply, m.dest>> \in Place
        /\ m.shelf \in Nat /\ m.dest \in Nat /\ m.shelf # m.dest
    BY PlaceParts DEF Sensible
  <1>1. plan.qty \in Int
    BY DEF Plan
  <1>2. Len(changes) \in 0 .. 2
    OBVIOUS
  <1>3. Where(m, changes[1]) \in Place /\ Where(m, changes[2]) \in Place
    BY <1>0 DEF Where
  <1>4. changes[1].at < changes[2].at
    BY <1>0
  <1>5. ASSUME NEW p \in Place
        PROVE  Still(m, changes, p) = RowAt(m, plan, p)
    <2>1. Still(m, changes, p) = Adds(m, changes[1], p) + Adds(m, changes[2], p)
      BY DEF Still
    <2>2. CASE m.shelf < m.dest
      BY <1>0, <1>1, <2>1, <2>2 DEF Adds, Where, RowAt
    <2>3. CASE ~(m.shelf < m.dest)
      BY <1>0, <1>1, <2>1, <2>3 DEF Adds, Where, RowAt
    <2> QED
      BY <2>2, <2>3
  <1> QED
    BY <1>2, <1>3, <1>4, <1>5 DEF Fits

LEMMA PairOfChanges ==
    ASSUME NEW a \in Change, NEW b \in Change
    PROVE  /\ <<a, b>> \in Seq(Change) /\ Len(<<a, b>>) = 2
           /\ <<a, b>>[1] = a /\ <<a, b>>[2] = b
  OBVIOUS

(* Whatever is asked, planMovement() plans what its row will say. *)
LEMMA PlansFit ==
    ASSUME NEW m, Sensible(m), NEW expected \in Int
    PROVE  /\ Fits(m, planMovement(m, expected))
           /\ m.reason = "count" => FitsCount(m, expected, planMovement(m, expected))
PROOF
  <1> DEFINE plan == planMovement(m, expected)
             start == [NoPlan EXCEPT !.qty = m.qty]
  <1>0. /\ m.qty \in Int /\ m.shelf \in Spot /\ m.dest \in Spot /\ m.reason \in Reasons
        /\ m.shelf # NoShelf => m.shelf \in Shelf
    BY DEF Sensible, Move, Spot
  <1>1. /\ start \in Plan /\ start.qty = m.qty /\ start.from = NoShelf /\ start.to = NoShelf
        /\ start.holderDelta = 0 /\ start.levelChanges = <<>>
    BY <1>0, NoPlanIsPlan DEF Plan
  <1>2. m.reason \notin {"consume"} => m.shelf # NoShelf
    BY PlaceParts DEF Sensible
  <1>3. ASSUME m.shelf # NoShelf
        PROVE  /\ <<Leaves(m)>> \in Seq(Change) /\ Len(<<Leaves(m)>>) = 1
               /\ <<Leaves(m)>>[1].at = m.shelf /\ <<Leaves(m)>>[1].by = -m.qty
               /\ <<Comes(m)>> \in Seq(Change) /\ Len(<<Comes(m)>>) = 1
               /\ <<Comes(m)>>[1].at = m.shelf /\ <<Comes(m)>>[1].by = m.qty
    <2>1. /\ Leaves(m) \in Change /\ Leaves(m).at = m.shelf /\ Leaves(m).by = -m.qty
          /\ Comes(m) \in Change /\ Comes(m).at = m.shelf /\ Comes(m).by = m.qty
      BY <1>0, <1>3 DEF Change, Leaves, Comes
    <2> QED
      BY <2>1
  <1> HIDE DEF start
  <1>4. CASE m.reason = "receive"
    <2> DEFINE back == -m.qty
    <2>0. back \in Int
      BY <1>0
    <2>1. plan = [start EXCEPT !.to = m.shelf, !.levelChanges = <<Comes(m)>>]
      BY <1>4, Zenon DEF planMovement, start
    <2> HIDE DEF back
    <2>2. /\ plan \in Plan /\ plan.to = m.shelf /\ plan.from = NoShelf /\ plan.holderDelta = 0
          /\ plan.qty = m.qty /\ plan.levelChanges = <<Comes(m)>>
      BY <1>0, <1>1, <1>2, <1>3, <1>4, <2>1 DEF Plan
    <2>3. plan.holderDelta # 0 => m.crew \in Crew
      BY <1>4, <2>2 DEF Sensible
    <2> HIDE DEF plan
    <2>4. Fits(m, plan)
      BY <1>2, <1>3, <1>4, <2>2, <2>3, FitsOne
    <2> QED
      BY <1>4, <2>4 DEF plan
  <1>5. CASE m.reason = "issue"
    <2> DEFINE back == -m.qty
    <2>0. back \in Int
      BY <1>0
    <2>1. plan = [start EXCEPT !.from = m.shelf, !.holderDelta = m.qty, !.levelChanges = <<Leaves(m)>>]
      BY <1>5, Zenon DEF planMovement, start
    <2> HIDE DEF back
    <2>2. /\ plan \in Plan /\ plan.to = NoShelf /\ plan.from = m.shelf /\ plan.holderDelta = m.qty
          /\ plan.qty = m.qty /\ plan.levelChanges = <<Leaves(m)>>
      BY <1>0, <1>1, <1>2, <1>3, <1>5, <2>1 DEF Plan
    <2>3. plan.holderDelta # 0 => m.crew \in Crew
      BY <1>5, <2>2 DEF Sensible
    <2> HIDE DEF plan
    <2>4. Fits(m, plan)
      BY <1>2, <1>3, <1>5, <2>2, <2>3, FitsOne
    <2> QED
      BY <1>5, <2>4 DEF plan
  <1>6. CASE m.reason = "return"
    <2> DEFINE back == -m.qty
    <2>0. back \in Int
      BY <1>0
    <2>1. plan = [start EXCEPT !.to = m.shelf, !.holderDelta = back, !.levelChanges = <<Comes(m)>>]
      BY <1>6, Zenon DEF planMovement, start
    <2> HIDE DEF back
    <2>2. /\ plan \in Plan /\ plan.to = m.shelf /\ plan.from = NoShelf /\ plan.holderDelta = back
          /\ plan.qty = m.qty /\ plan.levelChanges = <<Comes(m)>>
      BY <1>0, <1>1, <1>2, <1>3, <1>6, <2>0, <2>1 DEF Plan
    <2>3. plan.holderDelta # 0 => m.crew \in Crew
      BY <1>6, <2>2 DEF Sensible
    <2> HIDE DEF plan
    <2>4. Fits(m, plan)
      BY <1>2, <1>3, <1>6, <2>2, <2>3, FitsOne
    <2> QED
      BY <1>6, <2>4 DEF plan
  <1>7. CASE m.reason = "consume" /\ m.shelf # NoShelf
    <2>1. plan = [start EXCEPT !.from = m.shelf, !.levelChanges = <<Leaves(m)>>]
      BY <1>7, Zenon DEF planMovement, start
    <2>2. /\ plan \in Plan /\ plan.to = NoShelf /\ plan.from = m.shelf /\ plan.holderDelta = 0
          /\ plan.qty = m.qty /\ plan.levelChanges = <<Leaves(m)>>
      BY <1>0, <1>1, <1>2, <1>3, <1>7, <2>1 DEF Plan
    <2>3. plan.holderDelta # 0 => m.crew \in Crew
      BY <1>7, <2>2 DEF Sensible
    <2> HIDE DEF plan
    <2>4. Fits(m, plan)
      BY <1>2, <1>3, <1>7, <2>2, <2>3, FitsOne
    <2> QED
      BY <1>7, <2>4 DEF plan
  <1>8. CASE m.reason = "consume" /\ m.shelf = NoShelf
    <2>1. plan = [start EXCEPT !.holderDelta = -m.qty]
      BY <1>8, Zenon DEF planMovement, start
    <2>2. /\ plan \in Plan /\ plan.to = NoShelf /\ plan.from = NoShelf
          /\ Len(plan.levelChanges) = 0
      BY <1>0, <1>1, <1>8, <2>1 DEF Plan
    <2>3. m.crew \in Crew
      BY <1>8 DEF Sensible
    <2> HIDE DEF plan
    <2>4. \A p \in Place : Still(m, plan.levelChanges, p) = 0 /\ RowAt(m, plan, p) = 0
      BY <2>2, PlaceParts DEF Still, RowAt
    <2>5. Fits(m, plan)
      BY <2>2, <2>3, <2>4 DEF Fits
    <2> QED
      BY <1>8, <2>5 DEF plan
  <1>9. CASE m.reason = "transfer"
    <2> DEFINE out == Leaves(m)
               in == [at |-> m.dest, by |-> m.qty]
               changes == InOrder(out, in)
    <2>0. /\ m.shelf \in Shelf /\ m.dest \in Shelf
          /\ m.shelf \in Nat /\ m.dest \in Nat
      BY <1>9, PlaceParts DEF Sensible
    <2>1. plan = [start EXCEPT !.from = m.shelf, !.to = m.dest, !.levelChanges = changes]
      BY <1>9, Zenon DEF planMovement, start
    <2>2. out = [at |-> m.shelf, by |-> -m.qty] /\ out \in Change /\ in \in Change
      BY <1>0, <2>0 DEF Leaves, Change
    <2>3. /\ out.at = m.shelf /\ in.at = m.dest
      BY <2>2
    <2> HIDE DEF out, in
    <2>4. CASE m.shelf < m.dest
      <3>1. changes = <<out, in>>
        BY <2>3, <2>4 DEF InOrder
      <3> HIDE DEF changes
      <3>2. changes \in Seq(Change) /\ Len(changes) = 2 /\ changes[1] = out /\ changes[2] = in
        BY <2>2, <3>1, PairOfChanges
      <3>3. /\ plan \in Plan /\ plan.to = m.dest /\ plan.from = m.shelf /\ plan.holderDelta = 0
            /\ plan.qty = m.qty /\ plan.levelChanges = changes
        BY <1>0, <1>1, <2>1, <3>2 DEF Plan
      <3> HIDE DEF plan
      <3>4. Fits(m, plan)
        BY <1>9, <2>2, <2>4, <3>2, <3>3, FitsTwo DEF in
      <3> QED
        BY <1>9, <3>4 DEF plan
    <2>5. CASE ~(m.shelf < m.dest)
      <3>1. changes = <<in, out>>
        BY <2>3, <2>5 DEF InOrder
      <3> HIDE DEF changes
      <3>2. changes \in Seq(Change) /\ Len(changes) = 2 /\ changes[1] = in /\ changes[2] = out
        BY <2>2, <3>1, PairOfChanges
      <3>3. /\ plan \in Plan /\ plan.to = m.dest /\ plan.from = m.shelf /\ plan.holderDelta = 0
            /\ plan.qty = m.qty /\ plan.levelChanges = changes
        BY <1>0, <1>1, <2>1, <3>2 DEF Plan
      <3> HIDE DEF plan
      <3>4. Fits(m, plan)
        BY <1>9, <2>2, <2>5, <3>2, <3>3, FitsTwo DEF in
      <3> QED
        BY <1>9, <3>4 DEF plan
    <2> QED
      BY <2>4, <2>5
  <1>10. CASE m.reason = "adjust"
    <2>1. plan = Signed(m.shelf, m.qty)
      BY <1>10, Zenon DEF planMovement
    <2> QED
      BY <1>0, <1>2, <1>10, <2>1, SignedFits
  <1>11. CASE m.reason = "count"
    <2>1. plan = Signed(m.shelf, m.qty - expected)
      BY <1>11, Zenon DEF planMovement
    <2>2. m.qty - expected \in Int /\ m.shelf # NoShelf
      BY <1>0, <1>2, <1>11
    <2> QED
      BY <2>1, <2>2, SignedFits DEF FitsCount
  <1> QED
    BY <1>0, <1>4, <1>5, <1>6, <1>7, <1>8, <1>9, <1>10, <1>11 DEF Reasons

-----------------------------------------------------------------------------
(* The inductive invariant *)

Of(w) == Head(w.lines)
ToTake(w) == w.plan.levelChanges
Counted(m) == <<m.supply, m.shelf>>

(* A request is one movement, or the lines of a count in the order of the supplies. *)
Listed(lines) ==
    /\ lines \in Seq(Move)
    /\ lines # <<>>
    /\ \A i \in 1 .. Len(lines) : Sensible(lines[i])
    /\ Len(lines) > 1 => \A i \in 1 .. Len(lines) : lines[i].reason = "count"
    /\ \A i, j \in 1 .. Len(lines) : i < j => lines[i].supply < lines[j].supply

(* The lines still to come are of supplies it holds nothing of yet. *)
Later(w) ==
    \A i \in 2 .. Len(w.lines), lock \in w.holds : Before(lock, Counted(w.lines[i]))

(* It only changes what it holds. *)
Holding(w) == \A p \in Place : w.delta[p] # 0 => p \in w.holds

(* Before a line of a count is looked at: what was changed is what the rows say. *)
Counting(w) ==
    /\ Of(w).reason = "count"
    /\ w.delta = w.moved
    /\ \A lock \in w.holds : Before(lock, Counted(Of(w)))

(* What is still to be taken. *)
Unfinished(w) ==
    /\ Len(ToTake(w)) \in 0 .. 2
    /\ Len(ToTake(w)) = 2 => ToTake(w)[1].at < ToTake(w)[2].at
    /\ \A i \in 1 .. Len(ToTake(w)) :
          /\ Where(Of(w), ToTake(w)[i]) \in Place
          /\ w.delta[Where(Of(w), ToTake(w)[i])] = 0
          /\ \A lock \in w.holds :
                \/ Before(lock, Where(Of(w), ToTake(w)[i]))
                \/ Of(w).reason = "count" /\ lock = Where(Of(w), ToTake(w)[i])

(* What was changed is what the rows say, less what is still to be taken. *)
Reckoned(w) ==
    \A p \in Place :
        w.delta[p] + Still(Of(w), ToTake(w), p) = w.moved[p] + RowAt(Of(w), w.plan, p)

(* A count's plan changes what it counts, which it holds. *)
CountHeld(w) ==
    Of(w).reason = "count" =>
        /\ Counted(Of(w)) \in w.holds
        /\ w.plan.holderDelta = 0
        /\ Len(ToTake(w)) \in 0 .. 1
        /\ Len(ToTake(w)) = 1 => ToTake(w)[1].at = Of(w).shelf

(* A transaction, by itself. *)
Sound(w) ==
    /\ w \in Work
    /\ w.phase = "idle" => w.holds = {} /\ w.delta = Zero
    /\ w.phase # "idle" => Listed(w.lines) /\ Later(w) /\ Holding(w)
    /\ w.phase = "count" => Counting(w)
    /\ w.phase \in {"balance", "levels"} =>
          /\ Unfinished(w) /\ Reckoned(w) /\ CountHeld(w)
          /\ w.plan.holderDelta # 0 => Of(w).crew \in Crew
    /\ w.phase = "balance" => w.holds = {} /\ w.plan.holderDelta # 0

(* ... with the levels there are: nothing goes below zero but by an adjustment, and what
   is counted will be what was found. *)
Covered(w, lv) ==
    /\ w.phase # "idle" /\ Of(w).reason # "adjust" =>
          \A p \in Place : w.delta[p] >= 0 \/ lv[p] + w.delta[p] >= 0
    /\ w.phase = "levels" /\ Of(w).reason = "count" =>
          LET p == Counted(Of(w))
          IN lv[p] + w.delta[p] + Still(Of(w), ToTake(w), p) = Of(w).qty

(* ... and with what the crews have: what it takes back is still there, and locked. *)
Owed(w, out, have) ==
    w.phase = "levels" /\ w.plan.holderDelta < 0 =>
        LET b == <<Of(w).supply, Of(w).crew>>
        IN /\ b \in w.holds
           /\ Of(w).crew \in have => out[b] + w.plan.holderDelta >= 0

(* Two never hold the same. *)
Disjoint == \A c, d \in Clerk : c # d => work[c].holds \cap work[d].holds = {}

StockInv ==
    /\ StockTypeOK
    /\ work \in [Clerk -> Work]
    /\ \A c \in Clerk : Sound(work[c]) /\ Covered(work[c], level) /\ Owed(work[c], outstanding, crews)
    /\ Disjoint
    /\ LevelsAreMovements
    /\ NothingOwedTwice

-----------------------------------------------------------------------------
(* Transactions, one step at a time *)

LEMMA HeadIsFirst ==
    ASSUME NEW S, NEW q \in Seq(S), q # <<>>
    PROVE  Head(q) = q[1] /\ Len(q) \in Nat \ {0} /\ 1 \in 1 .. Len(q) /\ Head(q) \in S
  BY HeadTailProperties

(* The first of the lines is a movement that makes sense. *)
LEMMA FirstLine ==
    ASSUME NEW w \in Work, Listed(w.lines)
    PROVE  /\ Of(w) = w.lines[1] /\ Sensible(Of(w)) /\ Len(w.lines) \in Nat \ {0}
           /\ Len(w.lines) > 1 => Of(w).reason = "count"
PROOF
  <1>1. w.lines \in Seq(Move) /\ w.lines # <<>>
    BY DEF Listed
  <1>2. Of(w) = w.lines[1] /\ Len(w.lines) \in Nat \ {0} /\ 1 \in 1 .. Len(w.lines)
    BY <1>1, HeadIsFirst DEF Of
  <1> QED
    BY <1>2 DEF Listed

LEMMA NoWorkSound ==
    ASSUME NEW lv, NEW out, NEW have
    PROVE  Sound(NoWork) /\ Covered(NoWork, lv) /\ Owed(NoWork, out, have)
  BY NoWorkIsWork DEF Sound, Covered, Owed

LEMMA PlannedParts ==
    ASSUME NEW w \in Work, NEW plan \in Plan
    PROVE  LET v == Planned(w, plan)
           IN /\ v \in Work /\ v.phase \in {"balance", "levels"} /\ v.plan = plan
              /\ v.lines = w.lines /\ v.holds = w.holds /\ v.delta = w.delta /\ v.moved = w.moved
              /\ v.phase = "balance" <=> plan.holderDelta < 0
PROOF
  <1> DEFINE phase == IF plan.holderDelta < 0 THEN "balance" ELSE "levels"
             v == Planned(w, plan)
  <1>1. phase \in Phase /\ phase \in {"balance", "levels"} /\ (phase = "balance" <=> plan.holderDelta < 0)
    BY DEF Phase
  <1>2. v = [w EXCEPT !.plan = plan, !.phase = phase]
    BY DEF Planned
  <1> HIDE DEF phase, v
  <1>3. /\ v \in Work /\ v.phase \in {"balance", "levels"} /\ v.plan = plan
        /\ v.lines = w.lines /\ v.holds = w.holds /\ v.delta = w.delta /\ v.moved = w.moved
        /\ v.phase = "balance" <=> plan.holderDelta < 0
    BY <1>1, <1>2 DEF Work
  <1> QED
    BY <1>3 DEF v

LEMMA LockedParts ==
    ASSUME NEW w \in Work, NEW lock \in Lock
    PROVE  LET v == Locked(w, lock)
           IN /\ v \in Work /\ v.phase = w.phase /\ v.plan = w.plan /\ v.lines = w.lines
              /\ v.holds = w.holds \cup {lock} /\ v.delta = w.delta /\ v.moved = w.moved
  BY DEF Work, Locked

(* Planning a line, from the counts before it or from nothing. *)
LEMMA PlannedSound ==
    ASSUME NEW w \in Work, Listed(w.lines), Later(w), Holding(w), w.delta = w.moved,
           NEW expected \in Int, NEW plan, plan = planMovement(Of(w), expected),
           \A lock \in w.holds :
              Before(lock, Counted(Of(w))) \/ (Of(w).reason = "count" /\ lock = Counted(Of(w))),
           IF Of(w).reason = "count"
           THEN Counted(Of(w)) \in w.holds /\ w.delta[Counted(Of(w))] = 0
           ELSE w.holds = {} /\ w.delta = Zero
    PROVE  Sound(Planned(w, plan))
PROOF
  <1> DEFINE v == Planned(w, plan)
             m == Of(w)
  <1>1. Sensible(m)
    BY FirstLine
  <1>2. Fits(m, plan) /\ (m.reason = "count" => FitsCount(m, expected, plan))
    BY <1>1, PlansFit
  <1>3. /\ v \in Work /\ v.phase \in {"balance", "levels"} /\ v.plan = plan
        /\ v.lines = w.lines /\ v.holds = w.holds /\ v.delta = w.delta /\ v.moved = w.moved
        /\ v.phase = "balance" <=> plan.holderDelta < 0
    BY <1>2, PlannedParts DEF Fits
  <1> HIDE DEF v
  <1>4. Of(v) = m
    BY <1>3 DEF Of
  <1> HIDE DEF m
  <1>5. ToTake(v) = plan.levelChanges
    BY <1>3 DEF ToTake
  <1>6. Listed(v.lines) /\ Later(v) /\ Holding(v)
    BY <1>3 DEF Later, Holding
  <1>7. CountHeld(v)
    BY <1>2, <1>3, <1>4, <1>5 DEF CountHeld, FitsCount, m
  <1>8. Unfinished(v)
    <2>1. CASE m.reason = "count"
      <3>1. \A i \in 1 .. Len(plan.levelChanges) :
               Where(m, plan.levelChanges[i]) = Counted(m)
        BY <1>2, <2>1 DEF FitsCount, Where, Counted
      <3> QED
        BY <1>2, <1>3, <1>4, <1>5, <2>1, <3>1 DEF Unfinished, Fits, m
    <2>2. CASE m.reason # "count"
      BY <1>2, <1>3, <1>4, <1>5, <2>2, ZeroIsNothing DEF Unfinished, Fits, m
    <2> QED
      BY <2>1, <2>2
  <1>9. Reckoned(v)
    <2> SUFFICES ASSUME NEW p \in Place
                 PROVE  w.delta[p] + Still(m, plan.levelChanges, p) = w.moved[p] + RowAt(m, plan, p)
      BY <1>3, <1>4, <1>5 DEF Reckoned
    <2> QED
      BY <1>2 DEF Fits
  <1>10. v.plan.holderDelta # 0 => Of(v).crew \in Crew
    BY <1>2, <1>3, <1>4 DEF Fits
  <1>11. v.phase = "balance" => v.holds = {} /\ v.plan.holderDelta # 0
    BY <1>2, <1>3 DEF FitsCount, m
  <1> QED
    BY <1>3, <1>6, <1>7, <1>8, <1>9, <1>10, <1>11 DEF Sound, v

(* Once a line is planned, it covers what its plan was made for. *)
LEMMA PlannedCovered ==
    ASSUME NEW w \in Work, Listed(w.lines), NEW lv \in [Place -> Int], NEW expected \in Int,
           NEW plan, plan = planMovement(Of(w), expected),
           \A p \in Place : w.delta[p] >= 0 \/ lv[p] + w.delta[p] >= 0,
           Of(w).reason = "count" => /\ lv[Counted(Of(w))] = expected
                                     /\ w.delta[Counted(Of(w))] = 0
    PROVE  /\ Covered(Planned(w, plan), lv)
           /\ \A out, have : Owed(Planned(w, plan), out, have)
PROOF
  <1> DEFINE v == Planned(w, plan)
             m == Of(w)
  <1>1. Sensible(m)
    BY FirstLine
  <1>2. Fits(m, plan) /\ (m.reason = "count" => FitsCount(m, expected, plan))
    BY <1>1, PlansFit
  <1>3. /\ v \in Work /\ v.phase \in {"balance", "levels"} /\ v.plan = plan
        /\ v.lines = w.lines /\ v.delta = w.delta
        /\ v.phase = "balance" <=> plan.holderDelta < 0
    BY <1>2, PlannedParts DEF Fits
  <1> HIDE DEF v
  <1>4. Of(v) = m
    BY <1>3 DEF Of
  <1> HIDE DEF m
  <1>5. ToTake(v) = plan.levelChanges
    BY <1>3 DEF ToTake
  <1>6. ASSUME m.reason = "count"
        PROVE  lv[Counted(m)] + w.delta[Counted(m)] + Still(m, plan.levelChanges, Counted(m)) = m.qty
    <2>1. Still(m, plan.levelChanges, Counted(m)) = m.qty - expected
      BY <1>2, <1>6 DEF FitsCount, Counted
    <2>2. m.qty \in Int
      BY <1>1 DEF Sensible, Move
    <2> QED
      BY <1>6, <2>1, <2>2 DEF m
  <1>7. Covered(v, lv)
    BY <1>3, <1>4, <1>5, <1>6 DEF Covered
  <1>8. \A out, have : Owed(v, out, have)
    BY <1>3 DEF Owed
  <1> QED
    BY <1>7, <1>8 DEF v

(* A request that just begins. *)
LEMMA BegunSound ==
    ASSUME NEW lines, Listed(lines), NEW w, w = [NoWork EXCEPT !.lines = lines]
    PROVE  /\ w \in Work /\ w.lines = lines /\ w.holds = {} /\ w.delta = Zero /\ w.moved = Zero
           /\ Listed(w.lines) /\ Later(w) /\ Holding(w)
           /\ LET v == [w EXCEPT !.phase = "count"]
              IN Of(w).reason = "count" =>
                    /\ Sound(v) /\ v.holds = {}
                    /\ \A lv \in [Place -> Int] : \A out, have : Covered(v, lv) /\ Owed(v, out, have)
PROOF
  <1>1. lines \in Seq(Move)
    BY DEF Listed
  <1>2. NoWork.moved = Zero
    BY DEF NoWork
  <1>3. /\ w \in Work /\ w.lines = lines /\ w.holds = {} /\ w.delta = Zero /\ w.moved = Zero
    BY <1>1, <1>2, NoWorkIsWork DEF Work
  <1>4. Listed(w.lines) /\ Later(w) /\ Holding(w)
    BY <1>3, ZeroIsNothing DEF Later, Holding
  <1> DEFINE v == [w EXCEPT !.phase = "count"]
  <1>5. /\ v \in Work /\ v.lines = lines /\ v.holds = {} /\ v.delta = Zero /\ v.moved = Zero
        /\ v.phase = "count"
    BY <1>3 DEF Work, Phase
  <1> HIDE DEF v
  <1>6. ASSUME Of(w).reason = "count"
        PROVE  Sound(v) /\ v.holds = {}
               /\ \A lv \in [Place -> Int] : \A out, have : Covered(v, lv) /\ Owed(v, out, have)
    <2>1. Of(v).reason = "count"
      BY <1>3, <1>5, <1>6 DEF Of
    <2>2. Listed(v.lines) /\ Later(v) /\ Holding(v) /\ Counting(v)
      BY <1>5, <2>1, ZeroIsNothing DEF Later, Holding, Counting
    <2>3. Sound(v)
      BY <1>5, <2>2 DEF Sound
    <2>4. ASSUME NEW lv \in [Place -> Int], NEW out, NEW have
          PROVE  Covered(v, lv) /\ Owed(v, out, have)
      BY <1>5, ZeroIsNothing DEF Covered, Owed
    <2> QED
      BY <1>5, <2>3, <2>4
  <1> QED
    BY <1>3, <1>4, <1>6 DEF v

LEMMA StillSplits ==
    ASSUME NEW m, NEW changes \in Seq(Change), Len(changes) \in 1 .. 2, NEW q
    PROVE  /\ Tail(changes) \in Seq(Change) /\ Len(Tail(changes)) = Len(changes) - 1
           /\ Len(changes) = 2 => Tail(changes)[1] = changes[2]
           /\ Adds(m, changes[1], q) \in Int /\ Still(m, Tail(changes), q) \in Int
           /\ Still(m, changes, q) = Adds(m, changes[1], q) + Still(m, Tail(changes), q)
PROOF
  <1>1. /\ Tail(changes) \in Seq(Change) /\ Len(Tail(changes)) = Len(changes) - 1
        /\ \A i \in 1 .. Len(Tail(changes)) : Tail(changes)[i] = changes[i + 1]
    <2>1. changes # <<>>
      BY EmptySeq
    <2> QED
      BY <2>1, HeadTailProperties
  <1>0. changes # <<>> /\ 1 \in 1 .. Len(changes)
    BY EmptySeq
  <1>2. changes[1] \in Change /\ Adds(m, changes[1], q) \in Int
    <2>1. changes[1] \in Change
      BY <1>0, ElementOfSeq
    <2> QED
      BY <2>1 DEF Change, Adds
  <1>3. CASE Len(changes) = 1
    <2>1. Len(Tail(changes)) = 0
      BY <1>1, <1>3
    <2>2. Still(m, Tail(changes), q) = 0
      BY <2>1 DEF Still
    <2>3. Still(m, changes, q) = Adds(m, changes[1], q) + 0
      BY <1>3 DEF Still
    <2> QED
      BY <1>1, <1>2, <1>3, <2>2, <2>3
  <1>4. CASE Len(changes) = 2
    <2>0. Len(Tail(changes)) = 1
      BY <1>1, <1>4
    <2>1. Len(Tail(changes)) = 1 /\ Tail(changes)[1] = changes[2]
      <3>1. 1 \in 1 .. Len(Tail(changes)) /\ 1 + 1 = 2
        BY <2>0
      <3>2. Tail(changes)[1] = changes[1 + 1]
        BY <1>1, <3>1
      <3> QED
        BY <2>0, <3>1, <3>2
    <2>2. changes[2] \in Change /\ Adds(m, changes[2], q) \in Int
      <3>1. 2 \in 1 .. Len(changes)
        BY <1>4
      <3>2. changes[2] \in Change
        BY <3>1, ElementOfSeq
      <3> QED
        BY <3>2 DEF Change, Adds
    <2>3. Still(m, Tail(changes), q) = Adds(m, changes[2], q)
      BY <2>1, <2>2 DEF Still
    <2>4. Still(m, changes, q) = Adds(m, changes[1], q) + Adds(m, changes[2], q)
      BY <1>4 DEF Still
    <2> QED
      BY <1>1, <1>2, <1>4, <2>1, <2>2, <2>3, <2>4
  <1> QED
    BY <1>3, <1>4

LEMMA TakenParts ==
    ASSUME NEW w \in Work, NEW p \in Place, NEW by \in Int, Tail(ToTake(w)) \in Seq(Change)
    PROVE  LET v == Drawn(w, p, by)
           IN /\ v \in Work /\ v.phase = w.phase /\ v.lines = w.lines /\ v.moved = w.moved
              /\ v.holds = w.holds \cup {p}
              /\ v.plan.holderDelta = w.plan.holderDelta /\ v.plan.qty = w.plan.qty
              /\ v.plan.from = w.plan.from /\ v.plan.to = w.plan.to
              /\ ToTake(v) = Tail(ToTake(w))
              /\ \A q \in Place : v.delta[q] = w.delta[q] + IF q = p THEN by ELSE 0
PROOF
  <1> DEFINE v == Drawn(w, p, by)
             u == Locked(w, p)
             rest == Tail(ToTake(w))
             delta == Plus(w.delta, At(p[1], p[2], by))
  <1>1. /\ u \in Work /\ u.phase = w.phase /\ u.plan = w.plan /\ u.lines = w.lines
        /\ u.holds = w.holds \cup {p} /\ u.moved = w.moved
    BY LockedParts DEF Lock
  <1>2. /\ delta \in [Place -> Int]
        /\ \A q \in Place : delta[q] = w.delta[q] + IF q = p THEN by ELSE 0
    <2>1. w.delta \in [Place -> Int]
      BY DEF Work
    <2>2. p = <<p[1], p[2]>>
      BY PlaceParts
    <2> QED
      BY <2>1, <2>2 DEF Plus, At
  <1>3. rest \in Seq(Change)
    OBVIOUS
  <1>4. v = [u EXCEPT !.plan.levelChanges = rest, !.delta = delta]
    BY DEF Drawn, ToTake
  <1> HIDE DEF v, u, rest, delta
  <1>5. u.plan \in Plan
    BY <1>1 DEF Work
  <1>6. /\ v \in Work /\ v.phase = u.phase /\ v.lines = u.lines /\ v.holds = u.holds
        /\ v.moved = u.moved /\ v.delta = delta
        /\ v.plan = [u.plan EXCEPT !.levelChanges = rest]
    BY <1>1, <1>2, <1>3, <1>4, <1>5 DEF Work, Plan
  <1>7. /\ v.plan.holderDelta = w.plan.holderDelta /\ v.plan.qty = w.plan.qty
        /\ v.plan.from = w.plan.from /\ v.plan.to = w.plan.to
        /\ v.plan.levelChanges = rest
    BY <1>1, <1>5, <1>6 DEF Plan
  <1> QED
    BY <1>1, <1>2, <1>6, <1>7 DEF v, rest, ToTake

(* A level is taken: it is held, and what is still to come is one change less. *)
LEMMA TakenSound ==
    ASSUME NEW w, Sound(w), w.phase = "levels", ToTake(w) # <<>>,
           NEW p, p = Where(Of(w), ToTake(w)[1]), NEW by, by = ToTake(w)[1].by
    PROVE  /\ p \in Place /\ by \in Int /\ w.delta[p] = 0 /\ Sound(Drawn(w, p, by))
           /\ Drawn(w, p, by) \in Work /\ Tail(ToTake(w)) \in Seq(Change)
           /\ Len(ToTake(w)) \in 1 .. 2 /\ ToTake(w) \in Seq(Change)
PROOF
  <1> DEFINE v == Drawn(w, p, by)
             m == Of(w)
             ch == ToTake(w)
             rest == Tail(ToTake(w))
  <1>0. /\ w \in Work /\ Listed(w.lines) /\ Later(w) /\ Holding(w)
        /\ Unfinished(w) /\ Reckoned(w) /\ CountHeld(w)
        /\ w.plan.holderDelta # 0 => m.crew \in Crew
    BY DEF Sound
  <1>1. ch \in Seq(Change) /\ Len(ch) \in 1 .. 2
    BY <1>0 DEF Work, Plan, ToTake, Unfinished
  <1>2. /\ p \in Place /\ w.delta[p] = 0 /\ by \in Int
        /\ p[1] = m.supply /\ p[2] = ch[1].at /\ ch[1] \in Change
    <2>1. 1 \in 1 .. Len(ch)
      BY <1>1
    <2>2. ch[1] \in Change
      BY <1>1, <2>1, ElementOfSeq
    <2>3. p \in Place /\ w.delta[p] = 0
      BY <1>0, <2>1 DEF Unfinished
    <2>4. by \in Int
      BY <2>2 DEF Change
    <2> QED
      BY <2>2, <2>3, <2>4 DEF Where
  <1>3. rest \in Seq(Change) /\ Len(rest) = Len(ch) - 1
        /\ (Len(ch) = 2 => rest[1] = ch[2])
    BY <1>1, StillSplits
  <1>4. /\ v \in Work /\ v.phase = w.phase /\ v.lines = w.lines /\ v.moved = w.moved
        /\ v.holds = w.holds \cup {p}
        /\ v.plan.holderDelta = w.plan.holderDelta /\ v.plan.qty = w.plan.qty
        /\ v.plan.from = w.plan.from /\ v.plan.to = w.plan.to
        /\ ToTake(v) = rest
        /\ \A q \in Place : v.delta[q] = w.delta[q] + IF q = p THEN by ELSE 0
    BY <1>0, <1>2, <1>3, TakenParts
  <1> HIDE DEF v
  <1>5. Of(v) = m
    BY <1>4 DEF Of
  <1>6. w.delta \in [Place -> Int]
    BY <1>0 DEF Work
  <1>7. /\ m = w.lines[1] /\ Sensible(m) /\ Len(w.lines) \in Nat \ {0}
        /\ (Len(w.lines) > 1 => m.reason = "count")
    BY <1>0, FirstLine
  <1> HIDE DEF m, ch, rest
  <1>8. Later(v)
    <2> SUFFICES ASSUME NEW i \in 2 .. Len(w.lines)
                 PROVE  Before(p, Counted(w.lines[i]))
      BY <1>0, <1>4 DEF Later
    <2>1. m.supply < w.lines[i].supply
      BY <1>0, <1>7 DEF Listed
    <2> QED
      BY <1>2, <2>1 DEF Before, Counted
  <1>9. Holding(v)
    <2> SUFFICES ASSUME NEW q \in Place, v.delta[q] # 0, q # p
                 PROVE  q \in w.holds
      BY <1>4 DEF Holding
    <2>1. v.delta[q] = w.delta[q] + 0 /\ w.delta[q] \in Int
      BY <1>4, <1>6
    <2> QED
      BY <1>0, <2>1 DEF Holding
  <1>10. Unfinished(v)
    <2>1. CASE Len(ch) = 1
      BY <1>3, <1>4, <2>1 DEF Unfinished
    <2>2. CASE Len(ch) = 2
      <3> DEFINE q == Where(m, ch[2])
      <3>1. /\ q \in Place /\ w.delta[q] = 0 /\ q[1] = m.supply /\ q[2] = ch[2].at
            /\ ch[1].at < ch[2].at
            /\ \A lock \in w.holds : Before(lock, q) \/ (m.reason = "count" /\ lock = q)
        <4>1. 2 \in 1 .. Len(ch)
          BY <2>2
        <4>2. /\ q \in Place /\ w.delta[q] = 0
              /\ \A lock \in w.holds : Before(lock, q) \/ (m.reason = "count" /\ lock = q)
          <5>1. \A i \in 1 .. Len(ch) :
                   /\ Where(m, ch[i]) \in Place /\ w.delta[Where(m, ch[i])] = 0
                   /\ \A lock \in w.holds :
                        \/ Before(lock, Where(m, ch[i]))
                        \/ m.reason = "count" /\ lock = Where(m, ch[i])
            BY <1>0 DEF Unfinished, m, ch
          <5> QED
            BY <4>1, <5>1, Zenon
        <4>3. ch[1].at < ch[2].at
          BY <1>0, <2>2 DEF Unfinished, ch
        <4>4. q[1] = m.supply /\ q[2] = ch[2].at
          BY DEF Where
        <4> QED
          BY <4>2, <4>3, <4>4
      <3>2. q # p /\ Before(p, q)
        BY <1>2, <3>1, PlaceParts DEF Before
      <3>3. v.delta[q] = 0
        <4>1. v.delta[q] = w.delta[q] + 0
          BY <1>4, <3>1, <3>2
        <4> QED
          BY <3>1, <4>1
      <3>4. Len(rest) = 1 /\ rest[1] = ch[2]
        <4>1. Len(rest) = 2 - 1
          BY <1>3, <2>2
        <4> QED
          BY <1>3, <2>2, <4>1
      <3> HIDE DEF q
      <3>5. \A i \in 1 .. Len(rest) : Where(m, rest[i]) = q
        BY <3>4 DEF q
      <3>6. ASSUME NEW i \in 1 .. Len(rest)
            PROVE  /\ Where(m, rest[i]) \in Place /\ v.delta[Where(m, rest[i])] = 0
                   /\ \A lock \in v.holds :
                        \/ Before(lock, Where(m, rest[i]))
                        \/ m.reason = "count" /\ lock = Where(m, rest[i])
        BY <1>4, <3>1, <3>2, <3>3, <3>5
      <3> QED
        BY <1>4, <1>5, <3>4, <3>6 DEF Unfinished
    <2> QED
      BY <1>1, <2>1, <2>2
  <1>11. Reckoned(v)
    <2> SUFFICES ASSUME NEW q \in Place
                 PROVE  v.delta[q] + Still(m, rest, q) = w.moved[q] + RowAt(m, w.plan, q)
      BY <1>4, <1>5 DEF Reckoned, RowAt
    <2>1. /\ Adds(m, ch[1], q) \in Int /\ Still(m, rest, q) \in Int
          /\ Still(m, ch, q) = Adds(m, ch[1], q) + Still(m, rest, q)
      BY <1>1, StillSplits DEF ch, rest
    <2>2. Adds(m, ch[1], q) = IF q = p THEN by ELSE 0
      BY DEF Adds, m, ch
    <2>3. w.delta[q] + Still(m, ch, q) = w.moved[q] + RowAt(m, w.plan, q)
      BY <1>0 DEF Reckoned, m, ch
    <2>4. w.delta[q] \in Int
      BY <1>6
    <2> QED
      BY <1>4, <2>1, <2>2, <2>3, <2>4
  <1>12. CountHeld(v)
    BY <1>0, <1>1, <1>3, <1>4, <1>5 DEF CountHeld, m, ch
  <1>13. Sound(v)
    BY <1>0, <1>4, <1>5, <1>8, <1>9, <1>10, <1>11, <1>12 DEF Sound
  <1> QED
    BY <1>0, <1>1, <1>2, <1>3, <1>4, <1>13 DEF v, m, ch, rest

(* ... and the level covers it, for it was looked at. *)
LEMMA TakenCovered ==
    ASSUME NEW w, Sound(w), w.phase = "levels", ToTake(w) # <<>>,
           NEW p, p = Where(Of(w), ToTake(w)[1]), NEW by, by = ToTake(w)[1].by,
           NEW lv \in [Place -> Int], Covered(w, lv),
           by > 0 \/ Of(w).reason = "adjust" \/ lv[p] + by >= 0
    PROVE  Covered(Drawn(w, p, by), lv)
PROOF
  <1> DEFINE v == Drawn(w, p, by)
             m == Of(w)
             ch == ToTake(w)
  <1>1. /\ p \in Place /\ by \in Int /\ w.delta[p] = 0
        /\ Tail(ch) \in Seq(Change) /\ ch \in Seq(Change) /\ Len(ch) \in 1 .. 2
    BY TakenSound
  <1>2. w \in Work /\ Listed(w.lines)
    BY DEF Sound
  <1>3. /\ v.phase = w.phase /\ v.lines = w.lines /\ ToTake(v) = Tail(ch)
        /\ \A q \in Place : v.delta[q] = w.delta[q] + IF q = p THEN by ELSE 0
    BY <1>1, <1>2, TakenParts
  <1> HIDE DEF v
  <1>4. Of(v) = m /\ Sensible(m)
    BY <1>2, <1>3, FirstLine DEF Of
  <1>5. w.delta \in [Place -> Int]
    BY <1>2 DEF Work
  <1>6. ASSUME m.reason # "adjust", NEW q \in Place
        PROVE  v.delta[q] >= 0 \/ lv[q] + v.delta[q] >= 0
    <2>1. w.delta[q] \in Int /\ lv[q] \in Int
      BY <1>5
    <2>2. w.delta[q] >= 0 \/ lv[q] + w.delta[q] >= 0
      BY <1>6 DEF Covered
    <2>3. CASE q = p
      BY <1>1, <1>3, <1>6, <2>1, <2>3
    <2>4. CASE q # p
      BY <1>3, <2>1, <2>2, <2>4
    <2> QED
      BY <2>3, <2>4
  <1>7. ASSUME m.reason = "count"
        PROVE  lv[Counted(m)] + v.delta[Counted(m)] + Still(m, Tail(ch), Counted(m)) = m.qty
    <2> DEFINE q == Counted(m)
    <2>1. q \in Place
      BY <1>4, <1>7 DEF Sensible, Counted
    <2> HIDE DEF q
    <2>2. lv[q] + w.delta[q] + Still(m, ch, q) = m.qty
      BY <1>7 DEF Covered, q
    <2>3. /\ Adds(m, ch[1], q) \in Int /\ Still(m, Tail(ch), q) \in Int
          /\ Still(m, ch, q) = Adds(m, ch[1], q) + Still(m, Tail(ch), q)
      BY <1>1, StillSplits
    <2>4. Adds(m, ch[1], q) = IF q = p THEN by ELSE 0
      BY DEF Adds
    <2>5. w.delta[q] \in Int /\ lv[q] \in Int
      BY <1>5, <2>1
    <2>6. v.delta[q] = w.delta[q] + Adds(m, ch[1], q)
      BY <1>3, <2>1, <2>4
    <2>7. lv[q] + v.delta[q] + Still(m, Tail(ch), q) = m.qty
      BY <2>2, <2>3, <2>5, <2>6
    <2> QED
      BY <2>7 DEF q
  <1> QED
    BY <1>3, <1>4, <1>6, <1>7 DEF Covered, v

(* The crew's balance is locked, and will bear what is taken back. *)
LEMMA BalanceSound ==
    ASSUME NEW w, Sound(w), w.phase = "balance", NEW b, b = <<Of(w).supply, Of(w).crew>>,
           b \in Balance,
           NEW lv, Covered(w, lv), NEW out, NEW have, out[b] + w.plan.holderDelta >= 0
    PROVE  LET v == [Locked(w, b) EXCEPT !.phase = "levels"]
           IN Sound(v) /\ Covered(v, lv) /\ Owed(v, out, have) /\ v.holds = {b}
PROOF
  <1> DEFINE v == [Locked(w, b) EXCEPT !.phase = "levels"]
             m == Of(w)
  <1>0. /\ w \in Work /\ Listed(w.lines) /\ Later(w) /\ Holding(w) /\ w.holds = {}
        /\ Unfinished(w) /\ Reckoned(w) /\ CountHeld(w)
        /\ w.plan.holderDelta # 0 => m.crew \in Crew
    BY DEF Sound
  <1>1. b \in Lock
    BY DEF Lock
  <1>2. /\ v \in Work /\ v.phase = "levels" /\ v.plan = w.plan /\ v.lines = w.lines
        /\ v.holds = {b} /\ v.delta = w.delta /\ v.moved = w.moved
    <2>1. /\ Locked(w, b) \in Work /\ Locked(w, b).plan = w.plan /\ Locked(w, b).lines = w.lines
          /\ Locked(w, b).holds = w.holds \cup {b} /\ Locked(w, b).delta = w.delta
          /\ Locked(w, b).moved = w.moved
      BY <1>0, <1>1, LockedParts
    <2> QED
      BY <1>0, <2>1 DEF Work, Phase
  <1> HIDE DEF v
  <1>3. Of(v) = m /\ ToTake(v) = ToTake(w)
    BY <1>2 DEF Of, ToTake
  <1>4. b \notin Place
    BY BalanceIsNoPlace
  <1>5. m.reason # "count"
    BY <1>0 DEF CountHeld
  <1> HIDE DEF m
  <1>6. Later(v) /\ Holding(v)
    BY <1>0, <1>2, <1>4 DEF Later, Holding, Before
  <1>7. Unfinished(v)
    BY <1>0, <1>2, <1>3, <1>4 DEF Unfinished, Before, m
  <1>8. Reckoned(v)
    BY <1>0, <1>2, <1>3 DEF Reckoned, m
  <1>9. CountHeld(v)
    BY <1>3, <1>5 DEF CountHeld
  <1>10. Sound(v)
    BY <1>0, <1>2, <1>3, <1>6, <1>7, <1>8, <1>9 DEF Sound
  <1>11. Covered(v, lv)
    BY <1>2, <1>3, <1>5 DEF Covered, m
  <1>12. Owed(v, out, have)
    BY <1>2, <1>3 DEF Owed, m
  <1> QED
    BY <1>2, <1>10, <1>11, <1>12 DEF v

(* What a plan that is taken comes to: the row's movement. *)
LEMMA TakenAll ==
    ASSUME NEW w, Sound(w), w.phase = "levels", ToTake(w) = <<>>
    PROVE  RowMoves(w) = w.delta
PROOF
  <1> DEFINE m == Of(w)
  <1>0. w \in Work /\ Listed(w.lines) /\ Reckoned(w)
    BY DEF Sound
  <1>1. w.delta \in [Place -> Int] /\ w.moved \in [Place -> Int] /\ w.plan \in Plan
    BY <1>0 DEF Work
  <1>2. w.plan.qty \in Int
    BY <1>1 DEF Plan
  <1>3. ASSUME NEW p \in Place
        PROVE  RowMoves(w)[p] = w.delta[p]
    <2>1. Still(m, ToTake(w), p) = 0
      BY EmptySeq DEF Still
    <2>2. w.delta[p] + 0 = w.moved[p] + RowAt(m, w.plan, p)
      BY <1>0, <2>1 DEF Reckoned
    <2>3. RowMoves(w)[p] = w.moved[p] + RowAt(m, w.plan, p)
      BY <1>1, <1>2 DEF RowMoves, Plus, At, RowAt, Of
    <2> QED
      BY <1>1, <2>2, <2>3
  <1>4. RowMoves(w) = [p \in Place |-> RowMoves(w)[p]]
    BY DEF RowMoves, Plus
  <1> QED
    BY <1>1, <1>3, <1>4

(* The next line of a count. *)
LEMMA NextSound ==
    ASSUME NEW w, Sound(w), w.phase = "levels", ToTake(w) = <<>>, Len(w.lines) > 1,
           NEW lv, Covered(w, lv)
    PROVE  LET v == [w EXCEPT !.phase = "count", !.lines = Tail(w.lines), !.plan = NoPlan,
                              !.moved = RowMoves(w)]
           IN /\ Sound(v) /\ Covered(v, lv) /\ v.holds = w.holds
              /\ \A out, have : Owed(v, out, have)
PROOF
  <1> DEFINE rest == Tail(w.lines)
             v == [w EXCEPT !.phase = "count", !.lines = rest, !.plan = NoPlan,
                            !.moved = RowMoves(w)]
  <1>0. w \in Work /\ Listed(w.lines) /\ Later(w) /\ Holding(w)
    BY DEF Sound
  <1>1. RowMoves(w) = w.delta /\ w.delta \in [Place -> Int]
    BY <1>0, TakenAll DEF Work
  <1>2. /\ rest \in Seq(Move) /\ Len(rest) = Len(w.lines) - 1 /\ Len(w.lines) \in Nat
        /\ \A i \in 1 .. Len(rest) : rest[i] = w.lines[i + 1]
    BY <1>0, HeadTailProperties DEF Listed
  <1> HIDE DEF rest
  <1>3. /\ v \in Work /\ v.phase = "count" /\ v.lines = rest /\ v.holds = w.holds
        /\ v.delta = w.delta /\ v.moved = w.delta
    BY <1>0, <1>1, <1>2, NoPlanIsPlan DEF Work, Phase
  <1> HIDE DEF v
  <1>4. rest # <<>> /\ Len(rest) \in Nat \ {0}
    BY <1>2, EmptySeq
  <1>5. \A i \in 1 .. Len(rest) : i + 1 \in 1 .. Len(w.lines) /\ i + 1 \in 2 .. Len(w.lines)
    BY <1>2, <1>4
  <1>6. Listed(rest)
    <2>1. \A i \in 1 .. Len(rest) : Sensible(rest[i]) /\ rest[i].reason = "count"
      BY <1>0, <1>2, <1>5 DEF Listed
    <2>2. ASSUME NEW i \in 1 .. Len(rest), NEW j \in 1 .. Len(rest), i < j
          PROVE  rest[i].supply < rest[j].supply
      <3>1. i + 1 < j + 1
        BY <2>2
      <3> QED
        BY <1>0, <1>2, <1>5, <3>1 DEF Listed
    <2> QED
      BY <1>2, <1>4, <2>1, <2>2 DEF Listed
  <1>7. Of(v) = rest[1] /\ rest[1] = w.lines[2] /\ 2 \in 2 .. Len(w.lines)
    <2>1. 1 \in 1 .. Len(rest) /\ 1 + 1 = 2
      BY <1>4
    <2>2. rest[1] = w.lines[1 + 1] /\ 1 + 1 \in 2 .. Len(w.lines)
      BY <1>2, <1>5, <2>1
    <2> QED
      BY <1>2, <1>3, <1>4, <2>1, <2>2, HeadIsFirst DEF Of
  <1>8. Later(v)
    <2> SUFFICES ASSUME NEW i \in 2 .. Len(rest), NEW lock \in w.holds
                 PROVE  Before(lock, Counted(rest[i]))
      BY <1>3 DEF Later
    <2>1. i \in 1 .. Len(rest)
      BY <1>4
    <2> QED
      BY <1>0, <1>2, <1>5, <2>1 DEF Later
  <1>9. Counting(v)
    <2>1. Of(v).reason = "count"
      BY <1>0, <1>7 DEF Listed
    <2>2. \A lock \in w.holds : Before(lock, Counted(Of(v)))
      BY <1>0, <1>7 DEF Later
    <2> QED
      BY <1>3, <2>1, <2>2 DEF Counting
  <1>10. Holding(v)
    BY <1>0, <1>3 DEF Holding
  <1>11. Sound(v)
    BY <1>3, <1>6, <1>8, <1>9, <1>10 DEF Sound
  <1>12. Covered(v, lv)
    <2>1. Of(w).reason = "count"
      BY <1>0, FirstLine
    <2>2. \A p \in Place : w.delta[p] >= 0 \/ lv[p] + w.delta[p] >= 0
      BY <2>1 DEF Covered
    <2> QED
      BY <1>3, <2>2 DEF Covered
  <1>13. \A out, have : Owed(v, out, have)
    BY <1>3 DEF Owed
  <1> QED
    BY <1>3, <1>11, <1>12, <1>13 DEF v, rest

-----------------------------------------------------------------------------
(* Every step keeps the invariant *)

LEMMA InitHolds == StockInit => StockInv
PROOF
  <1> SUFFICES ASSUME StockInit PROVE StockInv
    OBVIOUS
  <1>1. StockTypeOK
    BY NoWorkIsWork, ZeroIsNothing DEF StockInit, StockTypeOK
  <1>2. work \in [Clerk -> Work] /\ \A c \in Clerk : work[c] = NoWork
    BY NoWorkIsWork DEF StockInit
  <1>3. \A c \in Clerk : Sound(work[c]) /\ Covered(work[c], level) /\ Owed(work[c], outstanding, crews)
    BY <1>2, NoWorkSound
  <1>4. Disjoint
    BY <1>2, NoWorkIsWork DEF Disjoint
  <1>5. LevelsAreMovements /\ NothingOwedTwice
    BY DEF StockInit, LevelsAreMovements, NothingOwedTwice
  <1> QED
    BY <1>1, <1>2, <1>3, <1>4, <1>5 DEF StockInv

(* A step of one transaction, which nobody sees yet. *)
LEMMA UnseenStep ==
    ASSUME StockInv, NEW c \in Clerk, NEW v, work' = [work EXCEPT ![c] = v],
           UNCHANGED <<shelves, crews, level, moved, outstanding>>,
           Sound(v), Covered(v, level), Owed(v, outstanding, crews),
           \A d \in Clerk \ {c} : v.holds \cap work[d].holds = {}
    PROVE  StockInv'
PROOF
  <1>1. v \in Work /\ v.phase \in Phase
    BY DEF Sound, Work
  <1>2. work \in [Clerk -> Work] /\ StockTypeOK
    BY DEF StockInv
  <1>3. /\ work' \in [Clerk -> Work]
        /\ \A d \in Clerk : work'[d] = IF d = c THEN v ELSE work[d]
    BY <1>1, <1>2
  <1>4. StockTypeOK'
    BY <1>1, <1>2, <1>3 DEF StockTypeOK, Phase
  <1>5. ASSUME NEW d \in Clerk
        PROVE  /\ Sound(work'[d]) /\ Covered(work'[d], level') /\ Owed(work'[d], outstanding', crews')
    <2>1. /\ Sound(work[d]) /\ Covered(work[d], level) /\ Owed(work[d], outstanding, crews)
      BY DEF StockInv
    <2> QED
      BY <1>3, <2>1
  <1>6. Disjoint'
    <2> SUFFICES ASSUME NEW d \in Clerk, NEW e \in Clerk, d # e
                 PROVE  work'[d].holds \cap work'[e].holds = {}
      BY DEF Disjoint
    <2>1. work[d].holds \cap work[e].holds = {}
      BY DEF StockInv, Disjoint
    <2> QED
      BY <1>3, <2>1
  <1>7. LevelsAreMovements' /\ NothingOwedTwice'
    BY DEF StockInv, LevelsAreMovements, NothingOwedTwice
  <1> QED
    BY <1>3, <1>4, <1>5, <1>6, <1>7 DEF StockInv

(* What a request begins with. *)
LEMMA BeginsSound ==
    ASSUME StockInv, NEW c \in Clerk, NEW lines, Listed(lines), Begins(c, lines)
    PROVE  StockInv'
PROOF
  <1> DEFINE w == [NoWork EXCEPT !.lines = lines]
             counting == [w EXCEPT !.phase = "count"]
             plan == planMovement(lines[1], 0)
             v == IF lines[1].reason = "count" THEN counting ELSE Planned(w, plan)
  <1>1. /\ w \in Work /\ w.lines = lines /\ w.holds = {} /\ w.delta = Zero /\ w.moved = Zero
        /\ Listed(w.lines) /\ Later(w) /\ Holding(w)
        /\ Of(w).reason = "count" =>
              /\ Sound(counting) /\ counting.holds = {}
              /\ \A lv \in [Place -> Int] : \A out, have : Covered(counting, lv) /\ Owed(counting, out, have)
    BY BegunSound
  <1>2. work' = [work EXCEPT ![c] = v] /\ UNCHANGED <<shelves, crews, level, moved, outstanding>>
    BY DEF Begins
  <1> HIDE DEF counting, w
  <1>3. Of(w) = lines[1]
    BY <1>1, FirstLine
  <1>4. level \in [Place -> Int]
    BY DEF StockInv, StockTypeOK
  <1>5. Sound(v) /\ Covered(v, level) /\ Owed(v, outstanding, crews) /\ v.holds = {}
    <2>1. CASE lines[1].reason = "count"
      BY <1>1, <1>3, <1>4, <2>1
    <2>2. CASE lines[1].reason # "count"
      <3>1. Sound(Planned(w, plan))
        BY <1>1, <1>3, <2>2, PlannedSound
      <3>2. Covered(Planned(w, plan), level) /\ Owed(Planned(w, plan), outstanding, crews)
        <4>1. \A p \in Place : w.delta[p] >= 0 \/ level[p] + w.delta[p] >= 0
          BY <1>1, ZeroIsNothing
        <4> QED
          BY <1>1, <1>3, <1>4, <2>2, <4>1, PlannedCovered
      <3>3. Planned(w, plan).holds = {}
        <4>1. plan \in Plan
          BY <1>1, <1>3, FirstLine, PlansFit DEF Fits
        <4> QED
          BY <1>1, <4>1, PlannedParts
      <3> QED
        BY <2>2, <3>1, <3>2, <3>3
    <2> QED
      BY <2>1, <2>2
  <1> HIDE DEF v
  <1> QED
    BY <1>2, <1>5, UnseenStep

LEMMA RecordMovementSound ==
    ASSUME StockInv, NEW c \in Clerk, recordMovement(c)
    PROVE  StockInv'
PROOF
  <1>1. PICK m \in Requests : Accepted(m) /\ Begins(c, <<m>>)
    BY DEF recordMovement
  <1>2. Sensible(m) /\ m \in Move
    BY <1>1, AsksSensibly DEF Sensible
  <1>3. <<m>> \in Seq(Move) /\ <<m>> # <<>> /\ Len(<<m>>) = 1 /\ <<m>>[1] = m
    BY <1>2
  <1>4. Listed(<<m>>)
    BY <1>2, <1>3 DEF Listed
  <1> QED
    BY <1>1, <1>4, BeginsSound

LEMMA RecordCountSound ==
    ASSUME StockInv, NEW c \in Clerk, recordCount(c)
    PROVE  StockInv'
PROOF
  <1>0. PICK shelf \in shelves, found \in [Supply -> 0 .. MaxQty] :
             \E listed \in SUBSET {s \in Supply : <<s, shelf>> \in Place} :
                /\ Cardinality(listed) > 1
                /\ \E order \in Ascending(listed) :
                      Begins(c, [i \in 1 .. Cardinality(listed) |->
                                   [reason |-> "count", supply |-> order[i], shelf |-> shelf,
                                    dest |-> NoShelf, crew |-> NoCrew, qty |-> found[order[i]]]])
    BY Zenon DEF recordCount
  <1>1. PICK listed \in SUBSET {s \in Supply : <<s, shelf>> \in Place} :
                /\ Cardinality(listed) > 1
                /\ \E order \in Ascending(listed) :
                      Begins(c, [i \in 1 .. Cardinality(listed) |->
                                   [reason |-> "count", supply |-> order[i], shelf |-> shelf,
                                    dest |-> NoShelf, crew |-> NoCrew, qty |-> found[order[i]]]])
    BY <1>0, Zenon
  <1>2. PICK order \in Ascending(listed) :
                      Begins(c, [i \in 1 .. Cardinality(listed) |->
                                   [reason |-> "count", supply |-> order[i], shelf |-> shelf,
                                    dest |-> NoShelf, crew |-> NoCrew, qty |-> found[order[i]]]])
    BY <1>1, Zenon
  <1> DEFINE n == Cardinality(listed)
             lines == [i \in 1 .. n |->
                          [reason |-> "count", supply |-> order[i], shelf |-> shelf,
                           dest |-> NoShelf, crew |-> NoCrew, qty |-> found[order[i]]]]
  <1>3. n \in Nat /\ n > 1
    <2>1. IsFiniteSet(Supply)
      <3> DEFINE f == [p \in Place |-> p[1]]
      <3>1. f \in Surjection(Place, Supply)
        BY DEF Surjection, Supply
      <3> QED
        BY <3>1, StockAssumption, FS_Surjection
    <2>2. IsFiniteSet(listed)
      BY <2>1, FS_Subset
    <2> QED
      BY <1>1, <2>2, FS_CardinalityType
  <1>4. ASSUME NEW i \in 1 .. n
        PROVE  /\ order[i] \in Supply /\ <<order[i], shelf>> \in Place
               /\ found[order[i]] \in Int
    <2>1. order[i] \in listed
      BY DEF Ascending
    <2> QED
      BY <2>1, StockAssumption
  <1>5. \A i, j \in 1 .. n : i < j => order[i] < order[j]
    BY DEF Ascending
  <1>6. shelf \in Shelf
    BY DEF StockInv, StockTypeOK
  <1> HIDE DEF n
  <1>7. ASSUME NEW i \in 1 .. n
        PROVE  Sensible(lines[i]) /\ lines[i].reason = "count" /\ lines[i].supply = order[i]
    <2>1. lines[i] = [reason |-> "count", supply |-> order[i], shelf |-> shelf,
                      dest |-> NoShelf, crew |-> NoCrew, qty |-> found[order[i]]]
      OBVIOUS
    <2> HIDE DEF lines
    <2> QED
      BY <1>4, <1>6, <2>1, PlaceParts DEF Sensible, Move, Spot, Reasons
  <1>8. lines \in Seq(Move) /\ Len(lines) = n
    <2>1. lines \in [1 .. n -> Move]
      BY <1>7 DEF Sensible
    <2> QED
      BY <1>3, <2>1
  <1> HIDE DEF lines
  <1>9. Listed(lines)
    <2>1. lines # <<>>
      BY <1>3, <1>8
    <2> QED
      BY <1>3, <1>5, <1>7, <1>8, <2>1 DEF Listed
  <1>10. Begins(c, lines)
    BY <1>2, Zenon DEF lines, n
  <1> QED
    BY <1>9, <1>10, BeginsSound

LEMMA LockLevelSound ==
    ASSUME StockInv, NEW c \in Clerk, lockLevel(c)
    PROVE  StockInv'
PROOF
  <1> DEFINE w == work[c]
             m == Of(w)
             p == Counted(m)
             u == Locked(w, p)
             plan == planMovement(m, level[p])
             v == Planned(u, plan)
  <1>1. /\ Sound(w) /\ Covered(w, level) /\ w.phase = "count"
        /\ level \in [Place -> Int]
    BY DEF StockInv, StockTypeOK, lockLevel
  <1>2. /\ Free(c, p) /\ work' = [work EXCEPT ![c] = v]
        /\ UNCHANGED <<shelves, crews, level, moved, outstanding>>
    BY DEF lockLevel, Current, Counted, Of
  <1>3. /\ w \in Work /\ Listed(w.lines) /\ Later(w) /\ Holding(w) /\ Counting(w)
    BY <1>1 DEF Sound
  <1>4. Sensible(m) /\ m.reason = "count" /\ m = w.lines[1] /\ p \in Place /\ Len(w.lines) \in Nat \ {0}
    BY <1>3, FirstLine DEF Counting, Sensible, Counted
  <1>5. /\ u \in Work /\ u.lines = w.lines /\ u.phase = w.phase /\ u.plan = w.plan
        /\ u.holds = w.holds \cup {p} /\ u.delta = w.delta /\ u.moved = w.moved
    BY <1>3, <1>4, LockedParts DEF Lock
  <1>6. level[p] \in Int /\ w.delta \in [Place -> Int]
    BY <1>1, <1>3, <1>4 DEF Work
  <1> HIDE DEF u, w
  <1>7. Of(u) = m
    BY <1>5 DEF Of
  <1>8. w.delta[p] = 0
    <2>1. p \notin w.holds
      BY <1>3, <1>4, PlaceParts DEF Counting, Before
    <2> QED
      BY <1>3, <1>4, <2>1 DEF Holding
  <1>9. Listed(u.lines) /\ Holding(u) /\ u.delta = u.moved
    BY <1>3, <1>5 DEF Holding, Counting
  <1>10. Later(u)
    <2> SUFFICES ASSUME NEW i \in 2 .. Len(w.lines)
                 PROVE  Before(p, Counted(w.lines[i]))
      BY <1>3, <1>5 DEF Later
    <2>1. m.supply < w.lines[i].supply
      BY <1>3, <1>4 DEF Listed
    <2> QED
      BY <2>1 DEF Before, Counted
  <1>11. \A lock \in u.holds : Before(lock, p) \/ (m.reason = "count" /\ lock = p)
    BY <1>3, <1>4, <1>5 DEF Counting
  <1> HIDE DEF m
  <1>12. Sound(v)
    <2> HIDE DEF p
    <2>1. /\ p \in u.holds /\ u.delta[p] = 0 /\ p = Counted(Of(u))
      BY <1>5, <1>7, <1>8 DEF p
    <2> QED
      BY <1>4, <1>5, <1>6, <1>7, <1>9, <1>10, <1>11, <2>1, PlannedSound
  <1>13. Covered(v, level) /\ Owed(v, outstanding, crews)
    <2>1. \A q \in Place : u.delta[q] >= 0 \/ level[q] + u.delta[q] >= 0
      BY <1>1, <1>4, <1>5 DEF Covered, m
    <2> QED
      BY <1>1, <1>5, <1>6, <1>7, <1>8, <1>9, <2>1, PlannedCovered
  <1>14. v.holds = w.holds \cup {p}
    <2>1. plan \in Plan
      BY <1>4, <1>6, PlansFit DEF Fits
    <2> QED
      BY <1>5, <2>1, PlannedParts
  <1> HIDE DEF v
  <1>15. \A d \in Clerk \ {c} : v.holds \cap work[d].holds = {}
    BY <1>2, <1>14 DEF StockInv, Disjoint, Free, w
  <1> QED
    BY <1>2, <1>12, <1>13, <1>15, UnseenStep

LEMMA LockBalanceSound ==
    ASSUME StockInv, NEW c \in Clerk, lockHolderBalance(c)
    PROVE  StockInv'
PROOF
  <1> DEFINE w == work[c]
             b == <<Of(w).supply, Of(w).crew>>
             v == [Locked(w, b) EXCEPT !.phase = "levels"]
  <1>1. /\ Sound(w) /\ Covered(w, level) /\ w.phase = "balance"
    BY DEF StockInv, lockHolderBalance
  <1>2. /\ Free(c, b) /\ work' = [work EXCEPT ![c] = v]
        /\ outstanding[b] + w.plan.holderDelta >= 0
        /\ UNCHANGED <<shelves, crews, level, moved, outstanding>>
    BY DEF lockHolderBalance, Current, Of
  <1>3. b \in Balance
    <2>1. Of(w).crew \in Crew /\ Sensible(Of(w))
      BY <1>1, FirstLine DEF Sound
    <2> QED
      BY <2>1 DEF Balance, Sensible, Move
  <1> HIDE DEF w, b
  <1>4. Sound(v) /\ Covered(v, level) /\ Owed(v, outstanding, crews) /\ v.holds = {b}
    BY <1>1, <1>2, <1>3, BalanceSound DEF b
  <1> HIDE DEF v
  <1>5. \A d \in Clerk \ {c} : v.holds \cap work[d].holds = {}
    BY <1>2, <1>4 DEF Free
  <1> QED
    BY <1>2, <1>4, <1>5, UnseenStep

LEMMA TakeLevelSound ==
    ASSUME StockInv, NEW c \in Clerk, TakeLevel(c)
    PROVE  StockInv'
PROOF
  <1> DEFINE w == work[c]
             ch == ToTake(w)
             p == Where(Of(w), ch[1])
             by == ch[1].by
             v == Drawn(w, p, by)
  <1>1. /\ Sound(w) /\ Covered(w, level) /\ Owed(w, outstanding, crews)
        /\ w.phase = "levels" /\ ch # <<>> /\ level \in [Place -> Int]
    BY DEF StockInv, StockTypeOK, TakeLevel, ToTake
  <1>2. Head(ch) = ch[1]
    <2>1. ch \in Seq(Change)
      BY <1>1 DEF Sound, Work, Plan, ToTake
    <2> QED
      BY <1>1, <2>1, HeadIsFirst
  <1>3. /\ Free(c, p) /\ work' = [work EXCEPT ![c] = v] /\ MayTake(c, p, by)
        /\ UNCHANGED <<shelves, crews, level, moved, outstanding>>
    <2>1. NextChange(c) = ch[1]
      BY <1>2 DEF NextChange, ToTake
    <2>2. <<Current(c).supply, NextChange(c).at>> = p /\ NextChange(c).by = by
      BY <2>1 DEF Current, Of, Where
    <2> HIDE DEF p, by, w, ch
    <2> QED
      BY <2>2, Zenon DEF TakeLevel, w
  <1>4. by > 0 \/ Of(w).reason = "adjust" \/ level[p] + by >= 0
    BY <1>3, Zenon DEF MayTake, Current, Of
  <1>5. /\ p \in Place /\ by \in Int /\ w.delta[p] = 0 /\ Sound(v)
        /\ Tail(ch) \in Seq(Change) /\ w \in Work
    <2>1. w \in Work
      BY <1>1 DEF Sound
    <2> HIDE DEF w
    <2> QED
      BY <1>1, <2>1, TakenSound
  <1>6. Covered(v, level)
    BY <1>1, <1>4, TakenCovered
  <1>7. /\ v.phase = w.phase /\ v.lines = w.lines /\ v.holds = w.holds \cup {p}
        /\ v.plan.holderDelta = w.plan.holderDelta
    BY <1>5, TakenParts
  <1> HIDE DEF v
  <1>8. Owed(v, outstanding, crews)
    BY <1>1, <1>7 DEF Owed, Of
  <1>9. \A d \in Clerk \ {c} : v.holds \cap work[d].holds = {}
    BY <1>3, <1>7 DEF StockInv, Disjoint, Free
  <1> QED
    BY <1>3, <1>5, <1>6, <1>8, <1>9, UnseenStep

LEMMA NextLineSound ==
    ASSUME StockInv, NEW c \in Clerk, NextLine(c)
    PROVE  StockInv'
PROOF
  <1> DEFINE w == work[c]
             v == [w EXCEPT !.phase = "count", !.lines = Tail(w.lines), !.plan = NoPlan,
                            !.moved = RowMoves(w)]
  <1>1. /\ Sound(w) /\ Covered(w, level) /\ w.phase = "levels" /\ ToTake(w) = <<>>
        /\ Len(w.lines) > 1
    BY DEF StockInv, NextLine, LevelsTaken, ToTake
  <1>2. work' = [work EXCEPT ![c] = v] /\ UNCHANGED <<shelves, crews, level, moved, outstanding>>
    BY DEF NextLine
  <1>3. Sound(v) /\ Covered(v, level) /\ v.holds = w.holds /\ Owed(v, outstanding, crews)
    BY <1>1, NextSound
  <1> HIDE DEF v
  <1>4. \A d \in Clerk \ {c} : v.holds \cap work[d].holds = {}
    BY <1>3 DEF StockInv, Disjoint
  <1> QED
    BY <1>2, <1>3, <1>4, UnseenStep

LEMMA RollbackSound ==
    ASSUME StockInv, NEW c \in Clerk, Rollback(c)
    PROVE  StockInv'
PROOF
  <1>1. work' = [work EXCEPT ![c] = NoWork] /\ UNCHANGED <<shelves, crews, level, moved, outstanding>>
    BY DEF Rollback
  <1>2. Sound(NoWork) /\ Covered(NoWork, level) /\ Owed(NoWork, outstanding, crews)
    BY NoWorkSound
  <1>3. \A d \in Clerk \ {c} : NoWork.holds \cap work[d].holds = {}
    BY NoWorkIsWork
  <1> QED
    BY <1>1, <1>2, <1>3, UnseenStep

LEMMA CommitSound ==
    ASSUME StockInv, NEW c \in Clerk, Commit(c)
    PROVE  StockInv'
PROOF
  <1> DEFINE w == work[c]
             m == Of(w)
             b0 == <<m.supply, m.crew>>
  <1>1. /\ Sound(w) /\ Covered(w, level) /\ Owed(w, outstanding, crews)
        /\ w.phase = "levels" /\ ToTake(w) = <<>> /\ Len(w.lines) = 1
        /\ m.crew \in crews \cup {NoCrew}
    BY DEF StockInv, Commit, LevelsTaken, Current, ToTake, Of
  <1>2. /\ level \in [Place -> Int] /\ moved = level /\ outstanding \in [Balance -> Int]
        /\ crews \subseteq Crew /\ shelves \subseteq Shelf /\ work \in [Clerk -> Work]
    BY DEF StockInv, StockTypeOK, LevelsAreMovements
  <1>3. RowMoves(w) = w.delta /\ w.delta \in [Place -> Int]
    BY <1>1, TakenAll DEF Sound, Work
  <1>4. /\ level' = Plus(level, w.delta) /\ moved' = Plus(moved, RowMoves(w))
        /\ work' = [work EXCEPT ![c] = NoWork]
        /\ UNCHANGED <<shelves, crews, asked>>
    BY DEF Commit
  <1>5. outstanding' = [b \in Balance |->
                          outstanding[b] + IF b = b0 THEN w.plan.holderDelta ELSE 0]
    BY DEF Commit, Current, Of
  <1>6. w \in Work /\ Listed(w.lines) /\ Holding(w) /\ w.plan.holderDelta \in Int
    BY <1>1 DEF Sound, Work, Plan
  <1>7. /\ level' \in [Place -> Int] /\ moved' = level'
        /\ \A p \in Place : level'[p] = level[p] + w.delta[p]
    BY <1>2, <1>3, <1>4 DEF Plus
  <1>8. /\ outstanding' \in [Balance -> Int]
        /\ \A b \in Balance : outstanding'[b] = outstanding[b] + IF b = b0 THEN w.plan.holderDelta ELSE 0
    BY <1>2, <1>5, <1>6
  <1>9. /\ work' \in [Clerk -> Work]
        /\ \A d \in Clerk : work'[d] = IF d = c THEN NoWork ELSE work[d]
    BY <1>2, <1>4, NoWorkIsWork
  <1> HIDE DEF w
  <1>10. StockTypeOK'
    <2>1. \A d \in Clerk : work'[d].phase \in Phase
      BY <1>9 DEF Work
    <2> QED
      BY <1>2, <1>4, <1>7, <1>8, <2>1 DEF StockTypeOK, Phase
  <1>11. ASSUME NEW d \in Clerk
         PROVE  /\ Sound(work'[d]) /\ Covered(work'[d], level') /\ Owed(work'[d], outstanding', crews')
    <2>1. CASE d = c
      BY <1>9, <2>1, NoWorkSound
    <2>2. CASE d # c
      <3> DEFINE o == work[d]
      <3>1. Sound(o) /\ Covered(o, level) /\ Owed(o, outstanding, crews)
        BY DEF StockInv
      <3>2. work'[d] = o /\ o.holds \cap w.holds = {}
        BY <1>9, <2>2 DEF StockInv, Disjoint, w
      <3>3. o \in Work /\ o.delta \in [Place -> Int] /\ o.plan.holderDelta \in Int
        BY <3>1 DEF Sound, Work, Plan
      <3> HIDE DEF o
      <3>4. ASSUME NEW p \in Place, p \in o.holds
            PROVE  level'[p] = level[p]
        <4>1. w.delta[p] = 0
          BY <1>6, <3>2, <3>4 DEF Holding
        <4>2. level'[p] = level[p] + 0 /\ level[p] \in Int
          BY <1>2, <1>7, <4>1
        <4> QED
          BY <4>2
      <3>5. Covered(o, level')
        <4>1. ASSUME o.phase # "idle", Of(o).reason # "adjust", NEW p \in Place
              PROVE  o.delta[p] >= 0 \/ level'[p] + o.delta[p] >= 0
          <5>1. CASE p \in o.holds
            <6>1. o.delta[p] >= 0 \/ level[p] + o.delta[p] >= 0
              BY <3>1, <4>1 DEF Covered
            <6> QED
              BY <3>4, <5>1, <6>1
          <5>2. CASE p \notin o.holds
            BY <3>1, <4>1, <5>2 DEF Sound, Holding
          <5> QED
            BY <5>1, <5>2
        <4>2. ASSUME o.phase = "levels", Of(o).reason = "count"
              PROVE  level'[Counted(Of(o))] + o.delta[Counted(Of(o))]
                       + Still(Of(o), ToTake(o), Counted(Of(o))) = Of(o).qty
          <5> DEFINE p == Counted(Of(o))
          <5>1. p \in o.holds /\ p \in Place
            BY <3>1, <3>3, <4>2, FirstLine DEF Sound, CountHeld, Sensible, Counted
          <5>2. level'[p] = level[p]
            BY <3>4, <5>1
          <5>3. level[p] + o.delta[p] + Still(Of(o), ToTake(o), p) = Of(o).qty
            BY <3>1, <4>2 DEF Covered
          <5> QED
            BY <5>2, <5>3
        <4> QED
          BY <4>1, <4>2 DEF Covered
      <3>6. Owed(o, outstanding', crews')
        <4> SUFFICES ASSUME o.phase = "levels", o.plan.holderDelta < 0
                     PROVE  LET b == <<Of(o).supply, Of(o).crew>>
                            IN /\ b \in o.holds
                               /\ Of(o).crew \in crews => outstanding'[b] + o.plan.holderDelta >= 0
          BY <1>4 DEF Owed
        <4> DEFINE b == <<Of(o).supply, Of(o).crew>>
        <4>1. b \in o.holds /\ (Of(o).crew \in crews => outstanding[b] + o.plan.holderDelta >= 0)
          BY <3>1 DEF Owed
        <4>2. b \in Balance
          <5>1. Of(o).crew \in Crew /\ Sensible(Of(o))
            BY <3>1, <3>3, FirstLine DEF Sound
          <5> QED
            BY <5>1 DEF Balance, Sensible, Move
        <4> HIDE DEF b
        <4>3. ASSUME Of(o).crew \in crews
              PROVE  outstanding'[b] + o.plan.holderDelta >= 0
          <5>1. CASE b = b0 /\ w.plan.holderDelta < 0
            <6>1. b0 \in w.holds
              BY <1>1, <5>1 DEF Owed
            <6> QED
              BY <3>2, <4>1, <5>1, <6>1
          <5>2. CASE b # b0 \/ w.plan.holderDelta >= 0
            <6>1. outstanding'[b] >= outstanding[b] /\ outstanding[b] \in Int /\ outstanding'[b] \in Int
              BY <1>2, <1>6, <1>8, <4>2, <5>2
            <6> QED
              BY <3>3, <4>1, <4>3, <6>1
          <5> QED
            BY <1>6, <5>1, <5>2
        <4> QED
          BY <4>1, <4>3 DEF b
      <3> QED
        BY <3>1, <3>2, <3>5, <3>6
    <2> QED
      BY <2>1, <2>2
  <1>12. Disjoint'
    BY <1>9, NoWorkIsWork DEF StockInv, Disjoint
  <1>13. LevelsAreMovements'
    BY <1>7 DEF LevelsAreMovements
  <1>14. NothingOwedTwice'
    <2> SUFFICES ASSUME NEW b \in Balance
                 PROVE  outstanding'[b] >= 0
      BY DEF NothingOwedTwice
    <2>1. outstanding[b] >= 0 /\ outstanding[b] \in Int
      BY <1>2 DEF StockInv, NothingOwedTwice
    <2>2. CASE b = b0 /\ w.plan.holderDelta < 0
      <3>1. m.crew \in crews
        BY <1>1, <1>2, <2>2, StockAssumption DEF Balance
      <3>2. outstanding[b] + w.plan.holderDelta >= 0
        BY <1>1, <2>2, <3>1 DEF Owed
      <3> QED
        BY <1>8, <2>2, <3>2
    <2>3. CASE b # b0 \/ w.plan.holderDelta >= 0
      BY <1>6, <1>8, <2>1, <2>3
    <2> QED
      BY <1>6, <2>2, <2>3
  <1> QED
    BY <1>9, <1>10, <1>11, <1>12, <1>13, <1>14 DEF StockInv

LEMMA DeleteLocationSound ==
    ASSUME StockInv, NEW shelf \in Shelf, deleteLocation(shelf)
    PROVE  StockInv'
PROOF
  <1>1. /\ shelves' = shelves \ {shelf} /\ UNCHANGED <<crews, outstanding, work>>
        /\ level' = [p \in Place |-> IF p[2] = shelf THEN 0 ELSE level[p]]
        /\ moved' = [p \in Place |-> IF p[2] = shelf THEN 0 ELSE moved[p]]
        /\ \A s \in Supply, c \in Clerk : <<s, shelf>> \notin work[c].holds
    BY DEF deleteLocation
  <1>2. /\ level \in [Place -> Int] /\ moved = level /\ StockTypeOK
    BY DEF StockInv, StockTypeOK, LevelsAreMovements
  <1>3. level' \in [Place -> Int] /\ moved' = level'
    BY <1>1, <1>2
  <1>4. StockTypeOK'
    BY <1>1, <1>2, <1>3 DEF StockTypeOK
  <1>5. ASSUME NEW d \in Clerk
        PROVE  Covered(work'[d], level')
    <2> DEFINE o == work[d]
    <2>1. Sound(o) /\ Covered(o, level)
      BY DEF StockInv
    <2>2. o \in Work /\ o.delta \in [Place -> Int]
      BY <2>1 DEF Sound, Work
    <2>3. ASSUME NEW p \in Place, p \in o.holds
          PROVE  level'[p] = level[p]
      <3>1. p[2] # shelf
        BY <1>1, <2>3, PlaceParts
      <3> QED
        BY <1>1, <3>1
    <2>4. work'[d] = o
      BY <1>1
    <2> HIDE DEF o
    <2>5. ASSUME o.phase # "idle", Of(o).reason # "adjust", NEW p \in Place
          PROVE  o.delta[p] >= 0 \/ level'[p] + o.delta[p] >= 0
      <3>1. CASE p \in o.holds
        <4>1. o.delta[p] >= 0 \/ level[p] + o.delta[p] >= 0
          BY <2>1, <2>5 DEF Covered
        <4> QED
          BY <2>3, <3>1, <4>1
      <3>2. CASE p \notin o.holds
        BY <2>1, <2>5, <3>2 DEF Sound, Holding
      <3> QED
        BY <3>1, <3>2
    <2>6. ASSUME o.phase = "levels", Of(o).reason = "count"
          PROVE  level'[Counted(Of(o))] + o.delta[Counted(Of(o))]
                   + Still(Of(o), ToTake(o), Counted(Of(o))) = Of(o).qty
      <3> DEFINE p == Counted(Of(o))
      <3>1. p \in o.holds /\ p \in Place
        BY <2>1, <2>2, <2>6, FirstLine DEF Sound, CountHeld, Sensible, Counted
      <3>2. level'[p] = level[p]
        BY <2>3, <3>1
      <3>3. level[p] + o.delta[p] + Still(Of(o), ToTake(o), p) = Of(o).qty
        BY <2>1, <2>6 DEF Covered
      <3> QED
        BY <3>2, <3>3
    <2> QED
      BY <2>4, <2>5, <2>6 DEF Covered
  <1>6. \A d \in Clerk : Sound(work'[d]) /\ Owed(work'[d], outstanding', crews')
    BY <1>1 DEF StockInv
  <1>7. Disjoint' /\ NothingOwedTwice' /\ LevelsAreMovements' /\ work' \in [Clerk -> Work]
    BY <1>1, <1>3 DEF StockInv, Disjoint, NothingOwedTwice, LevelsAreMovements
  <1> QED
    BY <1>4, <1>5, <1>6, <1>7 DEF StockInv

LEMMA DeleteEntitySound ==
    ASSUME StockInv, NEW crew \in Crew, deleteEntity(crew)
    PROVE  StockInv'
PROOF
  <1>1. /\ crews' = crews \ {crew} /\ UNCHANGED <<shelves, level, moved, work>>
        /\ outstanding' = [b \in Balance |-> IF b[2] = crew THEN 0 ELSE outstanding[b]]
    BY DEF deleteEntity
  <1>2. StockTypeOK /\ outstanding \in [Balance -> Int]
    BY DEF StockInv, StockTypeOK
  <1>3. StockTypeOK'
    BY <1>1, <1>2 DEF StockTypeOK
  <1>4. ASSUME NEW d \in Clerk
        PROVE  Owed(work'[d], outstanding', crews')
    <2> DEFINE o == work[d]
               b == <<Of(o).supply, Of(o).crew>>
    <2>1. Sound(o) /\ Owed(o, outstanding, crews)
      BY DEF StockInv
    <2>2. work'[d] = o
      BY <1>1
    <2> HIDE DEF o
    <2> SUFFICES ASSUME o.phase = "levels", o.plan.holderDelta < 0
                 PROVE  /\ b \in o.holds
                        /\ Of(o).crew \in crews' => outstanding'[b] + o.plan.holderDelta >= 0
      BY <2>2 DEF Owed
    <2>3. b \in o.holds /\ (Of(o).crew \in crews => outstanding[b] + o.plan.holderDelta >= 0)
      BY <2>1 DEF Owed
    <2>4. b \in Balance
      <3>1. o \in Work /\ Listed(o.lines) /\ (o.plan.holderDelta # 0 => Of(o).crew \in Crew)
        BY <2>1 DEF Sound
      <3>2. Sensible(Of(o)) /\ o.plan.holderDelta \in Int
        BY <3>1, FirstLine DEF Work, Plan
      <3> QED
        BY <3>1, <3>2 DEF Balance, Sensible, Move
    <2>5. ASSUME Of(o).crew \in crews'
          PROVE  outstanding'[b] + o.plan.holderDelta >= 0
      <3>1. Of(o).crew \in crews /\ b[2] # crew
        BY <1>1, <2>5
      <3>2. outstanding'[b] = outstanding[b]
        BY <1>1, <2>4, <3>1
      <3> QED
        BY <2>3, <3>1, <3>2
    <2> QED
      BY <2>3, <2>5
  <1>5. \A d \in Clerk : Sound(work'[d]) /\ Covered(work'[d], level')
    BY <1>1 DEF StockInv
  <1>6. Disjoint' /\ LevelsAreMovements' /\ work' \in [Clerk -> Work]
    BY <1>1 DEF StockInv, Disjoint, LevelsAreMovements
  <1>7. NothingOwedTwice'
    BY <1>1 DEF StockInv, NothingOwedTwice
  <1> QED
    BY <1>3, <1>4, <1>5, <1>6, <1>7 DEF StockInv

LEMMA StockStep == StockInv /\ [StockNext]_stockVars => StockInv'
PROOF
  <1> SUFFICES ASSUME StockInv, [StockNext]_stockVars PROVE StockInv'
    OBVIOUS
  <1>1. ASSUME NEW c \in Clerk,
               \/ recordMovement(c) \/ recordCount(c)
               \/ lockLevel(c) \/ lockHolderBalance(c) \/ TakeLevel(c) \/ NextLine(c)
               \/ Commit(c) \/ Rollback(c)
        PROVE  StockInv'
    BY <1>1, RecordMovementSound, RecordCountSound, LockLevelSound, LockBalanceSound,
       TakeLevelSound, NextLineSound, CommitSound, RollbackSound
  <1>2. ASSUME NEW shelf \in Shelf, deleteLocation(shelf) PROVE StockInv'
    BY <1>2, DeleteLocationSound
  <1>3. ASSUME NEW crew \in Crew, deleteEntity(crew) PROVE StockInv'
    BY <1>3, DeleteEntitySound
  <1>4. ASSUME UNCHANGED stockVars PROVE StockInv'
    BY <1>4 DEF stockVars, StockInv, StockTypeOK, Disjoint, LevelsAreMovements, NothingOwedTwice
  <1> QED
    BY <1>1, <1>2, <1>3, <1>4 DEF StockNext

(* The inductive invariant: by itself each transaction is sound, covers what it took and
   owes nothing it did not lock (stock.ts, applyPlan() and recordCount()). *)
THEOREM StockInvariant == StockSpec => []StockInv
PROOF
  <1>1. StockInit => StockInv
    BY InitHolds
  <1>2. StockInv /\ [StockNext]_stockVars => StockInv'
    BY StockStep
  <1> QED
    BY <1>1, <1>2, PTL DEF StockSpec

-----------------------------------------------------------------------------
(* What follows from it *)

LEMMA CountsFit == StockInv => CountFits
PROOF
  <1> SUFFICES ASSUME StockInv, NEW c \in Clerk, LevelsTaken(c), Current(c).reason = "count"
               PROVE  LET p == <<Current(c).supply, Current(c).shelf>>
                      IN level[p] + work[c].delta[p] = Current(c).qty
    BY DEF CountFits
  <1> DEFINE w == work[c]
             m == Of(w)
             p == Counted(m)
  <1>1. /\ Sound(w) /\ Covered(w, level) /\ w.phase = "levels" /\ ToTake(w) = <<>>
        /\ m.reason = "count" /\ level \in [Place -> Int]
    BY DEF StockInv, StockTypeOK, LevelsTaken, ToTake, Current, Of
  <1>2. Still(m, ToTake(w), p) = 0
    BY <1>1, EmptySeq DEF Still
  <1>3. level[p] + w.delta[p] + Still(m, ToTake(w), p) = m.qty
    BY <1>1 DEF Covered
  <1>4. p \in Place /\ w.delta \in [Place -> Int]
    BY <1>1, FirstLine DEF Sound, Sensible, Counted, Work
  <1>5. level[p] \in Int /\ w.delta[p] \in Int
    BY <1>1, <1>4
  <1>6. level[p] + w.delta[p] = m.qty
    BY <1>2, <1>3, <1>5
  <1> QED
    BY <1>6 DEF Counted, Current, Of

(* One lock comes before another: balances first, then the levels in their order. *)
Lower(lock, next) ==
    /\ next \in Place
    /\ Before(lock, next)

LEMMA LowerIsAnOrder ==
    /\ \A l, n, o : Lower(l, n) /\ Lower(n, o) => Lower(l, o)
    /\ \A l : ~Lower(l, l)
PROOF
  <1>1. ASSUME NEW l, NEW n, NEW o, Lower(l, n), Lower(n, o)
        PROVE  Lower(l, o)
    <2>1. n \in Place /\ o \in Place /\ n[1] \in Nat /\ n[2] \in Nat /\ o[1] \in Nat /\ o[2] \in Nat
      BY <1>1, PlaceParts DEF Lower
    <2>2. CASE l \notin Place
      BY <2>1, <2>2 DEF Lower, Before
    <2>3. CASE l \in Place
      <3>1. l[1] \in Nat /\ l[2] \in Nat
        BY <2>3, PlaceParts
      <3> QED
        BY <1>1, <2>1, <2>3, <3>1 DEF Lower, Before
    <2> QED
      BY <2>2, <2>3
  <1>2. ASSUME NEW l PROVE ~Lower(l, l)
    BY PlaceParts DEF Lower, Before
  <1> QED
    BY <1>1, <1>2

(* What a transaction waits for is of a later kind than all it holds. *)
LEMMA WaitsUpward ==
    ASSUME StockInv, NEW c \in Clerk, NEW d \in Clerk, c # d,
           NEW n \in Needs(c), n \in work[d].holds
    PROVE  Needs(c) = {n} /\ \A lock \in work[c].holds : Lower(lock, n)
PROOF
  <1> DEFINE w == work[c]
             m == Of(w)
  <1>1. Sound(w) /\ w \in Work
    BY DEF StockInv, Sound
  <1>2. n \notin w.holds
    BY DEF StockInv, Disjoint
  <1>3. CASE w.phase = "count"
    <2>1. Needs(c) = {Counted(m)}
      BY <1>3 DEF Needs, Counted, Current, Of
    <2>2. Sensible(m) /\ Counting(w)
      BY <1>1, <1>3, FirstLine DEF Sound
    <2>3. Counted(m) \in Place
      BY <2>2 DEF Sensible, Counting, Counted
    <2> QED
      BY <2>1, <2>2, <2>3 DEF Counting, Lower
  <1>4. CASE w.phase = "balance"
    <2>1. Needs(c) = {<<m.supply, m.crew>>} /\ w.holds = {}
      BY <1>1, <1>4 DEF Needs, Current, Of, Sound
    <2> QED
      BY <2>1
  <1>5. CASE w.phase = "levels" /\ ~LevelsTaken(c)
    <2> DEFINE ch == ToTake(w)
    <2>1. ch # <<>> /\ ch \in Seq(Change) /\ Unfinished(w)
      BY <1>1, <1>5 DEF LevelsTaken, ToTake, Sound, Work, Plan
    <2>2. Head(ch) = ch[1] /\ 1 \in 1 .. Len(ch)
      BY <2>1, HeadIsFirst
    <2>3. Needs(c) = {Where(m, ch[1])}
      <3>1. Needs(c) = {<<Current(c).supply, NextChange(c).at>>}
        BY <1>5 DEF Needs
      <3>2. NextChange(c) = ch[1] /\ Current(c) = m
        BY <2>2 DEF NextChange, ToTake, Current, Of
      <3> QED
        BY <3>1, <3>2 DEF Where
    <2> HIDE DEF ch
    <2>4. /\ Where(m, ch[1]) \in Place
          /\ \A lock \in w.holds : Before(lock, Where(m, ch[1])) \/ lock = Where(m, ch[1])
      BY <2>1, <2>2 DEF Unfinished, ch
    <2> QED
      BY <1>2, <2>3, <2>4 DEF Lower
  <1>6. CASE w.phase \notin {"count", "balance", "levels"} \/ LevelsTaken(c)
    <2>1. Needs(c) = {}
      BY <1>6 DEF Needs, LevelsTaken
    <2> QED
      BY <2>1
  <1> QED
    BY <1>3, <1>4, <1>5, <1>6

(* Among those who wait for each other, one would wait for the highest lock of all. *)
LEMMA NobodyStandsOff == StockInv => NoStandoff
PROOF
  <1> SUFFICES ASSUME StockInv, NEW S \in SUBSET Clerk, S # {},
                      \A c \in S : \E d \in S \ {c} : Needs(c) \cap work[d].holds # {}
               PROVE  FALSE
    BY DEF NoStandoff
  <1> DEFINE Beyond(c) == {x \in S : \E m \in Needs(c), n \in Needs(x) : Lower(m, n)}
             All == {Beyond(c) : c \in S}
  <1>1. All \subseteq FiniteSubsetsOf(Clerk) /\ All # {}
    <2>1. ASSUME NEW c \in S
          PROVE  Beyond(c) \in FiniteSubsetsOf(Clerk)
      <3>1. Beyond(c) \in SUBSET Clerk
        OBVIOUS
      <3>2. IsFiniteSet(Beyond(c))
        BY <3>1, StockAssumption, FS_Subset
      <3> QED
        BY <3>1, <3>2 DEF FiniteSubsetsOf
    <2>2. \A c \in S : Beyond(c) \in FiniteSubsetsOf(Clerk)
      BY <2>1
    <2> HIDE DEF Beyond
    <2> QED
      BY <2>2
  <1>2. PICK T \in All : \A U \in All : <<U, T>> \notin StrictSubsetOrdering(Clerk)
    <2>1. IsWellFoundedOn(StrictSubsetOrdering(Clerk), FiniteSubsetsOf(Clerk))
      BY FS_StrictSubsetOrderingWellFounded
    <2> HIDE DEF All
    <2> QED
      BY <1>1, <2>1, WFMin
  <1>3. PICK c \in S : T = Beyond(c)
    BY <1>2
  <1>4. PICK d \in S \ {c} : Needs(c) \cap work[d].holds # {}
    OBVIOUS
  <1>5. PICK n : n \in Needs(c) /\ n \in work[d].holds
    BY <1>4
  <1>6. PICK e \in S \ {d} : Needs(d) \cap work[e].holds # {}
    OBVIOUS
  <1>7. PICK o : o \in Needs(d) /\ o \in work[e].holds
    BY <1>6
  <1>8. Needs(c) = {n} /\ Needs(d) = {o} /\ Lower(n, o)
    BY <1>5, <1>7, WaitsUpward
  <1>9. Beyond(d) \subseteq Beyond(c)
    BY <1>8, LowerIsAnOrder
  <1>10. d \in Beyond(c) /\ d \notin Beyond(d)
    BY <1>8, LowerIsAnOrder
  <1>11. Beyond(d) \in All /\ Beyond(d) \in SUBSET Clerk /\ Beyond(c) \in SUBSET Clerk
    OBVIOUS
  <1> HIDE DEF Beyond, All
  <1>12. <<Beyond(d), T>> \in StrictSubsetOrdering(Clerk)
    BY <1>3, <1>9, <1>10, <1>11 DEF StrictSubsetOrdering
  <1> QED
    BY <1>2, <1>11, <1>12

(* stock.ts, throughout: levels are what their movements say, nobody owes less than nothing,
   a count sets what was found, and no transactions wait for one another: for any number of
   clerks, crews, supplies and shelves. *)
THEOREM StockStaysSound == StockSpec => []StockSound
PROOF
  <1>1. StockInv => StockSound
    BY CountsFit, NobodyStandsOff DEF StockInv, StockSound
  <1> QED
    BY <1>1, StockInvariant, PTL

(* ledger.ts:57: nothing but an adjustment takes a level below zero. *)
THEOREM OnlyAdjustmentsOverdraw == StockSpec => NeverOverdrawn
PROOF
  <1> DEFINE Stayed == \A p \in Place :
                        level'[p] < level[p] /\ level'[p] < 0
                        => \E c \in Clerk : work'[c] # work[c] /\ Current(c).reason = "adjust"
  <1>1. ASSUME StockInv, [StockNext]_stockVars
        PROVE  [Stayed]_stockVars
    <2> SUFFICES ASSUME StockNext, NEW p \in Place, level'[p] < level[p], level'[p] < 0
                 PROVE  \E c \in Clerk : work'[c] # work[c] /\ Current(c).reason = "adjust"
      BY <1>1 DEF stockVars
    <2>0. level \in [Place -> Int] /\ level[p] \in Int
      BY <1>1 DEF StockInv, StockTypeOK
    <2>1. level' # level
      BY <2>0
    <2>2. ASSUME NEW c \in Clerk, Commit(c)
          PROVE  work'[c] # work[c] /\ Current(c).reason = "adjust"
      <3> DEFINE w == work[c]
      <3>1. /\ Sound(w) /\ Covered(w, level) /\ w.phase = "levels"
            /\ work' = [work EXCEPT ![c] = NoWork] /\ level' = Plus(level, w.delta)
            /\ work \in [Clerk -> Work]
        BY <1>1, <2>2 DEF StockInv, Commit, LevelsTaken
      <3>2. work'[c] # work[c]
        BY <3>1, NoWorkIsWork
      <3>3. w.delta \in [Place -> Int] /\ level'[p] = level[p] + w.delta[p]
        BY <3>1 DEF Sound, Work, Plus
      <3>4. Of(w).reason = "adjust"
        BY <2>0, <3>1, <3>3 DEF Covered
      <3> QED
        BY <3>2, <3>4 DEF Current, Of
    <2>3. ASSUME NEW shelf \in Shelf, deleteLocation(shelf)
          PROVE  FALSE
      BY <2>0, <2>3 DEF deleteLocation
    <2>4. ASSUME NEW c \in Clerk,
                 \/ recordMovement(c) \/ recordCount(c) \/ lockLevel(c) \/ lockHolderBalance(c)
                 \/ TakeLevel(c) \/ NextLine(c) \/ Rollback(c)
          PROVE  level' = level
      <3>1. \A lines : Begins(c, lines) => level' = level
        BY DEF Begins
      <3>2. recordMovement(c) => level' = level
        BY <3>1, Zenon DEF recordMovement
      <3>3. recordCount(c) => level' = level
        BY <3>1, Zenon DEF recordCount
      <3> QED
        BY <2>4, <3>2, <3>3, Zenon DEF lockLevel, lockHolderBalance, TakeLevel, NextLine, Rollback
    <2>5. ASSUME NEW crew \in Crew, deleteEntity(crew)
          PROVE  level' = level
      BY <2>5 DEF deleteEntity
    <2> QED
      BY <2>1, <2>2, <2>3, <2>4, <2>5 DEF StockNext
  <1> QED
    BY <1>1, StockInvariant, PTL DEF StockSpec, NeverOverdrawn

-----------------------------------------------------------------------------
Who == {"nobody", "lead", "admin"}
ShiftRow == [job : Job \cup {NoJob}, in : Int, out : Int, fixed : BOOLEAN, red : BOOLEAN, by : Who]
Step == {"idle", "judge", "start", "load", "close", "correct"}
DeskRow == [at : Step, job : Job \cup {NoJob}, of : Nat, by : Who, red : BOOLEAN,
          move : BOOLEAN, in : Int, out : Int]

(* decideGate, for someone whose credentials do not meet the policy *)
Cleared(job, by) == job \notin Strict \/ by = "admin" \/ (by = "lead" /\ job \notin AdminOnly)

CrewTypeOK ==
    /\ now \in Nat \ {0}
    /\ shift \in Seq(ShiftRow)
    /\ desk \in [Desk -> DeskRow]

(* What a desk goes by, whatever was done to the shift since. *)
Grounded(r) ==
    /\ r.at \in {"load", "close", "correct"} => r.of \in Shift
    /\ r.at = "judge" => r.of \in Shift \cup {0} /\ r.out = Kept
    /\ r.at = "load" => r.out \in {Kept} \cup Time
    /\ r.at = "close" => r.out \in Time
    /\ r.red => Cleared(r.job, r.by)

DesksGrounded == \A d \in Desk : Grounded(desk[d])

(* A time of the door is never further ahead than may be. *)
OutsKnown == \A s \in Shift : ~shift[s].fixed => shift[s].out <= now + Ahead

CrewInv == CrewTypeOK /\ DesksGrounded /\ OutsKnown /\ HoursCountOnce /\ DoorHolds

-----------------------------------------------------------------------------
(* Helpers *)

(* A row added at the end leaves the others where they are. *)
LEMMA RowAdded ==
    ASSUME CrewTypeOK, NEW r \in ShiftRow, shift' = Append(shift, r)
    PROVE  /\ shift' \in Seq(ShiftRow)
           /\ Shift' = Shift \cup {Len(shift) + 1}
           /\ Len(shift) + 1 \notin Shift
           /\ \A t \in Shift : t < Len(shift) + 1
           /\ shift'[Len(shift) + 1] = r
           /\ \A t \in Shift : shift'[t] = shift[t]
  <1>1. /\ Len(shift) \in Nat /\ Shift = 1 .. Len(shift)
    BY LenProperties DEF CrewTypeOK, Shift
  <1>2. /\ shift' \in Seq(ShiftRow) /\ Len(shift') = Len(shift) + 1
        /\ \A t \in 1 .. Len(shift) : shift'[t] = shift[t]
        /\ shift'[Len(shift) + 1] = r
    BY <1>1, AppendProperties DEF CrewTypeOK
  <1>3. Shift' = 1 .. Len(shift')
    BY <1>2, LenProperties DEF Shift
  <1> QED
    BY <1>1, <1>2, <1>3

(* A row that is rewritten stays a row, and the others are as they were. *)
LEMMA RowChanged ==
    ASSUME CrewTypeOK, NEW s \in Shift, NEW r \in ShiftRow, shift' = [shift EXCEPT ![s] = r]
    PROVE  /\ shift' \in Seq(ShiftRow) /\ Shift' = Shift
           /\ shift'[s] = r
           /\ \A t \in Shift \ {s} : shift'[t] = shift[t]
  <1>1. /\ Len(shift) \in Nat /\ Shift = 1 .. Len(shift)
    BY LenProperties DEF CrewTypeOK, Shift
  <1>2. /\ shift' \in Seq(ShiftRow) /\ Len(shift') = Len(shift)
        /\ \A t \in 1 .. Len(shift) : shift'[t] = IF t = s THEN r ELSE shift[t]
    BY <1>1, ExceptSeq DEF CrewTypeOK
  <1>3. Shift' = 1 .. Len(shift')
    BY <1>2, LenProperties DEF Shift
  <1> QED
    BY <1>1, <1>2, <1>3

LEMMA RowTypes ==
    ASSUME CrewTypeOK, NEW s \in Shift
    PROVE  shift[s] \in ShiftRow /\ s \in Nat /\ s # 0
  BY LenProperties, ElementOfSeq DEF CrewTypeOK, Shift

LEMMA LaterIsMore ==
    ASSUME NEW a \in Nat, NEW m \in Nat, NEW n \in Nat, m <= n
    PROVE  1 .. m + a \subseteq 1 .. n + a
  OBVIOUS

(* What a desk goes by is not lost when the shifts grow and the clock moves. *)
LEMMA GroundStays ==
    ASSUME CrewTypeOK, NEW r, Grounded(r), Shift \subseteq Shift', now' \in Nat, now <= now'
    PROVE  Grounded(r)'
  <1>1. Time \subseteq Time'
    <2>1. now \in Nat /\ Ahead \in Nat
      BY CrewAssumption DEF CrewTypeOK
    <2> QED
      BY <2>1, LaterIsMore DEF Time
  <1> QED
    BY <1>1 DEF Grounded

(* One desk goes on, and the rows stay. *)
LEMMA DeskGoesOn ==
    ASSUME CrewInv, NEW d \in Desk, NEW r \in DeskRow, Grounded(r),
           desk' = [desk EXCEPT ![d] = r], UNCHANGED <<shift, now>>
    PROVE  CrewInv'
  <1>1. Shift' = Shift /\ Time' = Time
    BY DEF Shift, Time
  <1>2. CrewTypeOK'
    BY DEF CrewInv, CrewTypeOK
  <1>3. DesksGrounded'
    BY <1>1 DEF CrewInv, CrewTypeOK, DesksGrounded, Grounded
  <1>4. OutsKnown' /\ HoursCountOnce' /\ DoorHolds'
    BY <1>1 DEF CrewInv, OutsKnown, HoursCountOnce, DoorHolds, IsOpen
  <1> QED
    BY <1>2, <1>3, <1>4 DEF CrewInv

LEMMA IdleAsked == Idle \in DeskRow /\ Grounded(Idle)
  BY DEF Idle, DeskRow, Step, Who, Kept, Grounded

(* The rows change, and a desk rests or goes on. *)
LEMMA DesksStayGrounded ==
    ASSUME CrewInv, NEW d \in Desk, NEW r \in DeskRow, Grounded(r)',
           desk' = [desk EXCEPT ![d] = r], UNCHANGED now, Shift \subseteq Shift'
    PROVE  desk' \in [Desk -> DeskRow] /\ DesksGrounded'
  <1>1. desk' \in [Desk -> DeskRow]
    BY DEF CrewInv, CrewTypeOK
  <1>2. ASSUME NEW e \in Desk PROVE Grounded(desk[e])'
    <2>1. CASE e = d
      BY <2>1 DEF CrewInv, CrewTypeOK
    <2>2. CASE e # d
      <3>1. desk'[e] = desk[e] /\ Grounded(desk[e])
        BY <2>2 DEF CrewInv, CrewTypeOK, DesksGrounded
      <3>2. Shift \subseteq Shift' /\ Time' = Time
        BY DEF Time
      <3> QED
        BY <3>1, <3>2 DEF Grounded
    <2> QED
      BY <2>1, <2>2
  <1> QED
    BY <1>1, <1>2 DEF DesksGrounded

-----------------------------------------------------------------------------
(* Init and the steps *)

LEMMA CrewInitInv == CrewInit => CrewInv
  <1> SUFFICES ASSUME CrewInit PROVE CrewInv
    OBVIOUS
  <1>1. now = 1 /\ desk = [d \in Desk |-> Idle]
    BY DEF CrewInit
  <1>2. DesksGrounded /\ desk \in [Desk -> DeskRow]
    BY <1>1, IdleAsked DEF DesksGrounded
  <1>3. CASE shift = <<>>
    <2>1. Shift = {} /\ shift \in Seq(ShiftRow)
      BY <1>3 DEF Shift
    <2> QED
      BY <1>1, <1>2, <2>1 DEF CrewInv, CrewTypeOK, OutsKnown, HoursCountOnce, DoorHolds
  <1>4. ASSUME NEW j \in Job, shift = <<NewShift(j, FALSE, "nobody")>>
        PROVE  CrewInv
    <2>1. NewShift(j, FALSE, "nobody") \in ShiftRow
      BY <1>1 DEF NewShift, ShiftRow, Who, OnClock
    <2>2. shift \in Seq(ShiftRow) /\ Shift = {1} /\ shift[1] = NewShift(j, FALSE, "nobody")
      <3> DEFINE row == NewShift(j, FALSE, "nobody")
      <3> HIDE DEF row
      <3>1. shift = <<row>> /\ row \in ShiftRow
        BY <1>4, <2>1 DEF row
      <3>2. shift \in Seq(ShiftRow) /\ Len(shift) = 1 /\ shift[1] = row
        BY <3>1
      <3>3. Shift = 1 .. 1
        BY <3>2, LenProperties DEF Shift
      <3> QED
        BY <3>2, <3>3 DEF row
    <2>3. OutsKnown
      BY <1>1, <2>2, CrewAssumption DEF OutsKnown, NewShift, OnClock
    <2> QED
      BY <1>1, <1>2, <2>2, <2>3 DEF CrewInv, CrewTypeOK, HoursCountOnce, DoorHolds, NewShift
  <1> QED
    BY <1>3, <1>4 DEF CrewInit

(* The clock and the world: rows and desks stay. *)
LEMMA WorldStep ==
    ASSUME CrewInv, Tick \/ Changes
    PROVE  CrewInv'
  <1>1. UNCHANGED <<shift, desk>> /\ now' \in Nat \ {0} /\ now <= now'
    BY DEF Tick, Changes, CrewInv, CrewTypeOK
  <1>2. Shift' = Shift
    BY <1>1 DEF Shift
  <1>3. CrewTypeOK'
    BY <1>1 DEF CrewInv, CrewTypeOK
  <1>4. DesksGrounded'
    BY <1>1, <1>2, GroundStays DEF CrewInv, DesksGrounded
  <1>5. OutsKnown'
    <2> SUFFICES ASSUME NEW s \in Shift, ~shift[s].fixed PROVE shift[s].out <= now' + Ahead
      BY <1>1, <1>2 DEF OutsKnown
    <2>1. shift[s].out \in Int /\ shift[s].out <= now + Ahead
      BY RowTypes DEF CrewInv, OutsKnown, ShiftRow
    <2> QED
      BY <1>1, <2>1, CrewAssumption DEF CrewInv, CrewTypeOK
  <1>6. HoursCountOnce' /\ DoorHolds'
    BY <1>1, <1>2 DEF CrewInv, HoursCountOnce, DoorHolds, IsOpen
  <1> QED
    BY <1>3, <1>4, <1>5, <1>6 DEF CrewInv

LEMMA RestStep ==
    ASSUME CrewInv, NEW d \in Desk, Rests(d), UNCHANGED <<shift, now>>
    PROVE  CrewInv'
  BY IdleAsked, DeskGoesOn DEF Rests

LEMMA AsksStep ==
    ASSUME CrewInv, NEW d \in Desk, asksCheckIn(d) \/ asksCheckOut(d) \/ asksCorrection(d)
    PROVE  CrewInv'
  <1>0. UNCHANGED <<shift, now>>
    BY DEF asksCheckIn, asksCheckOut, asksCorrection, World
  <1>1. CASE asksCheckIn(d)
    <2>1. PICK j \in Job, by \in Who :
            desk' = [desk EXCEPT ![d] = [Idle EXCEPT !.at = "judge", !.job = j, !.by = by,
                !.of = IF openCheckinOf = {} THEN 0 ELSE CHOOSE s \in openCheckinOf : TRUE]]
      BY <1>1 DEF asksCheckIn, Who
    <2> DEFINE of == IF openCheckinOf = {} THEN 0 ELSE CHOOSE s \in openCheckinOf : TRUE
               r == [Idle EXCEPT !.at = "judge", !.job = j, !.by = by, !.of = of]
    <2>2. of \in Shift \cup {0} /\ of \in Nat
      BY RowTypes DEF openCheckinOf, CrewInv
    <2>3. r \in DeskRow /\ Grounded(r)
      <3> HIDE DEF of
      <3>1. r \in DeskRow
        BY <2>2, IdleAsked DEF Idle, DeskRow, Step, Who, Kept
      <3>2. r.at = "judge" /\ r.of = of /\ r.red = FALSE /\ r.out = Kept
        BY DEF Idle
      <3> QED
        BY <2>2, <3>1, <3>2 DEF Grounded
    <2>4. desk' = [desk EXCEPT ![d] = r]
      BY <2>1
    <2> HIDE DEF r
    <2> QED
      BY <1>0, <2>3, <2>4, DeskGoesOn
  <1>2. CASE asksCheckOut(d)
    <2>1. PICK s \in openCheckinOf, out \in {Kept} \cup Time :
            desk' = [desk EXCEPT ![d] = [Idle EXCEPT !.at = "load", !.of = s, !.out = out]]
      BY <1>2 DEF asksCheckOut
    <2> DEFINE r == [Idle EXCEPT !.at = "load", !.of = s, !.out = out]
    <2>2. s \in Shift /\ s \in Nat /\ out \in Int
      BY RowTypes, CrewAssumption DEF openCheckinOf, CrewInv, Time, Kept, CrewTypeOK
    <2>3. r \in DeskRow /\ r.at = "load" /\ r.of = s /\ r.out = out /\ r.red = FALSE
      BY <2>2, IdleAsked DEF Idle, DeskRow, Step, Who, Kept
    <2>4. Grounded(r)
      BY <2>2, <2>3 DEF Grounded
    <2> HIDE DEF r
    <2> QED
      BY <1>0, <2>1, <2>3, <2>4, DeskGoesOn DEF r
  <1>3. CASE asksCorrection(d)
    <2>1. PICK s \in Shift, in \in {Kept} \cup Time, out \in {Kept, OnClock} \cup Time :
            desk' = [desk EXCEPT ![d] = [Idle EXCEPT !.at = "correct", !.of = s,
                                                     !.in = in, !.out = out]]
      BY <1>3 DEF asksCorrection
    <2> DEFINE r == [Idle EXCEPT !.at = "correct", !.of = s, !.in = in, !.out = out]
    <2>2. s \in Shift /\ s \in Nat /\ in \in Int /\ out \in Int
      BY RowTypes, CrewAssumption DEF CrewInv, Time, Kept, OnClock, CrewTypeOK
    <2>3. r \in DeskRow /\ r.at = "correct" /\ r.of = s /\ r.red = FALSE
      BY <2>2, IdleAsked DEF Idle, DeskRow, Step, Who, Kept
    <2>4. Grounded(r)
      BY <2>2, <2>3 DEF Grounded
    <2> HIDE DEF r
    <2> QED
      BY <1>0, <2>1, <2>3, <2>4, DeskGoesOn DEF r
  <1> QED
    BY <1>1, <1>2, <1>3

LEMMA JudgeStep ==
    ASSUME CrewInv, NEW d \in Desk, judge(d)
    PROVE  CrewInv'
  <1> DEFINE of == desk[d].of
             cleared == [desk[d] EXCEPT !.red = ~fit, !.move = of # 0,
                                        !.at = IF of = 0 THEN "start" ELSE "load"]
  <1>0. UNCHANGED <<shift, now>> /\ desk[d] \in DeskRow /\ Grounded(desk[d]) /\ desk[d].at = "judge"
    BY DEF judge, World, CrewInv, CrewTypeOK, DesksGrounded
  <1>1. CASE ~decideGate(~fit, desk[d].job, desk[d].by)
    BY <1>0, <1>1, RestStep DEF judge, Rests
  <1>2. CASE decideGate(~fit, desk[d].job, desk[d].by)
    <2>1. desk' = [desk EXCEPT ![d] = cleared]
      BY <1>2 DEF judge, CrewInv, CrewTypeOK
    <2>2. cleared \in DeskRow
      BY <1>0 DEF DeskRow, Step
    <2>3. /\ cleared.red = ~fit /\ cleared.job = desk[d].job /\ cleared.by = desk[d].by
          /\ cleared.of = of /\ cleared.at = IF of = 0 THEN "start" ELSE "load"
          /\ cleared.out = desk[d].out
      BY <1>0 DEF DeskRow
    <2>4. cleared.red => Cleared(cleared.job, cleared.by)
      BY <1>2, <2>3 DEF Cleared, decideGate
    <2>5. Grounded(cleared)
      BY <1>0, <2>3, <2>4 DEF Grounded
    <2> HIDE DEF cleared
    <2> QED
      BY <1>0, <2>1, <2>2, <2>5, DeskGoesOn
  <1> QED
    BY <1>1, <1>2

LEMMA LoadStep ==
    ASSUME CrewInv, NEW d \in Desk, loadCheckin(d)
    PROVE  CrewInv'
  <1> DEFINE s == desk[d].of
             out == IF desk[d].out = Kept THEN now ELSE desk[d].out
             closing == [desk[d] EXCEPT !.at = "close", !.out = out]
  <1>0. /\ UNCHANGED <<shift, now>> /\ desk[d] \in DeskRow /\ Grounded(desk[d])
        /\ desk[d].at = "load"
    BY DEF loadCheckin, World, CrewInv, CrewTypeOK, DesksGrounded
  <1>1. out \in Time /\ out \in Int
    BY <1>0, CrewAssumption DEF Grounded, CrewInv, CrewTypeOK, Time
  <1>2. CASE IsOpen(s) /\ TimesInOrder(shift[s].in, out)
    <2>1. desk' = [desk EXCEPT ![d] = closing]
      BY <1>2 DEF loadCheckin, CrewInv, CrewTypeOK
    <2>2. closing \in DeskRow /\ closing.at = "close" /\ closing.of = s /\ closing.out = out
      BY <1>0, <1>1 DEF DeskRow, Step
    <2>3. closing.red = desk[d].red /\ closing.job = desk[d].job /\ closing.by = desk[d].by
      BY <1>0 DEF DeskRow
    <2>4. Grounded(closing)
      BY <1>0, <1>1, <2>2, <2>3 DEF Grounded
    <2> HIDE DEF closing
    <2> QED
      BY <1>0, <2>1, <2>2, <2>4, DeskGoesOn
  <1>3. CASE ~(IsOpen(s) /\ TimesInOrder(shift[s].in, out))
    BY <1>0, <1>3, RestStep DEF loadCheckin, Rests
  <1> QED
    BY <1>2, <1>3

-----------------------------------------------------------------------------
(* The steps that write *)

(* A shift begins where no other is open: it is the last, and nobody is out later than
   it begins by more than may be. *)
LEMMA CheckInStep ==
    ASSUME CrewInv, NEW d \in Desk, checkIn(d)
    PROVE  CrewInv'
  <1> DEFINE r == NewShift(desk[d].job, desk[d].red, desk[d].by)
  <1>0. /\ UNCHANGED now /\ Rests(d) /\ desk[d] \in DeskRow /\ Grounded(desk[d])
        /\ now \in Nat \ {0} /\ CrewTypeOK
    BY DEF checkIn, World, CrewInv, CrewTypeOK, DesksGrounded
  <1>1. CASE Taken(0)
    BY <1>0, <1>1, RestStep DEF checkIn
  <1>2. CASE ~Taken(0)
    <2> DEFINE n == Len(shift) + 1
    <2>1. /\ r \in ShiftRow /\ r.in = now /\ r.out = OnClock /\ ~r.fixed
          /\ r.red = desk[d].red /\ r.job = desk[d].job /\ r.by = desk[d].by
      BY <1>0 DEF NewShift, ShiftRow, DeskRow, OnClock
    <2> HIDE DEF r
    <2>2. shift' = Append(shift, r)
      BY <1>2 DEF checkIn, r
    <2>3. /\ shift' \in Seq(ShiftRow) /\ Shift' = Shift \cup {n} /\ n \notin Shift
          /\ \A t \in Shift : t < n /\ shift'[t] = shift[t]
          /\ shift'[n] = r
      BY <1>0, <2>1, <2>2, RowAdded
    <2>4. n \in Nat /\ \A s \in Shift : s \in Nat /\ s # 0 /\ shift[s] \in ShiftRow
      BY <1>0, RowTypes, LenProperties DEF CrewTypeOK
    <2> HIDE DEF n
    <2>5. desk' \in [Desk -> DeskRow] /\ DesksGrounded'
      <3>1. Grounded(Idle)' /\ Idle \in DeskRow
        BY IdleAsked DEF Grounded, Idle
      <3> QED
        BY <1>0, <2>3, <3>1, DesksStayGrounded DEF Rests
    <2>6. CrewTypeOK'
      BY <1>0, <2>3, <2>5 DEF CrewTypeOK
    <2>7. \A s \in Shift : ~IsOpen(s) /\ IsOpen(s)' = IsOpen(s)
      <3>1. \A s \in Shift : ~IsOpen(s)
        BY <1>2, <2>4 DEF Taken
      <3> QED
        BY <2>3, <3>1 DEF IsOpen
    <2>8. OutsKnown'
      <3> SUFFICES ASSUME NEW s \in Shift', ~shift'[s].fixed PROVE shift'[s].out <= now + Ahead
        BY <1>0 DEF OutsKnown
      <3>1. CASE s = n
        BY <1>0, <2>1, <2>3, <3>1, CrewAssumption DEF OnClock
      <3>2. CASE s # n
        BY <1>0, <2>3, <3>2 DEF CrewInv, OutsKnown
      <3> QED
        BY <3>1, <3>2
    <2>9. HoursCountOnce'
      <3> SUFFICES ASSUME NEW s \in Shift', NEW t \in Shift', s < t,
                          shift'[s].job # NoJob, shift'[t].job # NoJob
                   PROVE  /\ ~(IsOpen(s)' /\ IsOpen(t)')
                          /\ ~shift'[s].fixed /\ ~shift'[t].fixed =>
                                ~IsOpen(s)' /\ shift'[s].out <= shift'[t].in + Ahead
        BY DEF HoursCountOnce, IsOpen
      <3>1. s \in Shift /\ ~IsOpen(s)'
        BY <2>3, <2>4, <2>7
      <3>2. CASE t = n
        BY <1>0, <2>1, <2>3, <3>1, <3>2 DEF CrewInv, OutsKnown
      <3>3. CASE t # n
        BY <2>3, <3>1, <3>3 DEF CrewInv, HoursCountOnce
      <3> QED
        BY <3>1, <3>2, <3>3
    <2>10. DoorHolds'
      BY <1>0, <2>1, <2>3 DEF CrewInv, DoorHolds, Grounded, Cleared
    <2> QED
      BY <2>6, <2>5, <2>8, <2>9, <2>10 DEF CrewInv
  <1> QED
    BY <1>1, <1>2

(* A shift that is rewritten keeps the others apart, if what is not corrected keeps its
   start and ends by now and Ahead, and only a shift that was open, or is the only one
   open, may be open. *)
LEMMA RewriteStep ==
    ASSUME CrewInv, NEW d \in Desk, NEW s \in Shift, NEW r \in ShiftRow, NEW a \in DeskRow,
           shift' = [shift EXCEPT ![s] = r], desk' = [desk EXCEPT ![d] = a],
           Grounded(a), UNCHANGED now,
           r.red = shift[s].red, r.by = shift[s].by, r.job \in {shift[s].job, NoJob},
           r.job # NoJob /\ ~r.fixed =>
               /\ ~shift[s].fixed /\ r.in = shift[s].in
               /\ r.out = shift[s].out \/ (IsOpen(s) /\ r.out # OnClock),
           r.out <= now + Ahead \/ r.fixed,
           r.job # NoJob /\ r.out = OnClock => IsOpen(s) \/ ~Taken(s)
    PROVE  CrewInv'
  <1>0. CrewTypeOK /\ now \in Nat
    BY DEF CrewInv, CrewTypeOK
  <1>1. /\ shift' \in Seq(ShiftRow) /\ Shift' = Shift /\ shift'[s] = r
        /\ \A t \in Shift \ {s} : shift'[t] = shift[t]
    BY <1>0, RowChanged
  <1>2. \A t \in Shift : t \in Nat /\ shift[t] \in ShiftRow
    BY <1>0, RowTypes
  <1>3. Grounded(a)'
    BY <1>1 DEF Grounded, Time
  <1>4. CrewTypeOK' /\ DesksGrounded'
    BY <1>0, <1>1, <1>3, DesksStayGrounded DEF CrewTypeOK
  <1>5. OutsKnown'
    <2> SUFFICES ASSUME NEW t \in Shift, ~shift'[t].fixed PROVE shift'[t].out <= now + Ahead
      BY <1>1 DEF OutsKnown
    <2> QED
      BY <1>1 DEF CrewInv, OutsKnown
  <1>6. \A t \in Shift \ {s} : IsOpen(t)' = IsOpen(t)
    BY <1>1 DEF IsOpen
  <1>7. IsOpen(s)' => \A t \in Shift \ {s} : ~IsOpen(t)
    <2> SUFFICES ASSUME IsOpen(s)', NEW t \in Shift \ {s} PROVE ~IsOpen(t)
      OBVIOUS
    <2>1. CASE ~Taken(s)
      BY <2>1 DEF Taken
    <2>2. CASE IsOpen(s)
      <3>1. s < t \/ t < s
        BY <1>2
      <3> QED
        BY <2>2, <3>1 DEF CrewInv, HoursCountOnce, IsOpen
    <2> QED
      BY <1>1, <2>1, <2>2 DEF IsOpen
  <1>8. HoursCountOnce'
    <2> SUFFICES ASSUME NEW t \in Shift, NEW u \in Shift, t < u,
                        shift'[t].job # NoJob, shift'[u].job # NoJob
                 PROVE  /\ ~(IsOpen(t)' /\ IsOpen(u)')
                        /\ ~shift'[t].fixed /\ ~shift'[u].fixed =>
                              ~IsOpen(t)' /\ shift'[t].out <= shift'[u].in + Ahead
      BY <1>1 DEF HoursCountOnce, IsOpen
    <2>0. /\ shift[t].job # NoJob /\ shift[u].job # NoJob /\ t # u
          /\ ~shift[t].fixed /\ ~shift[u].fixed =>
                ~IsOpen(t) /\ shift[t].out <= shift[u].in + Ahead
          /\ ~(IsOpen(t) /\ IsOpen(u))
      BY <1>1, <1>2 DEF CrewInv, HoursCountOnce
    <2>1. ~(IsOpen(t)' /\ IsOpen(u)')
      BY <1>6, <1>7, <2>0
    <2>2. ASSUME ~shift'[t].fixed, ~shift'[u].fixed
          PROVE  ~IsOpen(t)' /\ shift'[t].out <= shift'[u].in + Ahead
      <3>1. ~shift[t].fixed /\ ~shift[u].fixed /\ shift'[u].in = shift[u].in
        BY <1>1, <2>0, <2>2
      <3>2. ~IsOpen(t) /\ shift'[t].out = shift[t].out
        BY <1>1, <2>0, <2>2, <3>1
      <3> QED
        BY <2>0, <3>1, <3>2, <1>1 DEF IsOpen
    <2> QED
      BY <2>1, <2>2
  <1>9. DoorHolds'
    BY <1>1, CrewAssumption DEF CrewInv, DoorHolds
  <1> QED
    BY <1>4, <1>5, <1>8, <1>9 DEF CrewInv

LEMMA CheckOutStep ==
    ASSUME CrewInv, NEW d \in Desk, checkOut(d)
    PROVE  CrewInv'
  <1> DEFINE s == desk[d].of
  <1>0. /\ UNCHANGED now /\ desk[d] \in DeskRow /\ Grounded(desk[d]) /\ desk[d].at = "close"
        /\ s \in Shift /\ desk[d].out \in Time /\ desk[d].out \in Int /\ CrewTypeOK
        /\ shift[s] \in ShiftRow
    BY RowTypes DEF checkOut, World, CrewInv, CrewTypeOK, DesksGrounded, Grounded, DeskRow
  <1>1. CASE StillOpen(s) /\ TimesInOrder(shift[s].in, desk[d].out)
    <2> DEFINE r == [shift[s] EXCEPT !.out = desk[d].out]
               a == IF desk[d].move THEN [desk[d] EXCEPT !.at = "start"] ELSE Idle
    <2>1. shift' = [shift EXCEPT ![s] = r]
      BY <1>0, <1>1 DEF checkOut, CrewTypeOK
    <2>2. desk' = [desk EXCEPT ![d] = a]
      BY <1>0, <1>1 DEF checkOut, CrewTypeOK
    <2>3. /\ r \in ShiftRow /\ r.job = shift[s].job /\ r.in = shift[s].in /\ r.out = desk[d].out
          /\ r.fixed = shift[s].fixed /\ r.red = shift[s].red /\ r.by = shift[s].by
      BY <1>0 DEF ShiftRow
    <2>4. a \in DeskRow /\ Grounded(a)
      <3>1. CASE desk[d].move
        <4>1. a \in DeskRow /\ a.at = "start" /\ a.red = desk[d].red /\ a.job = desk[d].job
              /\ a.by = desk[d].by
          BY <1>0, <3>1 DEF DeskRow, Step
        <4> QED
          BY <1>0, <4>1 DEF Grounded
      <3> QED
        BY <3>1, IdleAsked
    <2>5. r.out # OnClock /\ r.out <= now + Ahead
      BY <1>0, <2>3, CrewAssumption DEF Time, OnClock, CrewTypeOK
    <2>6. IsOpen(s)
      BY <1>1 DEF StillOpen
    <2> HIDE DEF r, a
    <2> QED
      BY <1>0, <2>1, <2>2, <2>3, <2>4, <2>5, <2>6, RewriteStep
  <1>2. CASE ~(StillOpen(s) /\ TimesInOrder(shift[s].in, desk[d].out))
    BY <1>0, <1>2, RestStep DEF checkOut
  <1> QED
    BY <1>1, <1>2

LEMMA CorrectStep ==
    ASSUME CrewInv, NEW d \in Desk, updateCheckin(d)
    PROVE  CrewInv'
  <1> DEFINE s == desk[d].of
             in == IF desk[d].in = Kept THEN shift[s].in ELSE desk[d].in
             out == IF desk[d].out = Kept THEN shift[s].out ELSE desk[d].out
  <1>0. /\ UNCHANGED now /\ desk[d] \in DeskRow /\ Rests(d) /\ CrewTypeOK
        /\ s \in Shift /\ shift[s] \in ShiftRow /\ in \in Int /\ out \in Int
    <2>1. s \in Shift /\ desk[d] \in DeskRow /\ CrewTypeOK
      BY DEF updateCheckin, CrewInv, CrewTypeOK, DesksGrounded, Grounded
    <2>2. shift[s] \in ShiftRow
      BY <2>1, RowTypes
    <2> QED
      BY <2>1, <2>2 DEF updateCheckin, World, DeskRow, ShiftRow
  <1>1. CASE shift[s].job # NoJob /\ TimesInOrder(in, out) /\ ~(out = OnClock /\ Taken(s))
    <2> DEFINE r == [shift[s] EXCEPT !.in = in, !.out = out, !.fixed = TRUE]
    <2>1. shift' = [shift EXCEPT ![s] = r]
      BY <1>0, <1>1 DEF updateCheckin, CrewTypeOK
    <2>2. /\ r \in ShiftRow /\ r.job = shift[s].job /\ r.fixed /\ r.out = out
          /\ r.red = shift[s].red /\ r.by = shift[s].by
      BY <1>0 DEF ShiftRow
    <2> HIDE DEF r
    <2> QED
      BY <1>0, <1>1, <2>1, <2>2, IdleAsked, RewriteStep DEF Rests
  <1>2. CASE ~(shift[s].job # NoJob /\ TimesInOrder(in, out) /\ ~(out = OnClock /\ Taken(s)))
    BY <1>0, <1>2, RestStep DEF updateCheckin
  <1> QED
    BY <1>1, <1>2

LEMMA DeleteStep ==
    ASSUME CrewInv, NEW d \in Desk, deleteCheckin(d)
    PROVE  CrewInv'
  <1>1. PICK s \in Shift : shift' = [shift EXCEPT ![s].job = NoJob]
    BY DEF deleteCheckin
  <1> DEFINE r == [shift[s] EXCEPT !.job = NoJob]
  <1>0. /\ UNCHANGED <<now, desk>> /\ CrewTypeOK /\ shift[s] \in ShiftRow
        /\ desk[d] \in DeskRow /\ Grounded(desk[d])
    BY RowTypes DEF deleteCheckin, World, CrewInv, CrewTypeOK, DesksGrounded
  <1>2. shift' = [shift EXCEPT ![s] = r] /\ desk' = [desk EXCEPT ![d] = desk[d]]
    BY <1>0, <1>1 DEF CrewTypeOK
  <1>3. /\ r \in ShiftRow /\ r.job = NoJob /\ r.fixed = shift[s].fixed /\ r.out = shift[s].out
        /\ r.red = shift[s].red /\ r.by = shift[s].by
    BY <1>0 DEF ShiftRow
  <1>4. r.out <= now + Ahead \/ r.fixed
    BY <1>3 DEF CrewInv, OutsKnown
  <1> HIDE DEF r
  <1> QED
    BY <1>0, <1>2, <1>3, <1>4, RewriteStep

-----------------------------------------------------------------------------
(* Theorems *)

LEMMA CrewStep == CrewInv /\ [CrewNext]_crewVars => CrewInv'
  <1> SUFFICES ASSUME CrewInv, [CrewNext]_crewVars PROVE CrewInv'
    OBVIOUS
  <1>1. CASE Tick \/ Changes
    BY <1>1, WorldStep
  <1>2. ASSUME NEW d \in Desk,
               \/ asksCheckIn(d) \/ judge(d) \/ checkIn(d)
               \/ asksCheckOut(d) \/ loadCheckin(d) \/ checkOut(d)
               \/ asksCorrection(d) \/ updateCheckin(d) \/ deleteCheckin(d) \/ ServerStops(d)
        PROVE  CrewInv'
    <2>1. CASE ServerStops(d)
      BY <2>1, RestStep DEF ServerStops, World
    <2> QED
      BY <1>2, <2>1, AsksStep, JudgeStep, LoadStep, CheckInStep, CheckOutStep, CorrectStep,
         DeleteStep
  <1>3. CASE UNCHANGED crewVars
    <2>1. UNCHANGED <<shift, desk, now>>
      BY <1>3 DEF crewVars
    <2>2. CrewTypeOK' /\ OutsKnown' /\ HoursCountOnce' /\ DoorHolds' /\ Shift' = Shift
      BY <2>1 DEF CrewInv, CrewTypeOK, OutsKnown, HoursCountOnce, DoorHolds, Shift, IsOpen
    <2>3. DesksGrounded'
      BY <2>1, <2>2 DEF CrewInv, DesksGrounded, Grounded, Time
    <2> QED
      BY <2>2, <2>3 DEF CrewInv
  <1> QED
    BY <1>1, <1>2, <1>3 DEF CrewNext

(* Nobody who was checked out is, later, out at another time, but by the timesheet. *)
LEMMA OutStaysStep == CrewInv /\ [CrewNext]_crewVars => OutStands
  <1> SUFFICES ASSUME CrewInv, [CrewNext]_crewVars, NEW s \in Shift,
                      shift[s].out # OnClock, shift'[s].out # shift[s].out
               PROVE  \E d \in Desk : desk[d].at = "correct" /\ desk[d].of = s /\ desk'[d] = Idle
    BY DEF OutStands
  <1>0. CrewTypeOK
    BY DEF CrewInv
  <1>1. shift' # shift
    OBVIOUS
  <1>2. PICK d \in Desk : checkIn(d) \/ checkOut(d) \/ updateCheckin(d) \/ deleteCheckin(d)
    BY <1>1 DEF CrewNext, crewVars, Tick, Changes, asksCheckIn, judge, asksCheckOut,
                loadCheckin, asksCorrection, ServerStops
  <1>3. CASE checkIn(d)
    <2> DEFINE r == NewShift(desk[d].job, desk[d].red, desk[d].by)
    <2>1. r \in ShiftRow
      BY <1>0 DEF NewShift, ShiftRow, OnClock, CrewTypeOK, DeskRow
    <2>2. shift' = Append(shift, r)
      BY <1>1, <1>3 DEF checkIn
    <2> HIDE DEF r
    <2> QED
      BY <1>0, <2>1, <2>2, RowAdded
  <1>4. CASE checkOut(d)
    <2> DEFINE t == desk[d].of
    <2>1. IsOpen(t) /\ shift' = [shift EXCEPT ![t].out = desk[d].out]
      BY <1>1, <1>4 DEF checkOut, StillOpen
    <2>2. s # t
      BY <2>1 DEF IsOpen
    <2> QED
      BY <1>0, <2>1, <2>2 DEF CrewTypeOK, Shift
  <1>5. CASE deleteCheckin(d)
    <2>1. PICK t \in Shift : shift' = [shift EXCEPT ![t].job = NoJob]
      BY <1>5 DEF deleteCheckin
    <2>2. shift'[s].out = shift[s].out
      <3>1. shift[s] \in ShiftRow
        BY <1>0, RowTypes
      <3> QED
        BY <2>1, <3>1 DEF Shift, ShiftRow
    <2> QED
      BY <2>2
  <1>6. CASE updateCheckin(d)
    <2>1. desk[d].at = "correct" /\ desk'[d] = Idle
      BY <1>0, <1>6 DEF updateCheckin, Rests, CrewTypeOK
    <2>2. desk[d].of = s
      BY <1>1, <1>6 DEF updateCheckin, Shift
    <2> QED
      BY <2>1, <2>2
  <1> QED
    BY <1>2, <1>3, <1>4, <1>5, <1>6

(* checkins.ts, 0039_crew.sql: however many desks scan, move, check out, correct and
   delete at once, the types and what the desks go by are kept. *)
THEOREM CrewInvariant == CrewSpec => []CrewInv
  BY CrewInitInv, CrewStep, PTL DEF CrewSpec

(* The hours of a worker stay true, whatever crosses: no two shifts are open, those that
   nobody corrected do not overlap beyond what a check-out may lie ahead, the door's
   verdict holds, and whoever is out stays out at that time. *)
THEOREM HoursStayTrue == CrewSpec => ShiftsSound
  <1>1. CrewInv => HoursCountOnce /\ DoorHolds
    BY DEF CrewInv
  <1>2. CrewInv /\ CrewInv' /\ [CrewNext]_crewVars => HoursCountOnce' /\ DoorHolds' /\ OutStands
    BY <1>1, OutStaysStep, CrewStep DEF CrewInv
  <1> QED
    BY <1>2, CrewInvariant, PTL DEF CrewSpec, ShiftsSound

-----------------------------------------------------------------------------
(* The anomalies of a problem, and the runs of its rule. *)
States == {"none", "open", "fixed", "dismissed", "cleared"}
Causes == {"none", "not_found", "rule_disabled"}
Anomaly == [state : States, quiet : BOOLEAN, from : Nat, first : Nat, at : Nat,
            occurrences : Nat, why : Causes]
RunOfRules == [pc : {"idle", "started", "gathered", "loaded"}, on : BOOLEAN, ran : BOOLEAN,
               found : BOOLEAN, at : Nat, prev : Nat, was : Anomaly, calm : BOOLEAN]

OpsType ==
    /\ sticky \in BOOLEAN /\ there \in BOOLEAN /\ ruleOn \in BOOLEAN /\ caughtUp \in BOOLEAN
    /\ times \in SUBSET (1 .. MaxTimes)
    /\ anomalies \in Seq(Anomaly)
    /\ opsRun \in [Engine -> RunOfRules]

(* A row was made and renewed at times the problem had, follows the row before it, and
   only the last may be open or quiet. *)
RowSound(i, row) ==
    /\ row.state # "none"
    /\ row.first \in times /\ row.at \in times
    /\ row.from = i - 1
    /\ row.quiet => row.state = "dismissed" /\ ~sticky
    /\ row.quiet \/ row.state = "open" => i = Len(anomalies)
    /\ row.state # "cleared" => row.why = "none"

RowsSound == \A i \in 1 .. Len(anomalies) : RowSound(i, anomalies[i])

(* A condition that is there began at some time. *)
Reported == IF sticky THEN ~there ELSE there => times # {}

(* The lock on the engine. *)
OneRun == \A e, f \in Engine : opsRun[e].pc # "idle" /\ opsRun[f].pc # "idle" => e = f

(* An anomaly that was over is not found again until it came back *)
Over(row) == (row.state = "dismissed" /\ ~row.quiet) \/ row.why = "not_found"

IsOver == ~sticky => \A i \in 1 .. Len(anomalies) :
            Over(anomalies[i]) /\ there => anomalies[i].at < Newest

(* What a run gathered was so when it did: a condition it found is newer than each row
   that was over by then, and one it did not find came back since if it is there. *)
Facts(r) ==
    /\ r.ran => r.on
    /\ r.pc = "started" => ~r.ran
    /\ r.found => r.ran /\ r.at \in times
    /\ ~sticky /\ r.found =>
         \A i \in 1 .. Len(anomalies) : Over(anomalies[i]) => anomalies[i].at < r.at
    /\ ~sticky /\ r.ran /\ ~r.found /\ there =>
         \A i \in 1 .. Len(anomalies) : anomalies[i].at < Newest

(* What a run loaded is the row yet, but that somebody may have closed it since; and the
   row before the one it is about to insert is the last. *)
Stale(was, row) == was = row \/ (was.state = "open" /\ row.state # "open")
Knows(r) ==
    /\ r.prev \in 0 .. Len(anomalies)
    /\ r.found => r.prev = Len(anomalies)
    /\ r.was.quiet => r.was.state # "open"
    /\ IF r.prev = 0 THEN r.was = NoAnomaly ELSE Stale(r.was, anomalies[r.prev])

(* What a run nothing crossed has seen is so. *)
Calm(r) ==
    /\ r.on = ruleOn
    /\ r.ran /\ ~sticky => r.found = there
    /\ r.found => r.at = Newest
    /\ r.pc = "loaded" =>
         /\ r.was = Row(r.prev)
         /\ LastRow.state = "open" \/ LastRow.quiet => r.prev = Len(anomalies)

(* Each run knows what it must where it is. *)
RunsSound ==
    \A e \in Engine :
      /\ opsRun[e].pc # "idle" => Facts(opsRun[e])
      /\ opsRun[e].pc = "loaded" => Knows(opsRun[e])
      /\ opsRun[e].pc # "idle" /\ opsRun[e].calm => Calm(opsRun[e])

(* The events of a row are newer than those of the row before it, and no more than there
   were up to the last row. *)
Apart == sticky => \A i \in 1 .. Len(anomalies) - 1 : anomalies[i].at < anomalies[i + 1].first

UpTo(t) == {x \in times : x <= t}
Counts == sticky => SumOver(Occurrences, DOMAIN anomalies) <= Cardinality(UpTo(LastRow.at))

(* The inductive invariant of the anomalies. *)
AnomalyInv ==
    /\ OpsType /\ RowsSound /\ Reported /\ OneRun /\ IsOver /\ RunsSound
    /\ ReportedOnce /\ Apart /\ Counts /\ CatchesUp

(* The largest of some times and zero. *)
LEMMA NewestIs ==
    ASSUME NEW T \in SUBSET (1 .. MaxTimes)
    PROVE  /\ Max(T \cup {0}) \in Nat
           /\ \A t \in T : t <= Max(T \cup {0})
           /\ T # {} => Max(T \cup {0}) \in T
           /\ IsFiniteSet(T)
  <1>1. IsFiniteSet(T)
    <2>1. IsFiniteSet(1 .. MaxTimes)
      BY AnomalyAssumption, FS_Interval
    <2>2. PICK all : all = 1 .. MaxTimes
      OBVIOUS
    <2>3. IsFiniteSet(all) /\ T \subseteq all
      BY <2>1, <2>2
    <2> QED
      BY ONLY <2>3, FS_Subset
  <1>2. PICK S : S = T \cup {0}
    OBVIOUS
  <1>3. IsFiniteSet(S) /\ S \in SUBSET Int /\ S # {}
    BY <1>1, <1>2, FS_AddElement
  <1>4. Max(S) \in S /\ \A x \in S : Max(S) >= x
    BY ONLY <1>3, MaxIsLargest
  <1>5. PICK m \in S : m = Max(S) /\ \A x \in S : m >= x
    BY <1>4
  <1>6. \A t \in T : t \in Nat /\ t > 0 /\ t \in S
    BY <1>2
  <1>7. m \in Nat
    BY <1>2, <1>6
  <1>8. \A t \in T : t <= m
    BY <1>5, <1>6, <1>7
  <1>9. ASSUME NEW t \in T PROVE m \in T
    <2>1. m # 0
      BY <1>6, <1>8
    <2> QED
      BY <1>2, <2>1
  <1> QED
    BY <1>1, <1>2, <1>5, <1>7, <1>8, <1>9

(* The newest time is the largest there is. *)
LEMMA NewestStays == OpsType => /\ Newest \in Nat
                                /\ \A t \in times : t \in Nat /\ t <= Newest
                                /\ times # {} => Newest \in times
  BY NewestIs DEF OpsType, Newest

(* Something crosses the runs under way, and they know no better. *)
LEMMA CrossesIs ==
    ASSUME OpsType, Crosses
    PROVE  /\ opsRun' \in [Engine -> RunOfRules]
           /\ caughtUp' = FALSE
           /\ \A e \in Engine :
                /\ opsRun[e] \in RunOfRules
                /\ opsRun'[e] = [opsRun[e] EXCEPT !.calm = FALSE]
                /\ opsRun'[e].pc = opsRun[e].pc
                /\ opsRun'[e].on = opsRun[e].on
                /\ opsRun'[e].ran = opsRun[e].ran
                /\ opsRun'[e].found = opsRun[e].found
                /\ opsRun'[e].at = opsRun[e].at
                /\ opsRun'[e].prev = opsRun[e].prev
                /\ opsRun'[e].was = opsRun[e].was
                /\ opsRun'[e].calm = FALSE
  <1>1. \A e \in Engine : opsRun[e] \in RunOfRules
    BY DEF OpsType
  <1>2. \A r \in RunOfRules : [r EXCEPT !.calm = FALSE] \in RunOfRules
    BY DEF RunOfRules
  <1>3. \A e \in Engine : opsRun'[e] = [opsRun[e] EXCEPT !.calm = FALSE]
    BY DEF Crosses
  <1>4. opsRun' \in [Engine -> RunOfRules]
    BY <1>1, <1>2 DEF Crosses
  <1>5. \A r \in RunOfRules : LET c == [r EXCEPT !.calm = FALSE] IN
          /\ c.pc = r.pc /\ c.on = r.on /\ c.ran = r.ran /\ c.found = r.found
          /\ c.at = r.at /\ c.prev = r.prev /\ c.was = r.was /\ c.calm = FALSE
    BY DEF RunOfRules
  <1> QED
    BY <1>1, <1>3, <1>4, <1>5 DEF Crosses

(* What the last row is. *)
LEMMA LastRowIs ==
    ASSUME OpsType
    PROVE  /\ Len(anomalies) \in Nat
           /\ \A i \in 1 .. Len(anomalies) : anomalies[i] \in Anomaly
           /\ DOMAIN anomalies = 1 .. Len(anomalies)
           /\ Len(anomalies) = 0 => LastRow = NoAnomaly
           /\ Len(anomalies) > 0 => LastRow = anomalies[Len(anomalies)]
           /\ LastRow \in Anomaly
           /\ NoAnomaly \in Anomaly
  <1>1. Len(anomalies) \in Nat /\ \A i \in 1 .. Len(anomalies) : anomalies[i] \in Anomaly
    BY DEF OpsType
  <1>2. DOMAIN anomalies = 1 .. Len(anomalies)
    BY DEF OpsType
  <1>3. NoAnomaly \in Anomaly
    BY DEF NoAnomaly, Anomaly, States, Causes
  <1> QED
    BY <1>1, <1>2, <1>3 DEF LastRow, Row

(* A run's lock holder is the only run. *)
LEMMA RunsKeep ==
    ASSUME OpsType, OneRun, Crosses
    PROVE  OneRun'
  <1>1. \A e \in Engine : opsRun'[e].pc = opsRun[e].pc
    BY CrossesIs
  <1> QED
    BY <1>1 DEF OneRun

(* A set of times has no fewer times up to a later one. *)
LEMMA UpToGrows ==
    ASSUME NEW T \in SUBSET (1 .. MaxTimes), NEW V \in SUBSET T, NEW a \in Nat, NEW b \in Nat, a <= b
    PROVE  /\ Cardinality({x \in V : x <= a}) <= Cardinality({x \in T : x <= b})
           /\ a < b /\ b \in T =>
                Cardinality({x \in V : x <= a}) + 1 <= Cardinality({x \in T : x <= b})
           /\ Cardinality({x \in V : x <= a}) \in Nat
           /\ Cardinality({x \in T : x <= b}) \in Nat
  <1>1. PICK A : A = {x \in V : x <= a}
    OBVIOUS
  <1>2. PICK B : B = {x \in T : x <= b}
    OBVIOUS
  <1>3. A \subseteq B /\ B \subseteq T
    <2>1. \A x \in V : x \in T /\ x \in Nat
      BY AnomalyAssumption
    <2>2. \A x \in V : x <= a => x <= b
      BY <2>1
    <2> QED
      BY <1>1, <1>2, <2>1, <2>2
  <1>4. IsFiniteSet(T)
    BY NewestIs
  <1>5. IsFiniteSet(B)
    BY ONLY <1>3, <1>4, FS_Subset
  <1>6. IsFiniteSet(A) /\ Cardinality(A) <= Cardinality(B)
    BY ONLY <1>3, <1>5, FS_Subset
  <1>7. Cardinality(A) \in Nat /\ Cardinality(B) \in Nat
    BY ONLY <1>5, <1>6, FS_CardinalityType
  <1>8. ASSUME a < b, b \in T
        PROVE  Cardinality(A) + 1 <= Cardinality(B)
    <2>1. b \notin A /\ b \in B
      BY <1>1, <1>2, <1>8
    <2>2. PICK C : C = A \cup {b}
      OBVIOUS
    <2>3. IsFiniteSet(C) /\ Cardinality(C) = Cardinality(A) + 1
      BY ONLY <1>6, <2>1, <2>2, FS_AddElement
    <2>4. C \subseteq B
      BY <1>3, <2>1, <2>2
    <2>5. Cardinality(C) <= Cardinality(B)
      BY ONLY <1>5, <2>4, FS_Subset
    <2> QED
      BY <2>3, <2>5
  <1> QED
    BY <1>1, <1>2, <1>6, <1>7, <1>8

(* What happens outside the runs leaves the rows as sound as they were. *)
LEMMA CrossingKeeps ==
    ASSUME AnomalyInv, Crosses, anomalies' = anomalies, sticky' = sticky,
           times \subseteq times', times' \in SUBSET (1 .. MaxTimes),
           there' \in BOOLEAN, ruleOn' \in BOOLEAN, Reported',
           ~sticky /\ there' => (there /\ times' = times) \/ Newest < Newest'
    PROVE  AnomalyInv'
  <1>1. OpsType'
    BY CrossesIs DEF AnomalyInv, OpsType
  <1>2. OpsType /\ RowsSound
    BY DEF AnomalyInv
  <1>3. /\ Newest \in Nat /\ Newest' \in Nat
        /\ \A t \in times : t \in Nat /\ t <= Newest
    <2>1. Newest' \in Nat
      BY NewestIs DEF Newest
    <2> QED
      BY <1>2, <2>1, NewestStays
  <1>4. \A i \in 1 .. Len(anomalies) :
          /\ anomalies[i].at \in times /\ anomalies[i].first \in times
          /\ anomalies[i].at \in Nat
          /\ anomalies[i].at <= Newest
    BY <1>2, <1>3 DEF RowsSound, RowSound
  <1>5. ASSUME ~sticky, there', NEW i \in 1 .. Len(anomalies), there => anomalies[i].at < Newest
        PROVE  anomalies[i].at < Newest'
    <2>1. CASE there /\ times' = times
      BY <1>5, <2>1 DEF Newest
    <2>2. CASE Newest < Newest'
      BY <1>3, <1>4, <2>2
    <2> QED
      BY <1>5, <2>1, <2>2
  <1>6. RowsSound'
    BY <1>2, <1>4 DEF RowsSound, RowSound
  <1>7. OneRun'
    <2>1. OpsType /\ OneRun
      BY DEF AnomalyInv
    <2>2. \A e \in Engine : opsRun'[e].pc = opsRun[e].pc
      BY <2>1, CrossesIs
    <2> QED
      BY <2>1, <2>2 DEF OneRun
  <1>8. IsOver'
    BY <1>5 DEF AnomalyInv, IsOver, Over
  <1>9. RunsSound'
    <2> SUFFICES ASSUME NEW e \in Engine
                 PROVE  /\ opsRun'[e].pc # "idle" => Facts(opsRun[e])'
                        /\ opsRun'[e].pc = "loaded" => Knows(opsRun[e])'
                        /\ opsRun'[e].pc # "idle" /\ opsRun'[e].calm => Calm(opsRun[e])'
      BY DEF RunsSound
    <2>1. /\ opsRun'[e].pc = opsRun[e].pc
          /\ opsRun'[e].ran = opsRun[e].ran
          /\ opsRun'[e].on = opsRun[e].on
          /\ opsRun'[e].found = opsRun[e].found
          /\ opsRun'[e].at = opsRun[e].at
          /\ opsRun'[e].prev = opsRun[e].prev
          /\ opsRun'[e].was = opsRun[e].was
          /\ opsRun'[e].calm = FALSE
      BY <1>2, CrossesIs
    <2>2. ASSUME opsRun[e].pc # "idle" PROVE Facts(opsRun[e])'
      <3>1. Facts(opsRun[e])
        BY <2>2 DEF AnomalyInv, RunsSound
      <3>2. ~sticky /\ opsRun[e].ran /\ ~opsRun[e].found /\ there' =>
              \A i \in 1 .. Len(anomalies) : anomalies[i].at < Newest'
        BY <3>1, <1>5 DEF Facts
      <3> QED
        BY <2>1, <3>1, <3>2 DEF Facts, Over
    <2>3. ASSUME opsRun[e].pc = "loaded" PROVE Knows(opsRun[e])'
      <3>1. Knows(opsRun[e])
        BY <2>3 DEF AnomalyInv, RunsSound
      <3> QED
        BY <2>1, <3>1 DEF Knows, Stale
    <2> QED
      BY <2>1, <2>2, <2>3
  <1>10. ReportedOnce' /\ Apart'
    BY DEF AnomalyInv, ReportedOnce, Apart
  <1>11. Counts'
    <2> SUFFICES ASSUME sticky
                 PROVE  SumOver(Occurrences, DOMAIN anomalies) <= Cardinality(UpTo(LastRow.at)')
      BY DEF Counts, Occurrences, UpTo
    <2>1. PICK a : a = LastRow.at
      OBVIOUS
    <2>2. a \in Nat /\ LastRow'.at = a
      BY <1>2, <2>1, LastRowIs DEF Anomaly, LastRow, Row
    <2>3. /\ Cardinality({x \in times : x <= a}) <= Cardinality({x \in times' : x <= a})
          /\ Cardinality({x \in times : x <= a}) \in Nat
          /\ Cardinality({x \in times' : x <= a}) \in Nat
      <3>1. PICK T \in SUBSET (1 .. MaxTimes) : T = times'
        OBVIOUS
      <3>2. PICK V \in SUBSET T : V = times
        BY <3>1
      <3>3. a <= a
        BY <2>2
      <3>4. /\ Cardinality({x \in V : x <= a}) <= Cardinality({x \in T : x <= a})
            /\ Cardinality({x \in V : x <= a}) \in Nat
            /\ Cardinality({x \in T : x <= a}) \in Nat
        BY ONLY T \in SUBSET (1 .. MaxTimes), V \in SUBSET T, <2>2, <3>3, UpToGrows
      <3> QED
        BY <3>1, <3>2, <3>4
    <2>4. SumOver(Occurrences, DOMAIN anomalies) <= Cardinality({x \in times : x <= a})
      BY <2>1 DEF AnomalyInv, Counts, UpTo
    <2>5. SumOver(Occurrences, DOMAIN anomalies) \in Int
      <3>1. IsFiniteSet(1 .. Len(anomalies)) /\ \A k \in 1 .. Len(anomalies) : Occurrences[k] \in Int
        BY <1>2, LastRowIs, FS_Interval DEF Occurrences, Anomaly
      <3> QED
        BY ONLY <3>1, SumIsInt
    <2>6. UpTo(LastRow.at)' = {x \in times' : x <= a}
      BY <2>2 DEF UpTo
    <2> QED
      BY <2>3, <2>4, <2>5, <2>6
  <1>12. CatchesUp'
    BY CrossesIs, <1>2 DEF CatchesUp
  <1> QED
    BY <1>1, <1>6, <1>7, <1>8, <1>9, <1>10, <1>11, <1>12 DEF AnomalyInv

(* The four that do. *)
LEMMA ProblemKeeps ==
    ASSUME AnomalyInv, ConditionBegins \/ ConditionEnds \/ EventHappens \/ SwitchRule
    PROVE  AnomalyInv'
  <1>1. OpsType /\ Reported
    BY DEF AnomalyInv
  <1>2. Newest \in Nat /\ times \in SUBSET (1 .. MaxTimes) /\ there \in BOOLEAN /\ ruleOn \in BOOLEAN
    BY <1>1, NewestStays DEF OpsType
  <1>3. CASE ConditionBegins
    <2>1. times' \in SUBSET (1 .. MaxTimes) /\ Newest + 1 \in times' /\ times \subseteq times'
      BY <1>2, <1>3, AnomalyAssumption DEF ConditionBegins
    <2>2. Newest < Newest'
      <3>1. Newest' \in Nat /\ Newest + 1 <= Newest'
        BY <2>1, NewestIs DEF Newest
      <3> QED
        BY <1>2, <3>1
    <2>3. Reported'
      BY <1>3, <2>1 DEF ConditionBegins, Reported
    <2>4. Crosses /\ anomalies' = anomalies /\ sticky' = sticky /\ there' = TRUE /\ ruleOn' = ruleOn
      BY <1>3 DEF ConditionBegins
    <2> QED
      BY <1>2, <2>1, <2>2, <2>3, <2>4, CrossingKeeps
  <1>4. CASE ConditionEnds
    <2>1. /\ Crosses /\ anomalies' = anomalies /\ sticky' = sticky /\ there' = FALSE /\ ruleOn' = ruleOn
          /\ times' = times
      BY <1>4 DEF ConditionEnds
    <2>2. Reported'
      BY <2>1 DEF Reported
    <2> QED
      BY <1>2, <2>1, <2>2, CrossingKeeps
  <1>5. CASE EventHappens
    <2>1. /\ Crosses /\ anomalies' = anomalies /\ sticky' = sticky /\ there' = there /\ ruleOn' = ruleOn
          /\ times \subseteq times' /\ times' \in SUBSET (1 .. MaxTimes) /\ sticky
      BY <1>2, <1>5 DEF EventHappens
    <2>2. Reported'
      BY <1>1, <2>1 DEF Reported
    <2> QED
      BY <1>2, <2>1, <2>2, CrossingKeeps
  <1>6. CASE SwitchRule
    <2>1. /\ Crosses /\ anomalies' = anomalies /\ sticky' = sticky /\ there' = there
          /\ ruleOn' \in BOOLEAN /\ times' = times
      BY <1>2, <1>6 DEF SwitchRule
    <2>2. Reported'
      BY <1>1, <2>1 DEF Reported
    <2>3. times \subseteq times' /\ times' \in SUBSET (1 .. MaxTimes)
      BY <1>2, <2>1
    <2>4. there => there /\ times' = times
      BY <2>1
    <2> QED
      BY <1>2, <2>1, <2>2, <2>3, <2>4, CrossingKeeps
  <1> QED
    BY <1>3, <1>4, <1>5, <1>6

-----------------------------------------------------------------------------
(* What the rows keep *)

RowsKept == RowsSound /\ IsOver /\ ReportedOnce /\ Apart /\ Counts

(* The rows stay as sound when the last one changes as it may. *)
LEMMA LastAltered ==
    ASSUME OpsType, RowsKept, UNCHANGED <<sticky, there, times>>,
           NEW new \in Anomaly, NEW n \in Nat \ {0}, n = Len(anomalies),
           anomalies' = [anomalies EXCEPT ![n] = new],
           RowSound(n, new), new.first = LastRow.first,
           ~sticky /\ Over(new) /\ there => new.at < Newest,
           sticky => \/ new.occurrences = LastRow.occurrences /\ new.at = LastRow.at
                     \/ new.occurrences = LastRow.occurrences + 1 /\ LastRow.at < new.at
    PROVE  /\ anomalies' \in Seq(Anomaly) /\ Len(anomalies)' = n /\ LastRow' = new
           /\ \A i \in 1 .. n : anomalies'[i] = IF i = n THEN new ELSE anomalies[i]
           /\ RowsKept'
  <1>1. /\ LastRow = anomalies[n] /\ LastRow \in Anomaly
        /\ \A i \in 1 .. n : anomalies[i] \in Anomaly
    BY LastRowIs
  <1>2. anomalies' \in Seq(Anomaly) /\ Len(anomalies') = n
    BY DEF OpsType
  <1>3. \A i \in 1 .. n : anomalies'[i] = IF i = n THEN new ELSE anomalies[i]
    BY DEF OpsType
  <1>4. LastRow' = new
    BY <1>2, <1>3 DEF LastRow, Row
  <1>5. RowsSound'
    <2> SUFFICES ASSUME NEW i \in 1 .. n
                 PROVE  RowSound(i, anomalies[i])'
      BY <1>2 DEF RowsSound
    <2>1. CASE i = n
      BY <1>2, <1>3, <2>1 DEF RowSound
    <2>2. CASE i # n
      <3>1. RowSound(i, anomalies[i]) /\ anomalies'[i] = anomalies[i]
        BY <1>3, <2>2 DEF RowsKept, RowsSound
      <3> QED
        BY <1>2, <3>1 DEF RowSound
    <2> QED
      BY <2>1, <2>2
  <1>6. IsOver'
    <2> SUFFICES ASSUME ~sticky, there, NEW i \in 1 .. n, Over(anomalies'[i])
                 PROVE  anomalies'[i].at < Newest
      BY <1>2 DEF IsOver, Over, Newest
    <2>1. CASE i = n
      BY <1>3, <2>1
    <2>2. CASE i # n
      BY <1>3, <2>2 DEF RowsKept, IsOver
    <2> QED
      BY <2>1, <2>2
  <1>7. \A i \in 1 .. n - 1 : /\ anomalies'[i] = anomalies[i]
                              /\ anomalies'[i + 1].first = anomalies[i + 1].first
    BY <1>1, <1>3
  <1>8. ReportedOnce'
    BY <1>2, <1>7 DEF RowsKept, ReportedOnce
  <1>9. Apart'
    BY <1>2, <1>7 DEF RowsKept, Apart
  <1>10. Counts'
    <2> SUFFICES ASSUME sticky
                 PROVE  SumOver(Occurrences', DOMAIN anomalies') <= Cardinality({x \in times : x <= new.at})
      BY <1>2, <1>4 DEF Counts, UpTo
    <2>1. PICK f : f = Occurrences
      OBVIOUS
    <2>2. PICK g : g = Occurrences'
      OBVIOUS
    <2>3. PICK S : S = 1 .. n
      OBVIOUS
    <2>4. IsFiniteSet(S) /\ n \in S
      BY <2>3, FS_Interval
    <2>5. \A k \in S : f[k] = anomalies[k].occurrences /\ f[k] \in Int
      BY <1>1, <2>1, <2>3 DEF Occurrences, Anomaly
    <2>6. \A k \in S : g[k] = anomalies'[k].occurrences
      BY <1>2, <2>2, <2>3 DEF Occurrences
    <2>7. \A k \in S \ {n} : g[k] = f[k]
      BY <1>3, <2>3, <2>5, <2>6
    <2>8. g[n] = new.occurrences /\ f[n] = LastRow.occurrences
      BY <1>1, <1>3, <2>3, <2>4, <2>5, <2>6
    <2>9. SumOver(f, S) <= Cardinality({x \in times : x <= LastRow.at}) /\ SumOver(f, S) \in Int
      <3>1. SumOver(f, S) \in Int
        BY ONLY <2>4, <2>5, SumIsInt
      <3> QED
        BY <2>1, <2>3, <3>1 DEF RowsKept, Counts, UpTo
    <2>10. PICK a \in Nat : a = LastRow.at
      BY <1>1 DEF Anomaly
    <2>11. PICK b \in Nat : b = new.at
      BY DEF Anomaly
    <2>12. b \in times
      BY <2>11 DEF RowSound
    <2>13. CASE new.occurrences = LastRow.occurrences /\ new.at = LastRow.at
      <3>1. \A k \in S : g[k] = f[k]
        BY <2>7, <2>8, <2>13
      <3>2. SumOver(g, S) = SumOver(f, S)
        BY ONLY <2>4, <3>1, SumOfSame
      <3> QED
        BY <2>2, <2>3, <2>9, <2>13, <3>2
    <2>14. CASE new.occurrences = LastRow.occurrences + 1 /\ LastRow.at < new.at
      <3>1. SumOver(g, S) = SumOver(f, S) + 1
        <4>1. g[n] = f[n] + 1
          BY <2>8, <2>14
        <4> QED
          BY ONLY <2>4, <2>5, <2>7, <4>1, SumCounts
      <3>2. a < b /\ a <= b
        BY <2>10, <2>11, <2>14
      <3>3. PICK T \in SUBSET (1 .. MaxTimes) : T = times
        BY DEF OpsType
      <3>4. /\ Cardinality({x \in T : x <= a}) + 1 <= Cardinality({x \in T : x <= b})
            /\ Cardinality({x \in T : x <= a}) \in Nat
            /\ Cardinality({x \in T : x <= b}) \in Nat
        <4>1. T \in SUBSET T /\ b \in T
          BY <2>12, <3>3
        <4> QED
          BY ONLY T \in SUBSET (1 .. MaxTimes), a \in Nat, b \in Nat, <3>2, <4>1, UpToGrows
      <3> QED
        BY <2>2, <2>3, <2>9, <2>10, <2>11, <3>1, <3>3, <3>4
    <2> QED
      BY <2>13, <2>14
  <1> QED
    BY <1>2, <1>3, <1>4, <1>5, <1>6, <1>8, <1>9, <1>10 DEF RowsKept

(* ... and when one is found that may be. *)
LEMMA OneAppended ==
    ASSUME OpsType, RowsKept, UNCHANGED <<sticky, there, times>>,
           NEW new \in Anomaly, NEW n \in Nat, n = Len(anomalies),
           anomalies' = Append(anomalies, new),
           new.state = "open", new.why = "none", ~new.quiet, new.from = n, new.occurrences = 1,
           new.at \in times, new.first = new.at,
           n > 0 => LastRow.state # "open" /\ ~LastRow.quiet,
           n > 0 /\ sticky => LastRow.at < new.at,
           ~sticky => \A i \in 1 .. n : Over(anomalies[i]) => anomalies[i].at < new.at
    PROVE  /\ anomalies' \in Seq(Anomaly) /\ Len(anomalies)' = n + 1 /\ LastRow' = new
           /\ \A i \in 1 .. n + 1 : anomalies'[i] = IF i = n + 1 THEN new ELSE anomalies[i]
           /\ RowsKept'
  <1>1. /\ n > 0 => LastRow = anomalies[n]
        /\ LastRow \in Anomaly /\ (n = 0 => LastRow = NoAnomaly)
        /\ \A i \in 1 .. n : anomalies[i] \in Anomaly
    BY LastRowIs
  <1>2. anomalies' \in Seq(Anomaly) /\ Len(anomalies') = n + 1
    BY DEF OpsType
  <1>3. \A i \in 1 .. n + 1 : anomalies'[i] = IF i = n + 1 THEN new ELSE anomalies[i]
    BY DEF OpsType
  <1>4. LastRow' = new
    BY <1>2, <1>3 DEF LastRow, Row
  <1>5. RowsSound'
    <2> SUFFICES ASSUME NEW i \in 1 .. n + 1
                 PROVE  RowSound(i, anomalies[i])'
      BY <1>2 DEF RowsSound
    <2>1. CASE i = n + 1
      BY <1>2, <1>3, <2>1 DEF RowSound
    <2>2. CASE i # n + 1
      <3>1. RowSound(i, anomalies[i]) /\ anomalies'[i] = anomalies[i] /\ i \in 1 .. n
        BY <1>3, <2>2 DEF RowsKept, RowsSound
      <3>2. ~anomalies[i].quiet /\ anomalies[i].state # "open"
        <4>1. CASE i = n
          BY <1>1, <4>1
        <4>2. CASE i # n
          BY <3>1, <4>2 DEF RowSound
        <4> QED
          BY <4>1, <4>2
      <3> QED
        BY <1>2, <3>1, <3>2 DEF RowSound
    <2> QED
      BY <2>1, <2>2
  <1>6. IsOver'
    <2> SUFFICES ASSUME ~sticky, there, NEW i \in 1 .. n + 1, Over(anomalies'[i])
                 PROVE  anomalies'[i].at < Newest
      BY <1>2 DEF IsOver, Over, Newest
    <2>1. CASE i = n + 1
      BY <1>3, <2>1 DEF Over
    <2>2. CASE i # n + 1
      BY <1>3, <2>2 DEF RowsKept, IsOver
    <2> QED
      BY <2>1, <2>2
  <1>7. \A i \in 1 .. n : anomalies'[i] = anomalies[i]
    BY <1>3
  <1>8. \A i \in 1 .. n - 1 : i + 1 \in 1 .. n /\ anomalies'[i + 1] = anomalies[i + 1]
    BY <1>7
  <1>9. ReportedOnce'
    <2> SUFFICES ASSUME ~sticky, NEW i \in 1 .. n,
                        anomalies'[i].state = "dismissed" \/ anomalies'[i].why = "not_found"
                 PROVE  anomalies'[i].at < anomalies'[i + 1].first
      BY <1>2 DEF ReportedOnce
    <2>1. CASE i = n
      BY <1>1, <1>3, <1>7, <2>1 DEF Over
    <2>2. CASE i # n
      BY <1>7, <1>8, <2>2 DEF RowsKept, ReportedOnce
    <2> QED
      BY <2>1, <2>2
  <1>10. Apart'
    <2> SUFFICES ASSUME sticky, NEW i \in 1 .. n
                 PROVE  anomalies'[i].at < anomalies'[i + 1].first
      BY <1>2 DEF Apart
    <2>1. CASE i = n
      BY <1>1, <1>3, <1>7, <2>1
    <2>2. CASE i # n
      BY <1>7, <1>8, <2>2 DEF RowsKept, Apart
    <2> QED
      BY <2>1, <2>2
  <1>11. Counts'
    <2> SUFFICES ASSUME sticky
                 PROVE  SumOver(Occurrences', DOMAIN anomalies') <= Cardinality({x \in times : x <= new.at})
      BY <1>2, <1>4 DEF Counts, UpTo
    <2>1. PICK f : f = Occurrences
      OBVIOUS
    <2>2. PICK g : g = Occurrences'
      OBVIOUS
    <2>3. PICK S : S = 1 .. n
      OBVIOUS
    <2>4. IsFiniteSet(S) /\ n + 1 \notin S /\ 1 .. n + 1 = S \cup {n + 1}
      <3>1. IsFiniteSet(S)
        BY ONLY n \in Nat, <2>3, FS_Interval
      <3>2. n + 1 \notin S
        BY <2>3
      <3>3. 1 .. n + 1 = S \cup {n + 1}
        BY <2>3
      <3> QED
        BY <3>1, <3>2, <3>3
    <2>5. \A k \in S : f[k] = anomalies[k].occurrences /\ f[k] \in Int
      BY <1>1, <2>1, <2>3 DEF Occurrences, Anomaly
    <2>6. \A k \in 1 .. n + 1 : g[k] = anomalies'[k].occurrences
      BY <1>2, <2>2 DEF Occurrences
    <2>7. \A k \in S : g[k] = f[k] /\ g[k] \in Int
      BY <1>7, <2>3, <2>5, <2>6
    <2>8. g[n + 1] = 1 /\ g[n + 1] \in Int
      BY <1>3, <2>6
    <2>9. SumOver(f, S) <= Cardinality({x \in times : x <= LastRow.at}) /\ SumOver(f, S) \in Int
      <3>1. SumOver(f, S) \in Int
        BY ONLY <2>4, <2>5, SumIsInt
      <3> QED
        BY <2>1, <2>3, <3>1 DEF RowsKept, Counts, UpTo
    <2>10. SumOver(g, S) = SumOver(f, S)
      BY ONLY <2>4, <2>7, SumOfSame
    <2>11. SumOver(g, S \cup {n + 1}) = g[n + 1] + SumOver(g, S)
      BY ONLY <2>4, <2>7, <2>8, SumAdds
    <2>12. PICK a \in Nat : a = LastRow.at
      BY <1>1 DEF Anomaly
    <2>13. PICK b \in Nat : b = new.at
      BY DEF Anomaly
    <2>14. a < b /\ a <= b /\ b \in times
      <3>1. \A t \in times : t \in Nat /\ t > 0
        BY DEF OpsType
      <3>2. n = 0 => a = 0
        BY <1>1, <2>12 DEF NoAnomaly
      <3> QED
        BY <2>12, <2>13, <3>1, <3>2
    <2>15. PICK T \in SUBSET (1 .. MaxTimes) : T = times
      BY DEF OpsType
    <2>16. /\ Cardinality({x \in T : x <= a}) + 1 <= Cardinality({x \in T : x <= b})
           /\ Cardinality({x \in T : x <= a}) \in Nat
           /\ Cardinality({x \in T : x <= b}) \in Nat
      <3>1. T \in SUBSET T /\ b \in T
        BY <2>14, <2>15
      <3> QED
        BY ONLY T \in SUBSET (1 .. MaxTimes), a \in Nat, b \in Nat, <2>14, <3>1, UpToGrows
    <2>17. PICK all : all = 1 .. n + 1 /\ all = S \cup {n + 1}
      BY <2>4
    <2>18. SumOver(g, all) = 1 + SumOver(f, S)
      BY <2>8, <2>10, <2>11, <2>17
    <2>19. SumOver(f, S) <= Cardinality({x \in T : x <= a})
      BY <2>9, <2>12, <2>15
    <2>20. SumOver(g, all) <= Cardinality({x \in T : x <= b})
      BY <2>9, <2>16, <2>18, <2>19
    <2> QED
      BY <2>2, <2>13, <2>15, <2>17, <2>20
  <1> QED
    BY <1>2, <1>3, <1>4, <1>5, <1>6, <1>9, <1>10, <1>11 DEF RowsKept

-----------------------------------------------------------------------------
(* The steps *)

(* Resolving changes the open row, which is the last. *)
LEMMA ResolveKeeps ==
    ASSUME AnomalyInv, NEW resolution \in {"fixed", "dismissed"}, resolveAnomaly(resolution)
    PROVE  AnomalyInv'
  <1>1. /\ OpsType /\ RowsKept /\ Reported /\ OneRun
        /\ Crosses /\ UNCHANGED <<sticky, there, times>> /\ ruleOn' = ruleOn
        /\ LastRow.state = "open"
    BY DEF AnomalyInv, RowsKept, resolveAnomaly
  <1>2. PICK n \in Nat \ {0} : n = Len(anomalies)
    <2>1. Len(anomalies) \in Nat /\ (Len(anomalies) = 0 => LastRow = NoAnomaly)
      BY <1>1, LastRowIs
    <2>2. NoAnomaly.state = "none"
      BY DEF NoAnomaly
    <2> QED
      BY <1>1, <2>1, <2>2
  <1>3. LastRow = anomalies[n] /\ LastRow \in Anomaly
    BY <1>1, <1>2, LastRowIs
  <1>4. PICK old \in Anomaly : old = anomalies[n]
    BY <1>3
  <1>5. PICK new : new = [old EXCEPT !.state = resolution, !.quiet = resolution = "dismissed" /\ ~sticky]
    OBVIOUS
  <1>6. anomalies' = [anomalies EXCEPT ![n] = new]
    BY <1>2, <1>4, <1>5 DEF resolveAnomaly
  <1>7. sticky \in BOOLEAN
    BY <1>1 DEF OpsType
  <1>8. /\ new \in Anomaly /\ new.state = resolution /\ new.quiet = (resolution = "dismissed" /\ ~sticky)
        /\ new.from = old.from /\ new.first = old.first /\ new.at = old.at
        /\ new.occurrences = old.occurrences /\ new.why = old.why
    BY <1>5, <1>7 DEF Anomaly, States
  <1>9. RowSound(n, old)
    BY <1>1, <1>2, <1>4 DEF RowsKept, RowsSound
  <1>10. old.why = "none" /\ RowSound(n, new)
    BY <1>1, <1>2, <1>3, <1>4, <1>8, <1>9 DEF RowSound
  <1>11. ~sticky => ~Over(new)
    BY <1>8, <1>10 DEF Over
  <1>12. /\ anomalies' \in Seq(Anomaly) /\ Len(anomalies)' = n
         /\ \A i \in 1 .. n : anomalies'[i] = IF i = n THEN new ELSE anomalies[i]
         /\ RowsKept'
    <2>1. new.first = LastRow.first /\ new.occurrences = LastRow.occurrences /\ new.at = LastRow.at
      BY <1>3, <1>4, <1>8
    <2> QED
      BY ONLY <1>1, <1>2, <1>6, <1>8, <1>10, <1>11, <2>1, LastAltered
  <1>13. OpsType'
    BY <1>1, <1>12, CrossesIs DEF OpsType
  <1>14. \A i \in 1 .. n : /\ anomalies'[i].at = anomalies[i].at
                           /\ ~sticky /\ Over(anomalies'[i]) => Over(anomalies[i])
    BY <1>4, <1>8, <1>11, <1>12
  <1>15. OneRun' /\ caughtUp' = FALSE
    <2>1. (\A e \in Engine : opsRun'[e].pc = opsRun[e].pc) /\ caughtUp' = FALSE
      BY <1>1, CrossesIs
    <2> QED
      BY <1>1, <2>1 DEF OneRun
  <1>16. RunsSound'
    <2> SUFFICES ASSUME NEW e \in Engine
                 PROVE  /\ opsRun'[e].pc # "idle" => Facts(opsRun[e])'
                        /\ opsRun'[e].pc = "loaded" => Knows(opsRun[e])'
                        /\ opsRun'[e].pc # "idle" /\ opsRun'[e].calm => Calm(opsRun[e])'
      BY DEF RunsSound
    <2>1. /\ opsRun'[e].pc = opsRun[e].pc
          /\ opsRun'[e].ran = opsRun[e].ran
          /\ opsRun'[e].on = opsRun[e].on
          /\ opsRun'[e].found = opsRun[e].found
          /\ opsRun'[e].at = opsRun[e].at
          /\ opsRun'[e].prev = opsRun[e].prev
          /\ opsRun'[e].was = opsRun[e].was
          /\ opsRun'[e].calm = FALSE
      BY <1>1, CrossesIs
    <2>2. ASSUME opsRun[e].pc # "idle" PROVE Facts(opsRun[e])'
      <3>1. Facts(opsRun[e])
        BY <2>2 DEF AnomalyInv, RunsSound
      <3>2. Newest' = Newest
        BY <1>1 DEF Newest
      <3>3. ~sticky /\ opsRun[e].found =>
              \A i \in 1 .. n : Over(anomalies'[i]) => anomalies'[i].at < opsRun[e].at
        BY <1>2, <1>14, <3>1 DEF Facts
      <3>4. ~sticky /\ opsRun[e].ran /\ ~opsRun[e].found /\ there =>
              \A i \in 1 .. n : anomalies'[i].at < Newest
        BY <1>2, <1>14, <3>1 DEF Facts
      <3> QED
        BY <1>1, <1>12, <2>1, <3>1, <3>2, <3>3, <3>4 DEF Facts, Over
    <2>3. ASSUME opsRun[e].pc = "loaded" PROVE Knows(opsRun[e])'
      <3>1. Knows(opsRun[e])
        BY <2>3 DEF AnomalyInv, RunsSound
      <3>2. PICK p \in 0 .. n : p = opsRun[e].prev
        BY <1>2, <3>1 DEF Knows
      <3>3. p # 0 => Stale(opsRun[e].was, anomalies'[p])
        <4>1. CASE p = n
          BY <1>1, <1>2, <1>3, <1>8, <1>12, <3>1, <3>2, <4>1 DEF Knows, Stale
        <4>2. CASE p # n
          BY <1>12, <3>1, <3>2, <4>2 DEF Knows
        <4> QED
          BY <4>1, <4>2
      <3> QED
        BY <1>2, <1>12, <2>1, <3>1, <3>2, <3>3 DEF Knows, Stale
    <2> QED
      BY <2>1, <2>2, <2>3
  <1>17. Reported' /\ CatchesUp'
    BY <1>1, <1>15 DEF Reported, CatchesUp
  <1> QED
    BY <1>12, <1>13, <1>15, <1>16, <1>17 DEF AnomalyInv, RowsKept

(* While there is a run, the others are idle. *)
LEMMA OthersIdle ==
    ASSUME OneRun, NEW e \in Engine, opsRun[e].pc # "idle"
    PROVE  \A f \in Engine \ {e} : opsRun[f].pc = "idle"
  BY DEF OneRun

(* A run that only goes on. *)
LEMMA RunMoves ==
    ASSUME AnomalyInv, NEW e \in Engine, NEW r \in RunOfRules, opsRun' = [opsRun EXCEPT ![e] = r],
           \A f \in Engine \ {e} : opsRun[f].pc = "idle",
           UNCHANGED <<sticky, there, times, ruleOn, anomalies, caughtUp>>,
           r.pc # "idle" => Facts(r),
           r.pc = "loaded" => Knows(r),
           r.pc # "idle" /\ r.calm => Calm(r)
    PROVE  AnomalyInv'
  <1>1. \A f \in Engine : opsRun'[f] = IF f = e THEN r ELSE opsRun[f]
    BY DEF AnomalyInv, OpsType
  <1>2. OpsType'
    BY DEF AnomalyInv, OpsType
  <1>3. OneRun'
    BY <1>1 DEF OneRun
  <1>4. RowsKept'
    <2>1. RowsSound' /\ IsOver'
      BY DEF AnomalyInv, RowsSound, RowSound, IsOver, Over, Newest
    <2>2. ReportedOnce' /\ Apart'
      BY DEF AnomalyInv, ReportedOnce, Apart
    <2>3. Counts'
      BY DEF AnomalyInv, Counts, Occurrences, UpTo, LastRow, Row
    <2> QED
      BY <2>1, <2>2, <2>3 DEF RowsKept
  <1>5. Reported' /\ CatchesUp'
    BY DEF AnomalyInv, Reported, CatchesUp, LastRow, Row, Newest
  <1>6. RunsSound'
    <2> SUFFICES ASSUME NEW f \in Engine, opsRun'[f].pc # "idle"
                 PROVE  /\ Facts(opsRun[f])'
                        /\ opsRun'[f].pc = "loaded" => Knows(opsRun[f])'
                        /\ opsRun'[f].calm => Calm(opsRun[f])'
      BY DEF RunsSound
    <2>1. f = e /\ opsRun'[f] = r
      BY <1>1
    <2>2. Facts(opsRun[f])'
      <3>1. Facts(r) /\ Newest' = Newest
        BY <2>1 DEF Newest
      <3> QED
        BY <2>1, <3>1 DEF Facts, Over
    <2>3. r.pc = "loaded" => Knows(opsRun[f])'
      BY <2>1 DEF Knows, Stale
    <2>4. r.calm => Calm(opsRun[f])'
      BY <2>1 DEF Calm, LastRow, Row, Newest
    <2> QED
      BY <2>1, <2>2, <2>3, <2>4
  <1> QED
    BY <1>2, <1>3, <1>4, <1>5, <1>6 DEF AnomalyInv, RowsKept

(* A run that is not there has found nothing. *)
LEMMA IdleRun ==
    /\ NotRunning \in RunOfRules /\ NotRunning.pc = "idle" /\ NotRunning.ran = FALSE
    /\ NotRunning.found = FALSE
  BY DEF NotRunning, RunOfRules, NoAnomaly, Anomaly, States, Causes

(* A run begins alone. *)
LEMMA LockKeeps ==
    ASSUME AnomalyInv, NEW e \in Engine, runLocked(e)
    PROVE  AnomalyInv'
  <1>1. PICK r : r = [NotRunning EXCEPT !.pc = "started", !.on = ruleOn, !.calm = TRUE]
    OBVIOUS
  <1>2. ruleOn \in BOOLEAN
    BY DEF AnomalyInv, OpsType
  <1>3. r \in RunOfRules /\ r.pc = "started" /\ r.on = ruleOn /\ r.ran = FALSE /\ r.found = FALSE
    BY <1>1, <1>2, IdleRun DEF RunOfRules
  <1>4. Facts(r) /\ Calm(r)
    BY <1>3 DEF Facts, Calm
  <1>5. \A f \in Engine \ {e} : opsRun[f].pc = "idle"
    BY DEF runLocked, RunLockFree
  <1>6. /\ opsRun' = [opsRun EXCEPT ![e] = r]
        /\ UNCHANGED <<sticky, there, times, ruleOn, anomalies, caughtUp>>
    BY <1>1 DEF runLocked
  <1> QED
    BY ONLY AnomalyInv, e \in Engine, <1>3, <1>4, <1>5, <1>6, RunMoves

(* One that ends leaves nothing under way. *)
LEMMA DeathKeeps ==
    ASSUME AnomalyInv, NEW e \in Engine, RunDies(e)
    PROVE  AnomalyInv'
  <1>1. \A f \in Engine \ {e} : opsRun[f].pc = "idle"
    BY OthersIdle DEF RunDies, AnomalyInv
  <1>2. PICK r : r = NotRunning
    OBVIOUS
  <1>3. r \in RunOfRules /\ r.pc = "idle"
    BY <1>2, IdleRun
  <1>4. /\ opsRun' = [opsRun EXCEPT ![e] = r]
        /\ UNCHANGED <<sticky, there, times, ruleOn, anomalies, caughtUp>>
    BY <1>2 DEF RunDies
  <1> QED
    BY ONLY AnomalyInv, e \in Engine, <1>1, <1>3, <1>4, RunMoves

(* What is gathered is so at the moment. *)
LEMMA GatherKeeps ==
    ASSUME AnomalyInv, NEW e \in Engine, Gather(e)
    PROVE  AnomalyInv'
  <1>1. /\ OpsType /\ RowsSound /\ Reported /\ OneRun /\ IsOver
        /\ opsRun[e].pc = "started" /\ opsRun[e] \in RunOfRules
        /\ UNCHANGED <<sticky, there, times, ruleOn, anomalies, caughtUp>>
    BY DEF AnomalyInv, Gather, OpsType
  <1>2. \A f \in Engine \ {e} : opsRun[f].pc = "idle"
    BY <1>1, OthersIdle
  <1>3. PICK old \in RunOfRules : old = opsRun[e]
    BY <1>1
  <1>4. PICK ran \in {old.on, FALSE} : \E found \in {there \/ (sticky /\ times # {}), there} :
          opsRun' = [opsRun EXCEPT ![e] = [@ EXCEPT !.pc = "gathered", !.ran = ran,
                       !.found = ran /\ found, !.at = IF ran /\ found THEN Newest ELSE 0]]
    BY <1>3 DEF Gather
  <1>5. PICK found \in {there \/ (sticky /\ times # {}), there} :
          opsRun' = [opsRun EXCEPT ![e] = [@ EXCEPT !.pc = "gathered", !.ran = ran,
                       !.found = ran /\ found, !.at = IF ran /\ found THEN Newest ELSE 0]]
    BY <1>4
  <1>6. PICK r : r = [old EXCEPT !.pc = "gathered", !.ran = ran,
                       !.found = ran /\ found, !.at = IF ran /\ found THEN Newest ELSE 0]
    OBVIOUS
  <1>7. opsRun' = [opsRun EXCEPT ![e] = r]
    BY <1>1, <1>3, <1>5, <1>6 DEF OpsType
  <1>8. ran \in BOOLEAN /\ found \in BOOLEAN /\ Newest \in Nat /\ (ran => old.on)
    <2>1. there \in BOOLEAN /\ sticky \in BOOLEAN /\ old.on \in BOOLEAN
      BY <1>1 DEF OpsType, RunOfRules
    <2> QED
      BY <1>1, <2>1, NewestStays
  <1>9. /\ r \in RunOfRules /\ r.pc = "gathered" /\ r.ran = ran /\ r.found = (ran /\ found)
        /\ r.at = (IF ran /\ found THEN Newest ELSE 0) /\ r.on = old.on /\ r.calm = old.calm
    BY <1>6, <1>8 DEF RunOfRules
  <1>10. r.found => Newest \in times /\ r.at = Newest /\ r.ran
    BY <1>1, <1>8, <1>9, NewestStays DEF Reported
  <1>11. ~sticky => found = there
    BY <1>8, <1>1 DEF OpsType
  <1>12. Facts(r)
    <2>1. ~sticky /\ r.found => \A i \in 1 .. Len(anomalies) : Over(anomalies[i]) => anomalies[i].at < r.at
      BY <1>1, <1>8, <1>9, <1>10, <1>11 DEF IsOver
    <2>2. ~(~sticky /\ r.ran /\ ~r.found /\ there)
      BY <1>8, <1>9, <1>11
    <2> QED
      BY <1>8, <1>9, <1>10, <2>1, <2>2 DEF Facts
  <1>13. r.calm => Calm(r)
    <2>1. r.calm => Calm(old)
      BY <1>1, <1>3, <1>9 DEF AnomalyInv, RunsSound
    <2>2. r.ran /\ ~sticky => r.found = there
      BY <1>8, <1>9, <1>11
    <2> QED
      BY <1>9, <1>10, <2>1, <2>2 DEF Calm
  <1>14. (r.pc # "idle" => Facts(r)) /\ (r.pc = "loaded" => Knows(r)) /\ (r.pc # "idle" /\ r.calm => Calm(r))
    BY <1>9, <1>12, <1>13
  <1> QED
    BY ONLY AnomalyInv, e \in Engine, <1>1, <1>2, <1>7, <1>9, <1>14, RunMoves

(* What is loaded: the last row, if the problem is found or that row is open or quiet. *)
LEMMA LoadedIs ==
    ASSUME OpsType, RowsSound, NEW found \in BOOLEAN, NEW p, p = LatestOf(Existing(found)),
           NEW n \in Nat, n = Len(anomalies)
    PROVE  /\ p \in 0 .. n
           /\ found => p = n
           /\ LastRow.state = "open" \/ LastRow.quiet => p = n
  <1>1. PICK S : S = Existing(found)
    OBVIOUS
  <1>2. S \subseteq 1 .. n /\ (found => S = 1 .. n)
    BY <1>1 DEF Existing
  <1>3. \A i \in 1 .. n : anomalies[i].quiet \/ anomalies[i].state = "open" => i \in S /\ i = n
    BY <1>1 DEF Existing, RowsSound, RowSound
  <1>4. LastRow.state = "open" \/ LastRow.quiet => n > 0 /\ LastRow = anomalies[n]
    <2>1. NoAnomaly.state = "none" /\ NoAnomaly.quiet = FALSE
      BY DEF NoAnomaly
    <2> QED
      BY <2>1, LastRowIs
  <1>5. CASE \E i \in S : anomalies[i].state = "open"
    <2>1. \A i \in S : anomalies[i].state = "open" => i = n
      BY <1>2, <1>3
    <2>2. p = CHOOSE i \in S : anomalies[i].state = "open"
      BY <1>1, <1>5 DEF LatestOf
    <2>3. p \in S /\ anomalies[p].state = "open"
      BY <1>5, <2>2
    <2> QED
      BY <1>2, <2>1, <2>3
  <1>6. CASE ~\E i \in S : anomalies[i].state = "open"
    <2>1. p = Max(S \cup {0})
      BY <1>1, <1>6 DEF LatestOf
    <2>2. PICK T : T = S \cup {0}
      OBVIOUS
    <2>3. IsFiniteSet(T) /\ T \in SUBSET Int /\ T # {}
      <3>1. PICK all : all = 1 .. n /\ IsFiniteSet(all)
        BY FS_Interval
      <3>2. S \subseteq all
        BY <1>2, <3>1
      <3>3. IsFiniteSet(S)
        BY ONLY <3>1, <3>2, FS_Subset
      <3>4. IsFiniteSet(T)
        BY ONLY <2>2, <3>3, FS_AddElement
      <3> QED
        BY <1>2, <2>2, <3>4
    <2>4. Max(T) \in T /\ \A x \in T : Max(T) >= x
      BY ONLY <2>3, MaxIsLargest
    <2>5. p \in T /\ \A x \in T : p >= x
      BY <2>1, <2>2, <2>4
    <2>6. p \in 0 .. n
      BY <1>2, <2>2, <2>5
    <2>7. n \in T => p = n
      BY <2>5, <2>6
    <2>8. found => n \in T
      BY <1>2, <2>2
    <2>9. LastRow.state = "open" \/ LastRow.quiet => n \in T
      BY <1>3, <1>4, <2>2
    <2> QED
      BY <2>6, <2>7, <2>8, <2>9
  <1> QED
    BY <1>5, <1>6

(* A run looks for the row on file. *)
LEMMA LoadKeeps ==
    ASSUME AnomalyInv, NEW e \in Engine, loadExisting(e)
    PROVE  AnomalyInv'
  <1>1. /\ OpsType /\ RowsSound /\ OneRun
        /\ opsRun[e].pc = "gathered" /\ opsRun[e] \in RunOfRules
        /\ UNCHANGED <<sticky, there, times, ruleOn, anomalies, caughtUp>>
    BY DEF AnomalyInv, loadExisting, OpsType
  <1>2. \A f \in Engine \ {e} : opsRun[f].pc = "idle"
    BY <1>1, OthersIdle
  <1>3. PICK old \in RunOfRules : old = opsRun[e]
    BY <1>1
  <1>4. PICK p : p = LatestOf(Existing(old.found))
    OBVIOUS
  <1>5. PICK n \in Nat : n = Len(anomalies)
    BY <1>1, LastRowIs
  <1>6. /\ p \in 0 .. n
        /\ old.found => p = n
        /\ LastRow.state = "open" \/ LastRow.quiet => p = n
    <2>1. old.found \in BOOLEAN
      BY DEF RunOfRules
    <2> QED
      BY <1>1, <1>4, <1>5, <2>1, LoadedIs
  <1>7. PICK was \in Anomaly : was = Row(p)
    BY <1>1, <1>5, <1>6, LastRowIs DEF Row
  <1>8. PICK r : r = [old EXCEPT !.pc = "loaded", !.prev = p, !.was = was]
    OBVIOUS
  <1>9. opsRun' = [opsRun EXCEPT ![e] = r]
    BY <1>1, <1>3, <1>4, <1>7, <1>8 DEF loadExisting, OpsType
  <1>10. /\ r \in RunOfRules /\ r.pc = "loaded" /\ r.prev = p /\ r.was = was
         /\ r.ran = old.ran /\ r.found = old.found /\ r.at = old.at /\ r.on = old.on
         /\ r.calm = old.calm
    <2>1. p \in Nat
      BY <1>6
    <2> QED
      BY <1>8, <2>1 DEF RunOfRules
  <1>11. Facts(old) /\ (old.calm => Calm(old))
    BY <1>1, <1>3 DEF AnomalyInv, RunsSound
  <1>12. Facts(r)
    BY <1>1, <1>3, <1>10, <1>11 DEF Facts
  <1>13. Knows(r)
    <2>1. p = 0 => was = NoAnomaly
      BY <1>7 DEF Row
    <2>2. p # 0 => was = anomalies[p]
      BY <1>7 DEF Row
    <2>3. was.quiet => was.state # "open"
      <3>1. CASE p = 0
        BY <2>1, <3>1 DEF NoAnomaly
      <3>2. CASE p # 0
        <4>1. p \in 1 .. n
          BY <1>6, <3>2
        <4>2. was = anomalies[p]
          BY <2>2, <3>2
        <4>3. RowSound(p, was)
          BY <1>1, <1>5, <4>1, <4>2 DEF RowsSound
        <4> QED
          BY <4>3 DEF RowSound
      <3> QED
        BY <3>1, <3>2
    <2> QED
      BY <1>5, <1>6, <1>10, <2>1, <2>2, <2>3 DEF Knows, Stale
  <1>14. r.calm => Calm(r)
    <2>1. r.calm => Calm(old)
      BY <1>10, <1>11
    <2> QED
      BY <1>5, <1>6, <1>7, <1>10, <2>1 DEF Calm
  <1>15. (r.pc # "idle" => Facts(r)) /\ (r.pc = "loaded" => Knows(r)) /\ (r.pc # "idle" /\ r.calm => Calm(r))
    BY <1>12, <1>13, <1>14
  <1> QED
    BY ONLY AnomalyInv, e \in Engine, <1>1, <1>2, <1>9, <1>10, <1>15, RunMoves

-----------------------------------------------------------------------------
(* What a run applies *)

Applying(r, n) ==
    /\ OpsType /\ RowsKept /\ Reported /\ r \in RunOfRules /\ r.pc = "loaded"
    /\ n \in Nat /\ n = Len(anomalies)
    /\ Facts(r) /\ Knows(r) /\ (r.calm => Calm(r))
    /\ UNCHANGED <<sticky, there, times, ruleOn>>
    /\ caughtUp' = (r.calm /\ (r.on => r.ran) /\ (sticky => r.found \/ ~r.on))

(* What a run goes by, in one place. *)
LEMMA ApplyingIs ==
    ASSUME NEW r, NEW n, Applying(r, n)
    PROVE  /\ OpsType /\ RowsKept /\ Reported /\ UNCHANGED <<sticky, there, times>> /\ ruleOn' = ruleOn
           /\ n \in Nat /\ n = Len(anomalies)
           /\ r.on \in BOOLEAN /\ r.ran \in BOOLEAN /\ r.found \in BOOLEAN /\ r.at \in Nat
           /\ r.was \in Anomaly /\ r.prev \in 0 .. n
           /\ sticky \in BOOLEAN /\ there \in BOOLEAN /\ ruleOn \in BOOLEAN
           /\ r.found => r.ran /\ r.at \in times /\ r.prev = n
           /\ r.ran => r.on
           /\ r.was.quiet => r.was.state # "open"
           /\ r.prev = 0 => r.was = NoAnomaly
           /\ r.prev # 0 => Stale(r.was, anomalies[r.prev])
           /\ caughtUp' => /\ r.on = ruleOn
                           /\ ruleOn => r.ran
                           /\ r.ran /\ ~sticky => r.found = there
                           /\ ruleOn /\ sticky => r.found
                           /\ r.found => r.at = Newest
                           /\ r.was = Row(r.prev)
                           /\ LastRow.state = "open" \/ LastRow.quiet => r.prev = n
  <1>1. /\ OpsType /\ RowsKept /\ Reported /\ UNCHANGED <<sticky, there, times>> /\ ruleOn' = ruleOn
        /\ n \in Nat /\ n = Len(anomalies) /\ r \in RunOfRules /\ r.pc = "loaded"
        /\ Facts(r) /\ Knows(r)
    BY DEF Applying
  <1>2. /\ r.on \in BOOLEAN /\ r.ran \in BOOLEAN /\ r.found \in BOOLEAN /\ r.at \in Nat
        /\ r.was \in Anomaly /\ r.calm \in BOOLEAN
    BY <1>1 DEF RunOfRules
  <1>3. sticky \in BOOLEAN /\ there \in BOOLEAN /\ ruleOn \in BOOLEAN
    BY <1>1 DEF OpsType
  <1>4. /\ r.found => r.ran /\ r.at \in times /\ r.prev = n
        /\ r.ran => r.on
        /\ r.was.quiet => r.was.state # "open"
        /\ r.prev \in 0 .. n
        /\ r.prev = 0 => r.was = NoAnomaly
        /\ r.prev # 0 => Stale(r.was, anomalies[r.prev])
    BY <1>1 DEF Facts, Knows
  <1>5. ASSUME caughtUp'
        PROVE  /\ r.on = ruleOn
               /\ ruleOn => r.ran
               /\ r.ran /\ ~sticky => r.found = there
               /\ ruleOn /\ sticky => r.found
               /\ r.found => r.at = Newest
               /\ r.was = Row(r.prev)
               /\ LastRow.state = "open" \/ LastRow.quiet => r.prev = n
    <2>1. r.calm /\ (r.on => r.ran) /\ (sticky => r.found \/ ~r.on)
      BY <1>5 DEF Applying
    <2>2. Calm(r)
      BY <2>1 DEF Applying
    <2> QED
      BY <1>1, <2>1, <2>2 DEF Calm
  <1> QED
    BY <1>1, <1>2, <1>3, <1>4, <1>5

(* It adds a row: the problem is new, or back. *)
LEMMA InsertKeeps ==
    ASSUME NEW r, NEW n, Applying(r, n), Inserts(r), anomalies' = Inserted(r)
    PROVE  anomalies' \in Seq(Anomaly) /\ RowsKept' /\ CatchesUp'
  <1>1. r.found /\ r.ran /\ r.on /\ r.at \in times /\ r.at \in Nat /\ r.prev = n /\ n \in Nat /\ n = Len(anomalies)
    BY ApplyingIs DEF Inserts
  <1>2. n = 0 => r.was = NoAnomaly
    BY <1>1, ApplyingIs
  <1>3. r.was.state # "open"
    BY DEF Inserts, Open
  <1>4. n > 0 => r.was = LastRow
    BY <1>1, <1>3, ApplyingIs, LastRowIs DEF Stale
  <1>5. LastRow.state # "open"
    <2>1. NoAnomaly.state = "none"
      BY DEF NoAnomaly
    <2> QED
      BY <1>1, <1>3, <1>4, <2>1, ApplyingIs, LastRowIs
  <1>6. PICK new : new = [NoAnomaly EXCEPT !.state = "open", !.from = r.prev, !.first = r.at,
                               !.at = r.at, !.occurrences = 1]
    OBVIOUS
  <1>7. anomalies' = Append(anomalies, new)
    BY <1>5, <1>6 DEF Inserted
  <1>8. /\ new \in Anomaly /\ new.state = "open" /\ new.why = "none" /\ ~new.quiet /\ new.from = n
        /\ new.occurrences = 1 /\ new.at = r.at /\ new.first = r.at
    BY <1>1, <1>6 DEF NoAnomaly, Anomaly, States, Causes
  <1>9. sticky => ~LastRow.quiet
    <2>1. n > 0 => RowSound(n, LastRow)
      BY <1>1, ApplyingIs, LastRowIs DEF RowsKept, RowsSound
    <2>2. n = 0 => ~LastRow.quiet
      BY <1>1, ApplyingIs, LastRowIs DEF NoAnomaly
    <2> QED
      BY <1>1, <2>1, <2>2 DEF RowSound
  <1>10. n > 0 => ~LastRow.quiet
    BY <1>1, <1>4, <1>9 DEF Inserts
  <1>11. n > 0 /\ sticky => LastRow.at < r.at
    <2>1. n > 0 /\ sticky => r.at > r.was.at
      BY <1>1 DEF Inserts, newer
    <2>2. r.was.at \in Nat
      BY ApplyingIs DEF Anomaly
    <2> QED
      BY <1>1, <1>4, <2>1, <2>2
  <1>12. ~sticky => \A i \in 1 .. n : Over(anomalies[i]) => anomalies[i].at < r.at
    BY <1>1 DEF Applying, Facts
  <1>13. anomalies' \in Seq(Anomaly) /\ LastRow' = new /\ RowsKept'
    <2>1. OpsType /\ RowsKept /\ UNCHANGED <<sticky, there, times>>
      BY ApplyingIs
    <2>2. /\ new.at \in times /\ new.first = new.at
          /\ n > 0 => LastRow.state # "open" /\ ~LastRow.quiet
          /\ n > 0 /\ sticky => LastRow.at < new.at
          /\ ~sticky => \A i \in 1 .. n : Over(anomalies[i]) => anomalies[i].at < new.at
      BY <1>1, <1>5, <1>8, <1>10, <1>11, <1>12
    <2> QED
      BY ONLY <1>1, <1>7, <1>8, <2>1, <2>2, OneAppended
  <1>14. CatchesUp'
    <2> SUFFICES ASSUME caughtUp'
                 PROVE  /\ ruleOn
                        /\ ~sticky => there
                        /\ new.at = Newest
      <3>1. ruleOn' = ruleOn /\ sticky' = sticky /\ there' = there /\ Newest' = Newest
        BY ApplyingIs DEF Newest
      <3> QED
        BY <1>8, <1>13, <3>1 DEF CatchesUp
    <2> QED
      BY <1>1, <1>8, ApplyingIs
  <1> QED
    BY <1>13, <1>14

(* What it may do to the row it goes by. *)
Refreshed(r, row, new) ==
    /\ Refreshes(r) /\ row.state = "open"
    /\ new = [row EXCEPT !.at = r.at, !.occurrences = r.was.occurrences + (IF sticky THEN 1 ELSE 0)]
Touched(r, row, new) == Touches(r) /\ new = [row EXCEPT !.at = r.at]
ClearedNow(r, row, new) ==
    /\ Clears(r) /\ row.state = "open"
    /\ new = [row EXCEPT !.state = "cleared", !.why = IF r.on THEN "not_found" ELSE "rule_disabled"]
Marked(r, row, new) == MarksCleared(r) /\ new = [row EXCEPT !.quiet = FALSE]

(* A write does one thing to the row, or nothing. *)
LEMMA ChangedIs ==
    ASSUME NEW r, NEW n, Applying(r, n), NEW row, NEW new, new = Changed(r, row)
    PROVE  \/ Refreshed(r, row, new) \/ Touched(r, row, new) \/ ClearedNow(r, row, new) \/ Marked(r, row, new)
           \/ /\ new = row
              /\ ~(Refreshes(r) /\ row.state = "open") /\ ~Touches(r)
              /\ ~(Clears(r) /\ row.state = "open") /\ ~MarksCleared(r)
  <1>1. Refreshes(r) => ~Touches(r) /\ ~Clears(r) /\ ~MarksCleared(r)
    BY ApplyingIs DEF Refreshes, Touches, Clears, MarksCleared, Open
  <1>2. Touches(r) => ~Clears(r) /\ ~MarksCleared(r)
    BY ApplyingIs DEF Touches, Clears, MarksCleared, Open
  <1>3. Clears(r) => ~MarksCleared(r)
    BY ApplyingIs DEF Clears, MarksCleared, Open
  <1>4. CASE Refreshes(r) /\ row.state = "open"
    BY <1>1, <1>4 DEF Changed, Refreshed
  <1>5. CASE Touches(r)
    BY <1>1, <1>2, <1>5 DEF Changed, Touched
  <1>6. CASE Clears(r) /\ row.state = "open"
    BY <1>1, <1>2, <1>3, <1>6 DEF Changed, ClearedNow
  <1>7. CASE MarksCleared(r)
    BY <1>1, <1>2, <1>3, <1>7 DEF Changed, Marked
  <1>8. CASE ~(Refreshes(r) /\ row.state = "open") /\ ~Touches(r) /\ ~(Clears(r) /\ row.state = "open") /\ ~MarksCleared(r)
    BY <1>8 DEF Changed
  <1> QED
    BY <1>4, <1>5, <1>6, <1>7, <1>8

(* Nothing changes: then there was nothing to. *)
LEMMA NothingKeeps ==
    ASSUME NEW r, NEW n, Applying(r, n), ~Inserts(r), anomalies' = anomalies,
           r.prev # 0 =>
              /\ ~(Refreshes(r) /\ anomalies[r.prev].state = "open") /\ ~Touches(r)
              /\ ~(Clears(r) /\ anomalies[r.prev].state = "open") /\ ~MarksCleared(r)
    PROVE  RowsKept' /\ CatchesUp'
  <1>1. /\ UNCHANGED <<sticky, there, times>> /\ ruleOn' = ruleOn /\ RowsKept /\ OpsType
        /\ n \in Nat /\ n = Len(anomalies)
    BY ApplyingIs
  <1>2. RowsKept'
    <2>1. RowsSound' /\ IsOver'
      BY <1>1 DEF RowsKept, RowsSound, RowSound, IsOver, Over, Newest
    <2>2. ReportedOnce' /\ Apart'
      BY <1>1 DEF RowsKept, ReportedOnce, Apart
    <2>3. Counts'
      BY <1>1 DEF RowsKept, Counts, Occurrences, UpTo, LastRow, Row
    <2> QED
      BY <2>1, <2>2, <2>3 DEF RowsKept
  <1>3. LastRow' = LastRow /\ Newest' = Newest
    BY <1>1 DEF LastRow, Row, Newest
  <1>4. CatchesUp'
    <2> SUFFICES ASSUME caughtUp'
                 PROVE  /\ LastRow.state = "open" => ruleOn
                        /\ (ruleOn /\ ~sticky) => (there <=> LastRow.state = "open" \/ LastRow.quiet)
                        /\ (ruleOn /\ sticky) => LastRow.at = Newest
      BY <1>1, <1>3 DEF CatchesUp
    <2>1. /\ r.on = ruleOn
          /\ ruleOn => r.ran
          /\ r.ran /\ ~sticky => r.found = there
          /\ ruleOn /\ sticky => r.found
          /\ r.found => r.at = Newest /\ r.prev = n /\ r.ran
          /\ r.was = Row(r.prev)
          /\ LastRow.state = "open" \/ LastRow.quiet => r.prev = n
          /\ r.prev \in 0 .. n
      BY ApplyingIs
    <2>2. r.prev = n => r.was = LastRow
      BY <1>1, <2>1 DEF LastRow
    <2>3. CASE n = 0
      <3>1. LastRow = NoAnomaly /\ r.prev = 0
        BY <1>1, <2>1, <2>3, LastRowIs
      <3>2. ~Open(r) /\ LastRow.state # "open" /\ ~LastRow.quiet
        BY <2>2, <2>3, <3>1 DEF Open, NoAnomaly
      <3>3. ~r.found
        BY <3>1, <3>2 DEF Inserts
      <3> QED
        BY <2>1, <3>2, <3>3
    <2>4. CASE n # 0
      <3>1. LastRow = anomalies[n] /\ RowSound(n, LastRow) /\ LastRow \in Anomaly
        BY <1>1, <2>4, LastRowIs DEF RowsKept, RowsSound
      <3>2. LastRow.state = "open" => r.prev = n /\ Open(r) /\ r.was = LastRow
        BY <2>1, <2>2 DEF Open
      <3>3. r.prev = n => /\ ~(Refreshes(r) /\ LastRow.state = "open") /\ ~Touches(r)
                         /\ ~(Clears(r) /\ LastRow.state = "open") /\ ~MarksCleared(r)
        BY <2>4, <3>1
      <3>4. LastRow.state = "open" => ruleOn
        BY <2>1, <3>2, <3>3 DEF Clears
      <3>5. ruleOn /\ ~sticky => ~(LastRow.state = "open")
        BY <2>1, <3>2, <3>3 DEF Clears, Refreshes
      <3>6. ruleOn /\ ~sticky => ~LastRow.quiet
        BY <2>1, <2>2, <3>3 DEF Touches, MarksCleared
      <3>7. ruleOn /\ ~sticky => ~r.found
        BY <2>1, <2>2, <3>5, <3>6 DEF Inserts, Open
      <3>8. ASSUME ruleOn, sticky
            PROVE  LastRow.at = Newest
        <4>1. r.found /\ r.prev = n /\ r.was = LastRow /\ r.at = Newest
          BY <2>1, <2>2, <3>8
        <4>2. ~newer(r)
          BY <2>4, <3>3, <3>8, <4>1 DEF Inserts, Refreshes, Open
        <4>3. Newest \in Nat /\ LastRow.at \in Nat /\ LastRow.at <= Newest
          BY <1>1, <3>1, NewestStays DEF RowSound
        <4>4. ~(Newest > LastRow.at)
          BY <3>8, <4>1, <4>2 DEF newer
        <4> QED
          BY <4>3, <4>4
      <3> QED
        BY <2>1, <3>4, <3>5, <3>6, <3>7, <3>8
    <2> QED
      BY <2>3, <2>4
  <1> QED
    BY <1>2, <1>4

(* It changes the row it goes by, which is the last one. *)
LEMMA ChangeKeeps ==
    ASSUME NEW r, NEW n, Applying(r, n), ~Inserts(r), r.prev # 0,
           NEW row, row = anomalies[r.prev], NEW new, anomalies' = [anomalies EXCEPT ![r.prev] = new],
           \/ Refreshed(r, row, new) \/ Touched(r, row, new) \/ ClearedNow(r, row, new) \/ Marked(r, row, new)
    PROVE  anomalies' \in Seq(Anomaly) /\ RowsKept' /\ CatchesUp'
  <1>1. /\ UNCHANGED <<sticky, there, times>> /\ ruleOn' = ruleOn /\ RowsKept /\ OpsType /\ Reported
        /\ n \in Nat /\ n = Len(anomalies) /\ r.prev \in 1 .. n /\ r.at \in Nat /\ r.on \in BOOLEAN
        /\ sticky \in BOOLEAN
    BY ApplyingIs
  <1>2. row \in Anomaly /\ RowSound(r.prev, row)
    BY <1>1, LastRowIs DEF RowsKept, RowsSound
  <1>3. Stale(r.was, row) /\ (r.was.quiet => r.was.state # "open")
    BY ApplyingIs
  <1>4. (row.state = "open" \/ r.was.quiet => r.was = row) /\ (row.quiet => row.state = "dismissed")
    BY <1>2, <1>3 DEF Stale, RowSound
  <1>5. row.state = "open" \/ row.quiet
    <2>1. CASE Refreshed(r, row, new) \/ ClearedNow(r, row, new)
      BY <2>1 DEF Refreshed, ClearedNow
    <2>2. CASE Touched(r, row, new) \/ Marked(r, row, new)
      <3>1. r.was.quiet
        BY <2>2 DEF Touched, Touches, Marked, MarksCleared
      <3> QED
        BY <1>4, <3>1
    <2> QED
      BY <2>1, <2>2
  <1>6. r.prev = n /\ n \in Nat \ {0}
    <2>1. r.prev \in 1 .. n /\ n \in Nat /\ n = Len(anomalies)
      BY <1>1
    <2>2. r.prev = Len(anomalies)
      BY ONLY <1>2, <1>5 DEF RowSound, Anomaly
    <2> QED
      BY <2>1, <2>2
  <1>7. row = LastRow /\ row.at \in Nat /\ row.occurrences \in Nat
    <2>1. LastRow = anomalies[n]
      BY ONLY <1>1, <1>6, LastRowIs
    <2>2. row.at \in Nat /\ row.occurrences \in Nat
      BY ONLY <1>2 DEF Anomaly
    <2> QED
      BY <1>6, <2>1, <2>2
  <1>8. ASSUME new \in Anomaly, RowSound(n, new), new.first = row.first,
               ~sticky /\ Over(new) /\ there => new.at < Newest,
               sticky => \/ new.occurrences = row.occurrences /\ new.at = row.at
                         \/ new.occurrences = row.occurrences + 1 /\ row.at < new.at
        PROVE  anomalies' \in Seq(Anomaly) /\ RowsKept' /\ LastRow' = new
    <2>1. anomalies' = [anomalies EXCEPT ![n] = new]
      BY <1>6
    <2> QED
      BY <1>1, <1>6, <1>7, <1>8, <2>1, LastAltered
  <1>9. ASSUME LastRow' = new,
               caughtUp' => /\ new.state = "open" => ruleOn
                            /\ (ruleOn /\ ~sticky) => (there <=> new.state = "open" \/ new.quiet)
                            /\ (ruleOn /\ sticky) => new.at = Newest
        PROVE  CatchesUp'
    <2>1. Newest' = Newest
      BY <1>1 DEF Newest
    <2> QED
      BY <1>1, <1>9, <2>1 DEF CatchesUp
  <1>10. caughtUp' => /\ r.on = ruleOn
                      /\ ruleOn => r.ran
                      /\ r.ran /\ ~sticky => r.found = there
                      /\ ruleOn /\ sticky => r.found
                      /\ r.found => r.at = Newest
    BY ApplyingIs
  <1>11. (r.found => r.ran /\ r.at \in times) /\ (r.ran => r.on)
    BY ApplyingIs
  <1>12. CASE Refreshed(r, row, new)
    <2>1. /\ r.found /\ row.state = "open" /\ r.was = row /\ (sticky => r.at > row.at)
          /\ new = [row EXCEPT !.at = r.at, !.occurrences = row.occurrences + (IF sticky THEN 1 ELSE 0)]
      BY <1>4, <1>12 DEF Refreshed, Refreshes, newer
    <2>2. /\ new \in Anomaly /\ new.state = "open" /\ new.quiet = row.quiet /\ new.from = row.from
          /\ new.first = row.first /\ new.at = r.at /\ new.why = row.why
          /\ new.occurrences = row.occurrences + (IF sticky THEN 1 ELSE 0)
      <3>1. PICK occ \in Nat : occ = row.occurrences + (IF sticky THEN 1 ELSE 0)
        BY <1>1, <1>7
      <3>2. new = [row EXCEPT !.at = r.at, !.occurrences = occ]
        BY <2>1, <3>1
      <3> QED
        BY <1>1, <1>2, <2>1, <3>1, <3>2 DEF Anomaly
    <2>3. RowSound(n, new) /\ ~Over(new)
      BY <1>2, <1>6, <1>11, <2>1, <2>2 DEF RowSound, Over
    <2>4. sticky => new.occurrences = row.occurrences + 1 /\ row.at < new.at
      BY <1>1, <1>7, <2>1, <2>2
    <2>5. anomalies' \in Seq(Anomaly) /\ RowsKept' /\ LastRow' = new
      BY <1>8, <2>2, <2>3, <2>4
    <2>6. CatchesUp'
      BY <1>9, <1>10, <1>11, <2>1, <2>2, <2>5
    <2> QED
      BY <2>5, <2>6
  <1>13. CASE Touched(r, row, new)
    <2>1. r.found /\ ~sticky /\ r.was = row /\ row.quiet /\ new = [row EXCEPT !.at = r.at]
      BY <1>4, <1>13 DEF Touched, Touches
    <2>2. /\ new \in Anomaly /\ new.state = row.state /\ new.quiet = row.quiet /\ new.from = row.from
          /\ new.first = row.first /\ new.at = r.at /\ new.why = row.why
      BY <1>1, <1>2, <2>1 DEF Anomaly
    <2>3. RowSound(n, new)
      BY <1>2, <1>6, <1>11, <2>1, <2>2 DEF RowSound
    <2>4. there /\ Over(new) => new.at < Newest
      <3>1. ~Over(row) \/ row.why = "not_found"
        BY <2>1 DEF Over
      <3>2. Over(new) => Over(row)
        BY <2>2 DEF Over
      <3>3. Over(row) => row.at < r.at
        BY <1>1, <1>6, <1>7, <2>1 DEF Applying, Facts
      <3>4. ~Over(row)
        BY <1>2, <1>3, <1>4, <2>1, <3>1 DEF RowSound, Over
      <3> QED
        BY <3>2, <3>4
    <2>5. anomalies' \in Seq(Anomaly) /\ RowsKept' /\ LastRow' = new
      BY <1>8, <2>1, <2>2, <2>3, <2>4
    <2>6. CatchesUp'
      BY <1>4, <1>9, <1>10, <1>11, <2>1, <2>2, <2>5
    <2> QED
      BY <2>5, <2>6
  <1>14. CASE ClearedNow(r, row, new)
    <2>1. /\ r.was = row /\ row.state = "open" /\ (~r.on \/ (r.ran /\ ~r.found /\ ~sticky))
          /\ new = [row EXCEPT !.state = "cleared", !.why = IF r.on THEN "not_found" ELSE "rule_disabled"]
      BY <1>4, <1>14 DEF ClearedNow, Clears
    <2>2. /\ new \in Anomaly /\ new.state = "cleared" /\ new.quiet = row.quiet /\ new.from = row.from
          /\ new.first = row.first /\ new.at = row.at /\ new.occurrences = row.occurrences
          /\ new.why = IF r.on THEN "not_found" ELSE "rule_disabled"
      BY <1>1, <1>2, <2>1 DEF Anomaly, States, Causes
    <2>3. ~row.quiet
      BY <1>4, <2>1
    <2>4. RowSound(n, new)
      BY <1>2, <1>6, <2>2, <2>3 DEF RowSound
    <2>5. ~sticky /\ Over(new) /\ there => new.at < Newest
      <3>1. Over(new) => r.on
        BY <1>1, <2>2 DEF Over
      <3>2. ~sticky /\ r.ran /\ ~r.found /\ there => row.at < Newest
        BY <1>1, <1>6, <1>7, LastRowIs DEF Applying, Facts
      <3> QED
        BY <2>1, <2>2, <3>1, <3>2
    <2>6. anomalies' \in Seq(Anomaly) /\ RowsKept' /\ LastRow' = new
      BY <1>8, <2>2, <2>4, <2>5
    <2>7. CatchesUp'
      <3>1. new.state # "open" /\ ~new.quiet
        BY <2>2, <2>3
      <3>2. caughtUp' /\ ruleOn => ~sticky /\ ~there
        BY <1>1, <1>10, <2>1
      <3> QED
        BY <1>9, <2>6, <3>1, <3>2
    <2> QED
      BY <2>6, <2>7
  <1>15. CASE Marked(r, row, new)
    <2>1. r.ran /\ ~r.found /\ ~sticky /\ r.was = row /\ row.quiet /\ new = [row EXCEPT !.quiet = FALSE]
      BY <1>4, <1>15 DEF Marked, MarksCleared
    <2>2. /\ new \in Anomaly /\ new.state = row.state /\ new.quiet = FALSE /\ new.from = row.from
          /\ new.first = row.first /\ new.at = row.at /\ new.occurrences = row.occurrences
          /\ new.why = row.why
      BY <1>1, <1>2, <2>1 DEF Anomaly
    <2>3. RowSound(n, new)
      BY <1>2, <1>6, <2>1, <2>2 DEF RowSound
    <2>4. there => new.at < Newest
      BY <1>1, <1>6, <1>7, <2>1, <2>2, LastRowIs DEF Applying, Facts
    <2>5. anomalies' \in Seq(Anomaly) /\ RowsKept' /\ LastRow' = new
      BY <1>8, <2>1, <2>2, <2>3, <2>4
    <2>6. CatchesUp'
      <3>1. new.state # "open" /\ ~new.quiet
        BY <1>4, <2>1, <2>2
      <3>2. caughtUp' => ~there
        BY <1>1, <1>10, <2>1
      <3> QED
        BY <1>9, <2>1, <2>5, <3>1, <3>2
    <2> QED
      BY <2>5, <2>6
  <1> QED
    BY <1>12, <1>13, <1>14, <1>15

(* A run applies what it found, whatever happened since. *)
LEMMA ApplyKeeps ==
    ASSUME AnomalyInv, NEW e \in Engine, apply(e)
    PROVE  AnomalyInv'
  <1>1. PICK r \in RunOfRules : r = opsRun[e]
    BY DEF AnomalyInv, OpsType
  <1>2. PICK n \in Nat : n = Len(anomalies)
    BY LastRowIs DEF AnomalyInv
  <1>3. /\ r.pc = "loaded" /\ opsRun' = [opsRun EXCEPT ![e] = NotRunning]
        /\ anomalies' = IF Inserts(r) THEN Inserted(r)
                        ELSE [i \in DOMAIN anomalies |->
                                IF i = r.prev THEN Changed(r, anomalies[i]) ELSE anomalies[i]]
        /\ caughtUp' = (r.calm /\ (r.on => r.ran) /\ (sticky => r.found \/ ~r.on))
        /\ UNCHANGED <<sticky, there, times, ruleOn>>
    BY <1>1 DEF apply
  <1>4. Applying(r, n)
    <2>1. Facts(r) /\ Knows(r) /\ (r.calm => Calm(r))
      BY <1>1, <1>3 DEF AnomalyInv, RunsSound
    <2>2. OpsType /\ RowsKept /\ Reported
      BY DEF AnomalyInv, RowsKept
    <2> QED
      BY <1>2, <1>3, <2>1, <2>2 DEF Applying
  <1>5. anomalies' \in Seq(Anomaly) /\ RowsKept' /\ CatchesUp'
    <2>1. CASE Inserts(r)
      BY <1>3, <1>4, <2>1, InsertKeeps
    <2>2. CASE ~Inserts(r)
      <3>1. anomalies \in Seq(Anomaly) /\ DOMAIN anomalies = 1 .. n /\ r.prev \in 0 .. n
        BY <1>2, <1>4, ApplyingIs, LastRowIs DEF OpsType
      <3>2. anomalies = [i \in 1 .. n |-> anomalies[i]]
        BY <1>2, <3>1
      <3>3. CASE r.prev = 0
        <4>1. anomalies' = anomalies
          BY <1>3, <2>2, <3>1, <3>2, <3>3
        <4> QED
          BY <1>4, <2>2, <3>1, <3>3, <4>1, NothingKeeps
      <3>4. CASE r.prev # 0
        <4>1. PICK row : row = anomalies[r.prev]
          OBVIOUS
        <4>2. PICK new : new = Changed(r, row)
          OBVIOUS
        <4>3. anomalies' = [anomalies EXCEPT ![r.prev] = new]
          BY <1>3, <2>2, <3>1, <3>2, <4>1, <4>2
        <4>4. CASE \/ Refreshed(r, row, new) \/ Touched(r, row, new)
                   \/ ClearedNow(r, row, new) \/ Marked(r, row, new)
          BY <1>4, <2>2, <3>4, <4>1, <4>3, <4>4, ChangeKeeps
        <4>5. CASE /\ new = row
                   /\ ~(Refreshes(r) /\ row.state = "open") /\ ~Touches(r)
                   /\ ~(Clears(r) /\ row.state = "open") /\ ~MarksCleared(r)
          <5>1. anomalies' = anomalies
            BY <3>1, <3>2, <4>1, <4>3, <4>5
          <5> QED
            BY <1>4, <2>2, <3>1, <4>1, <4>5, <5>1, NothingKeeps
        <4> QED
          BY <1>4, <4>2, <4>4, <4>5, ChangedIs
      <3> QED
        BY <3>3, <3>4
    <2> QED
      BY <2>1, <2>2
  <1>6. \A f \in Engine : opsRun'[f].pc = "idle"
    <2>1. \A f \in Engine \ {e} : opsRun[f].pc = "idle"
      BY <1>1, <1>3, OthersIdle DEF AnomalyInv
    <2> QED
      BY <1>3, <2>1, IdleRun DEF AnomalyInv, OpsType
  <1>7. OneRun' /\ RunsSound'
    BY <1>6 DEF OneRun, RunsSound
  <1>8. OpsType'
    <2>1. opsRun' \in [Engine -> RunOfRules]
      BY <1>3, IdleRun DEF AnomalyInv, OpsType
    <2>2. caughtUp' \in BOOLEAN
      BY <1>3, <1>4, ApplyingIs DEF RunOfRules
    <2> QED
      BY <1>3, <1>5, <2>1, <2>2 DEF AnomalyInv, OpsType
  <1>9. Reported'
    BY <1>3 DEF AnomalyInv, Reported
  <1> QED
    BY <1>5, <1>7, <1>8, <1>9 DEF AnomalyInv, RowsKept

-----------------------------------------------------------------------------
(* The invariant holds when nothing has happened. *)
LEMMA AnomalyInit == OpsInit => AnomalyInv
  <1> SUFFICES ASSUME OpsInit PROVE AnomalyInv
    OBVIOUS
  <1>1. OpsType
    <2>1. opsRun \in [Engine -> RunOfRules]
      BY IdleRun DEF OpsInit
    <2>2. anomalies \in Seq(Anomaly)
      BY DEF OpsInit
    <2> QED
      BY <2>1, <2>2 DEF OpsInit, OpsType
  <1>2. Len(anomalies) = 0 /\ times = {} /\ ~there /\ ~caughtUp /\ \A e \in Engine : opsRun[e].pc = "idle"
    BY IdleRun DEF OpsInit
  <1>3. RowsSound /\ Reported /\ IsOver /\ ReportedOnce /\ Apart
    BY <1>2 DEF RowsSound, Reported, IsOver, ReportedOnce, Apart
  <1>4. OneRun /\ RunsSound /\ CatchesUp
    BY <1>2 DEF OneRun, RunsSound, CatchesUp
  <1>5. Counts
    <2>1. 1 .. Len(anomalies) = {}
      BY <1>2
    <2>2. SumOver(Occurrences, {}) = 0
      BY SumOfNothing
    <2>3. UpTo(LastRow.at) = {}
      BY <1>2 DEF UpTo
    <2>4. Cardinality({}) = 0
      BY FS_EmptySet
    <2> QED
      BY <2>1, <2>2, <2>3, <2>4 DEF Counts
  <1> QED
    BY <1>1, <1>3, <1>4, <1>5 DEF AnomalyInv

(* Whatever a run, a person or the problem does next keeps the invariant. *)
LEMMA AnomalyStep == AnomalyInv /\ [OpsNext]_opsVars => AnomalyInv'
  <1> SUFFICES ASSUME AnomalyInv, [OpsNext]_opsVars PROVE AnomalyInv'
    OBVIOUS
  <1>1. CASE ConditionBegins \/ ConditionEnds \/ EventHappens \/ SwitchRule
    BY <1>1, ProblemKeeps
  <1>2. CASE \E resolution \in {"fixed", "dismissed"} : resolveAnomaly(resolution)
    BY <1>2, ResolveKeeps
  <1>3. ASSUME NEW e \in Engine, runLocked(e) \/ Gather(e) \/ loadExisting(e) \/ apply(e) \/ RunDies(e)
        PROVE  AnomalyInv'
    BY <1>3, LockKeeps, GatherKeeps, LoadKeeps, ApplyKeeps, DeathKeeps
  <1>4. CASE UNCHANGED opsVars
    <2>1. OpsType' /\ Reported' /\ OneRun'
      BY <1>4 DEF opsVars, AnomalyInv, OpsType, Reported, OneRun
    <2>2. RowsSound' /\ IsOver' /\ ReportedOnce' /\ Apart'
      BY <1>4 DEF opsVars, AnomalyInv, RowsSound, RowSound, IsOver, Over, Newest, ReportedOnce, Apart
    <2>3. Counts' /\ CatchesUp'
      BY <1>4 DEF opsVars, AnomalyInv, Counts, Occurrences, UpTo, LastRow, Row, CatchesUp, Newest
    <2>4. RunsSound'
      BY <1>4 DEF opsVars, AnomalyInv, RunsSound, Facts, Knows, Calm, Over, Stale, LastRow, Row, Newest
    <2> QED
      BY <2>1, <2>2, <2>3, <2>4 DEF AnomalyInv
  <1> QED
    BY <1>1, <1>2, <1>3, <1>4 DEF OpsNext

(* reconcile.ts, engine.ts: the rows, the runs and what is on file stay as the invariant
   says, however the steps of runs, people and the problem mix. *)
THEOREM AnomalyInvariant == OpsSpec => []AnomalyInv
  BY AnomalyInit, AnomalyStep, PTL DEF OpsSpec

(* The invariant says what the runs check. *)
LEMMA SoundFromInvariant == AnomalyInv => AnomaliesSound
  <1> SUFFICES ASSUME AnomalyInv PROVE AnomaliesSound
    OBVIOUS
  <1>1. PICK n \in Nat : n = Len(anomalies) /\ DOMAIN anomalies = 1 .. n
    BY LastRowIs DEF AnomalyInv
  <1>2. OpsType
    BY DEF AnomalyInv
  <1>3. AnomalyTypeOK
    <2>1. \A i \in 1 .. n :
            /\ anomalies[i].state \in {"open", "fixed", "dismissed", "cleared"}
            /\ anomalies[i].first \in times /\ anomalies[i].at \in times
            /\ anomalies[i].quiet => anomalies[i].state = "dismissed"
      BY <1>1, <1>2, LastRowIs DEF AnomalyInv, RowsSound, RowSound, Anomaly, States
    <2>2. \A e \in Engine : opsRun[e].pc \in {"idle", "started", "gathered", "loaded"}
      BY <1>2 DEF OpsType, RunOfRules
    <2> QED
      BY <1>1, <1>2, <2>1, <2>2 DEF AnomalyTypeOK, OpsType
  <1>4. OneHistory
    BY <1>1 DEF AnomalyInv, OneHistory, RowsSound, RowSound
  <1>5. EventsCountOnce
    <2>1. ASSUME sticky
          PROVE  MapThenSumSet(LAMBDA i : Occurrences[i], DOMAIN anomalies) <= Cardinality(times)
      <3>1. PICK sum \in Int : sum = SumOver(Occurrences, DOMAIN anomalies)
        <4>1. PICK S : S = 1 .. n
          OBVIOUS
        <4>2. IsFiniteSet(S) /\ \A k \in S : Occurrences[k] \in Int
          <5>1. \A k \in 1 .. n : anomalies[k].occurrences \in Int
            BY <1>1, <1>2, LastRowIs DEF Anomaly
          <5> QED
            BY <1>1, <4>1, <5>1, FS_Interval DEF Occurrences
        <4>3. SumOver(Occurrences, S) \in Int
          BY ONLY <4>2, SumIsInt
        <4> QED
          BY <1>1, <4>1, <4>3
      <3>2. PICK a \in Nat : a = LastRow.at
        BY <1>2, LastRowIs DEF Anomaly
      <3>3. sum <= Cardinality({x \in times : x <= a})
        BY <2>1, <3>1, <3>2 DEF AnomalyInv, Counts, UpTo
      <3>4. /\ Cardinality({x \in times : x <= a}) <= Cardinality(times)
            /\ Cardinality({x \in times : x <= a}) \in Nat /\ Cardinality(times) \in Nat
        <4>1. IsFiniteSet(times)
          BY <1>2, NewestIs DEF OpsType
        <4>2. PICK T : T = {x \in times : x <= a}
          OBVIOUS
        <4>3. T \subseteq times
          BY <4>2
        <4>4. IsFiniteSet(T) /\ Cardinality(T) <= Cardinality(times)
          BY ONLY <4>1, <4>3, FS_Subset
        <4> QED
          BY <4>1, <4>2, <4>4, FS_CardinalityType
      <3>5. sum <= Cardinality(times)
        BY <3>3, <3>4
      <3> QED
        BY <3>1, <3>5 DEF SumOver
    <2> QED
      BY <2>1 DEF AnomalyInv, Apart, EventsCountOnce
  <1> QED
    BY <1>3, <1>4, <1>5 DEF AnomalyInv, AnomaliesSound

(* The rows of a problem are one history, nothing dismissed or gone is reported again
   until it came back, no event is counted twice, and a run that nothing crossed catches
   up, for any number of engines, times and rows. *)
THEOREM AnomaliesStaySound == OpsSpec => []AnomaliesSound
  BY AnomalyInvariant, SoundFromInvariant, PTL

=============================================================================
