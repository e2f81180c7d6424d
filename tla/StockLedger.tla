------------------------------ MODULE StockLedger ------------------------------
(***************************************************************************)
(* Supplies: what lies on each shelf, the movements that got it there, and *)
(* what each crew has outstanding.                                         *)
(*                                                                         *)
(* A clerk's request runs in a transaction.  It takes the lock on a crew's *)
(* balance, then the levels it changes one row at a time, and the others   *)
(* see nothing of it until it commits.                                     *)
(***************************************************************************)
EXTENDS Integers, Sequences, FiniteSets

CONSTANTS
    Clerk,       \* requests at a time
    Place,       \* <<supply, shelf>>: numbers, for rows are locked in their order
    Crew,
    NoCrew,
    MaxQty,      \* bound: the quantity of one movement
    MaxAsked     \* bound: requests and deletions

ASSUME StockAssumption ==
    /\ Place \subseteq Nat \X (Nat \ {0})
    /\ IsFiniteSet(Clerk) /\ IsFiniteSet(Place)
    /\ Crew \cap Nat = {}
    /\ NoCrew \notin Crew
    /\ MaxQty \in Nat \ {0} /\ MaxAsked \in Nat

VARIABLES
    shelves,      \* locations and crews there are
    crews,
    level,        \* [Place -> quantity]: stock_levels
    moved,        \* [Place -> quantity]: what the movements brought less what they took
    outstanding,  \* [<<supply, crew>> -> quantity]: the sum of holder_delta
    work,         \* [Clerk -> its transaction]
    asked         \* counts what MaxAsked bounds

stockVars == <<shelves, crews, level, moved, outstanding, work, asked>>

Supply == {p[1] : p \in Place}
Shelf == {p[2] : p \in Place}
NoShelf == 0
Balance == Supply \X Crew
Reasons == {"receive", "issue", "return", "consume", "transfer", "adjust", "count"}

Zero == [p \in Place |-> 0]
Plus(f, g) == [p \in Place |-> f[p] + g[p]]
At(s, shelf, qty) == [p \in Place |-> IF p = <<s, shelf>> THEN qty ELSE 0]

NoPlan == [qty |-> 0, from |-> NoShelf, to |-> NoShelf, holderDelta |-> 0, levelChanges |-> <<>>]
NoWork == [phase |-> "idle", lines |-> <<>>, plan |-> NoPlan, holds |-> {},
           delta |-> Zero, moved |-> Zero]

StockInit ==
    /\ shelves = Shelf
    /\ crews = Crew
    /\ level = Zero
    /\ moved = Zero
    /\ outstanding = [b \in Balance |-> 0]
    /\ work = [c \in Clerk |-> NoWork]
    /\ asked = 0

-----------------------------------------------------------------------------
(* What a movement does *)

Leaves(m) == [at |-> m.shelf, by |-> -m.qty]
Comes(m) == [at |-> m.shelf, by |-> m.qty]

(* An adjustment or a count: the sign says which way. *)
Signed(shelf, by) ==
    [NoPlan EXCEPT !.qty = IF by < 0 THEN -by ELSE by,
                   !.from = IF by < 0 THEN shelf ELSE NoShelf,
                   !.to = IF by < 0 THEN NoShelf ELSE shelf,
                   !.levelChanges = IF by = 0 THEN <<>> ELSE <<[at |-> shelf, by |-> by]>>]

(* Rows are locked in location order. *)
InOrder(a, b) == IF a.at < b.at THEN <<a, b>> ELSE <<b, a>>

planMovement(m, expectedQty) ==
    LET plan == [NoPlan EXCEPT !.qty = m.qty]
    IN CASE m.reason = "receive" ->
              [plan EXCEPT !.to = m.shelf, !.levelChanges = <<Comes(m)>>]
         [] m.reason = "issue" ->
              [plan EXCEPT !.from = m.shelf, !.holderDelta = m.qty, !.levelChanges = <<Leaves(m)>>]
         [] m.reason = "return" ->
              [plan EXCEPT !.to = m.shelf, !.holderDelta = -m.qty, !.levelChanges = <<Comes(m)>>]
         [] m.reason = "consume" /\ m.shelf # NoShelf ->
              [plan EXCEPT !.from = m.shelf, !.levelChanges = <<Leaves(m)>>]
         [] m.reason = "consume" /\ m.shelf = NoShelf ->
              [plan EXCEPT !.holderDelta = -m.qty]
         [] m.reason = "transfer" ->
              [plan EXCEPT !.from = m.shelf, !.to = m.dest,
                           !.levelChanges = InOrder(Leaves(m), [at |-> m.dest, by |-> m.qty])]
         [] m.reason = "adjust" -> Signed(m.shelf, m.qty)
         [] m.reason = "count" -> Signed(m.shelf, m.qty - expectedQty)

-----------------------------------------------------------------------------
(* Requests *)

Qty == 1 .. MaxQty

Asks(reason, p, crew, qty) ==
    [reason |-> reason, supply |-> p[1], shelf |-> p[2], dest |-> NoShelf, crew |-> crew, qty |-> qty]

Requests ==
    {Asks(r, p, NoCrew, q) : r \in {"receive", "consume"}, p \in Place, q \in Qty}
    \cup {Asks(r, p, k, q) : r \in {"issue", "return"}, p \in Place, k \in Crew, q \in Qty}
    \cup {Asks("consume", <<s, NoShelf>>, k, q) : s \in Supply, k \in Crew, q \in Qty}
    \cup {[Asks("transfer", p, NoCrew, q) EXCEPT !.dest = d] :
             p \in Place, q \in Qty, d \in Shelf}
    \cup {Asks("adjust", p, NoCrew, q) : p \in Place, q \in {x \in -MaxQty .. MaxQty : x # 0}}
    \cup {Asks("count", p, NoCrew, q) : p \in Place, q \in 0 .. MaxQty}

(* The location and the crew are looked up before the transaction. *)
Accepted(m) ==
    /\ {m.shelf, m.dest} \subseteq shelves \cup {NoShelf}
    /\ m.crew \in crews \cup {NoCrew}
    /\ m.reason = "transfer" => m.dest # m.shelf /\ <<m.supply, m.dest>> \in Place

Planned(w, plan) ==
    [w EXCEPT !.plan = plan, !.phase = IF plan.holderDelta < 0 THEN "balance" ELSE "levels"]

Current(c) == Head(work[c].lines)

Asked == asked < MaxAsked /\ asked' = asked + 1

(* A count needs the level before it can plan. *)
Begins(c, lines) ==
    /\ Asked
    /\ work' = [work EXCEPT ![c] =
                  LET w == [NoWork EXCEPT !.lines = lines]
                  IN IF lines[1].reason = "count" THEN [w EXCEPT !.phase = "count"]
                     ELSE Planned(w, planMovement(lines[1], 0))]
    /\ UNCHANGED <<shelves, crews, level, moved, outstanding>>

recordMovement(c) ==
    /\ work[c].phase = "idle"
    /\ \E m \in Requests :
        /\ Accepted(m)
        /\ Begins(c, <<m>>)

Ascending(S) == {order \in [1 .. Cardinality(S) -> S] :
                   \A i, j \in 1 .. Cardinality(S) : i < j => order[i] < order[j]}

(* A cycle count of a shelf: its lines are taken in the order of the supplies. *)
recordCount(c) ==
    /\ work[c].phase = "idle"
    /\ \E shelf \in shelves, found \in [Supply -> 0 .. MaxQty] :
        \E listed \in SUBSET {s \in Supply : <<s, shelf>> \in Place} :
            /\ Cardinality(listed) > 1
            /\ \E order \in Ascending(listed) :
                  Begins(c, [i \in 1 .. Cardinality(listed) |->
                               [reason |-> "count", supply |-> order[i], shelf |-> shelf,
                                dest |-> NoShelf, crew |-> NoCrew, qty |-> found[order[i]]]])

-----------------------------------------------------------------------------
(* The transaction *)

Free(c, lock) == \A d \in Clerk \ {c} : lock \notin work[d].holds

(* Mutant: the level is read without its lock. *)
lockLevelUnlocked(c) ==
    /\ work[c].phase = "count"
    /\ LET m == Current(c)
       IN work' = [work EXCEPT ![c] = Planned(work[c], planMovement(m, level[m.supply, m.shelf]))]
    /\ UNCHANGED <<shelves, crews, level, moved, outstanding, asked>>

(* Holding one lock more. *)
Locked(w, lock) == [w EXCEPT !.holds = w.holds \cup {lock}]

lockLevel(c) ==
    /\ work[c].phase = "count"
    /\ LET m == Current(c)
           p == <<m.supply, m.shelf>>
       IN /\ Free(c, p)
          /\ m.shelf \in shelves
          /\ work' = [work EXCEPT ![c] = Planned(Locked(work[c], p), planMovement(m, level[p]))]
    /\ UNCHANGED <<shelves, crews, level, moved, outstanding, asked>>

lockHolderBalance(c) ==
    /\ work[c].phase = "balance"
    /\ LET b == <<Current(c).supply, Current(c).crew>>
       IN /\ Free(c, b)
          /\ outstanding[b] + work[c].plan.holderDelta >= 0
          /\ work' = [work EXCEPT ![c] = [Locked(work[c], b) EXCEPT !.phase = "levels"]]
    /\ UNCHANGED <<shelves, crews, level, moved, outstanding, asked>>

NextChange(c) == Head(work[c].plan.levelChanges)

(* Mutant: the guard of the UPDATE is left to the screen. *)
MayTakeUnguarded(c, p, by) == TRUE

(* Only an adjustment may take a level below zero. *)
MayTake(c, p, by) == by > 0 \/ Current(c).reason = "adjust" \/ level[p] + by >= 0

Drawn(w, p, by) ==
    [Locked(w, p) EXCEPT !.plan.levelChanges = Tail(w.plan.levelChanges),
                         !.delta = Plus(w.delta, At(p[1], p[2], by))]

(* One level of the plan: its row is locked, and the guard looks at it then. *)
TakeLevel(c) ==
    /\ work[c].phase = "levels"
    /\ work[c].plan.levelChanges # <<>>
    /\ LET by == NextChange(c).by
           p == <<Current(c).supply, NextChange(c).at>>
       IN /\ Free(c, p)
          /\ p[2] \in shelves
          /\ MayTake(c, p, by)
          /\ work' = [work EXCEPT ![c] = Drawn(work[c], p, by)]
    /\ UNCHANGED <<shelves, crews, level, moved, outstanding, asked>>

(* The movement's row: what left, and what arrived. *)
RowMoves(w) ==
    LET s == Head(w.lines).supply
    IN Plus(w.moved, Plus(At(s, w.plan.to, w.plan.qty), At(s, w.plan.from, -w.plan.qty)))

LevelsTaken(c) == work[c].phase = "levels" /\ work[c].plan.levelChanges = <<>>

(* The next line of a count. *)
NextLine(c) ==
    /\ LevelsTaken(c)
    /\ Len(work[c].lines) > 1
    /\ work' = [work EXCEPT ![c] =
                  [work[c] EXCEPT !.phase = "count", !.lines = Tail(work[c].lines), !.plan = NoPlan,
                                  !.moved = RowMoves(work[c])]]
    /\ UNCHANGED <<shelves, crews, level, moved, outstanding, asked>>

Commit(c) ==
    LET m == Current(c)
    IN /\ LevelsTaken(c)
       /\ Len(work[c].lines) = 1
       /\ m.crew \in crews \cup {NoCrew}
       /\ level' = Plus(level, work[c].delta)
       /\ moved' = Plus(moved, RowMoves(work[c]))
       /\ outstanding' = [b \in Balance |->
                            outstanding[b] + IF b = <<m.supply, m.crew>> THEN work[c].plan.holderDelta ELSE 0]
       /\ work' = [work EXCEPT ![c] = NoWork]
       /\ UNCHANGED <<shelves, crews, asked>>

(* Refused at any of these, or the connection is lost: nothing happened. *)
Rollback(c) ==
    /\ work[c].phase # "idle"
    /\ work' = [work EXCEPT ![c] = NoWork]
    /\ UNCHANGED <<shelves, crews, level, moved, outstanding, asked>>

-----------------------------------------------------------------------------
(* Deletions: a location takes its levels along, and a movement forgets a location or a
   crew that is gone.  One step each, when the locks of their cascades are free; the order
   in which a cascade takes them is not modelled. *)

deleteLocation(shelf) ==
    /\ Asked
    /\ shelf \in shelves
    /\ \A s \in Supply, c \in Clerk : <<s, shelf>> \notin work[c].holds
    /\ shelves' = shelves \ {shelf}
    /\ level' = [p \in Place |-> IF p[2] = shelf THEN 0 ELSE level[p]]
    /\ moved' = [p \in Place |-> IF p[2] = shelf THEN 0 ELSE moved[p]]
    /\ UNCHANGED <<crews, outstanding, work>>

deleteEntity(crew) ==
    /\ Asked
    /\ crew \in crews
    /\ crews' = crews \ {crew}
    /\ outstanding' = [b \in Balance |-> IF b[2] = crew THEN 0 ELSE outstanding[b]]
    /\ UNCHANGED <<shelves, level, moved, work>>

-----------------------------------------------------------------------------
StockNext ==
    \/ \E c \in Clerk :
          \/ recordMovement(c) \/ recordCount(c)
          \/ lockLevel(c) \/ lockHolderBalance(c) \/ TakeLevel(c) \/ NextLine(c)
          \/ Commit(c) \/ Rollback(c)
    \/ \E shelf \in Shelf : deleteLocation(shelf)
    \/ \E crew \in Crew : deleteEntity(crew)

StockSpec == StockInit /\ [][StockNext]_stockVars

-----------------------------------------------------------------------------
(* Properties *)

StockTypeOK ==
    /\ shelves \subseteq Shelf
    /\ crews \subseteq Crew
    /\ level \in [Place -> Int]
    /\ moved \in [Place -> Int]
    /\ outstanding \in [Balance -> Int]
    /\ \A c \in Clerk : work[c].phase \in {"idle", "count", "balance", "levels"}

(* stock.ts, checkIntegrity(): every level is what its movements say came in less what
   went out, whatever runs at once and wherever it stops. *)
LevelsAreMovements == level = moved

(* ledger.ts:57: only an administrator's adjustment takes a level below zero, or
   further below: two crews cannot both be issued the last box. *)
NeverOverdrawn ==
    [][\A p \in Place :
          level'[p] < level[p] /\ level'[p] < 0
          => \E c \in Clerk : work'[c] # work[c] /\ Current(c).reason = "adjust"]_stockVars

(* stock.ts:186: no crew brings back or uses up more than it was issued, two of its
   people returning the same box included. *)
NothingOwedTwice == \A b \in Balance : outstanding[b] >= 0

(* stock.ts:292: when a count commits, the level is what was counted, whoever moved
   some of it while the shelf was being counted. *)
CountFits ==
    \A c \in Clerk :
        LevelsTaken(c) /\ Current(c).reason = "count"
        => LET p == <<Current(c).supply, Current(c).shelf>>
           IN level[p] + work[c].delta[p] = Current(c).qty

(* The lock a transaction needs next. *)
Needs(c) ==
    CASE work[c].phase = "count" -> {<<Current(c).supply, Current(c).shelf>>}
      [] work[c].phase = "balance" -> {<<Current(c).supply, Current(c).crew>>}
      [] work[c].phase = "levels" /\ ~LevelsTaken(c) -> {<<Current(c).supply, NextChange(c).at>>}
      [] OTHER -> {}

(* stock.ts:216-217, 337: transfers in opposite directions, counts of one shelf and
   returns of one crew wait for each other, and never all for one another.  This is of
   clerks: a location's deletion locks its row and then, by cascade, its levels, and can
   meet a clerk who holds a level and needs the row for a movement (stock.ts:250).
   PostgreSQL then fails one of the two, here a Rollback or a deletion that does not
   happen. *)
NoStandoff ==
    \A S \in (SUBSET Clerk) \ {{}} :
        \E c \in S : \A d \in S \ {c} : Needs(c) \cap work[d].holds = {}

(* stock.ts, throughout: a movement moves what its row says, sees what is there when it
   takes it, and does not deadlock, however requests cross and wherever one stops. *)
StockSound ==
    /\ StockTypeOK
    /\ LevelsAreMovements
    /\ NothingOwedTwice
    /\ CountFits
    /\ NoStandoff
=============================================================================
