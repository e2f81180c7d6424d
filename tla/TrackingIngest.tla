--------------------------- MODULE TrackingIngest ---------------------------
(***************************************************************************)
(* Readers post batches of reads (tracking/ingest.ts): each batch stores   *)
(* its sightings, moves the asset's position forward in time and writes    *)
(* the zone changes, in one transaction.  Behind it a worker of placement  *)
(* (placement/readers.ts) follows the sightings by id, a moment late,      *)
(* because ids are handed out before a batch commits.  One asset is        *)
(* modelled, read once by each batch; reads of other assets do not touch   *)
(* its rows, and only take ids between.                                    *)
(***************************************************************************)
EXTENDS Naturals, Sequences, FiniteSets, FiniteSetsExt

CONSTANTS MaxBatches, \* bound: requests of readers, in the order they arrive
          Zone,       \* the zones readers put reads in
          MaxAt,      \* bound: times at which reads were observed
          MaxClock,   \* bound: moments that pass
          Settle,     \* moments the worker stays behind (2 seconds)
          PromptBy       \* moments within which a batch is prompt

ASSUME IngestAssumption ==
  /\ MaxBatches \in Nat /\ MaxAt \in Nat \ {0} /\ MaxClock \in Nat /\ PromptBy \in Nat /\ Settle \in Nat
  /\ 2 * PromptBy < Settle

VARIABLES time,       \* the database's clock
          batch,      \* each request: its read, receipt, id and how far it is
          ids,        \* the sequence of sighting ids: the last one handed out
          position,   \* asset_positions: [at, zone, entered]
          filed,      \* items.location_id
          moves,      \* the "moved" events, in the order they were committed
          readCursor, \* placement_cursors.last_id, or Unset
          run,        \* the worker's run, under its advisory lock
          started,    \* history: where the cursor started
          lookedAt,   \* history: the ids whose reads a run has fetched to apply
          byHand,     \* history: somebody has filed the item since its last applied move
          prompt      \* history: every batch committed soon after it was received

ivars == <<time, batch, ids, position, filed, moves, readCursor, run, started, lookedAt,
           byHand, prompt>>
asset == <<position, filed, moves, byHand>>
worker == <<readCursor, run, started, lookedAt>>

Batch == 1 .. MaxBatches
Elsewhere == "no known zone"     \* a fix outside every zone
NoFix == "no fix"                \* a read that does not say where
Reads == [at : 1 .. MaxAt, zone : Zone \cup {Elsewhere, NoFix}, files : BOOLEAN]

NotYet == [at |-> 0, zone |-> NoFix, files |-> FALSE]
NoPosition == [at |-> 0, zone |-> Elsewhere, entered |-> FALSE]
Unsent == [is |-> "unsent", read |-> NotYet, recv |-> 0, id |-> 0,
           pos |-> NoPosition, loc |-> Elsewhere]
Unset == MaxBatches + 1
NoRun == [is |-> "none", upto |-> 0]

IngestInit ==
  /\ time = 0 /\ batch = [b \in Batch |-> Unsent] /\ ids = 0
  /\ position = NoPosition
  /\ filed \in Zone /\ moves = <<>>
  /\ readCursor = Unset /\ run = NoRun /\ started = Unset /\ lookedAt = {}
  /\ byHand = TRUE /\ prompt = TRUE

TimePasses ==
  /\ time < MaxClock /\ time' = time + 1
  /\ UNCHANGED <<batch, ids, asset, worker, prompt>>

-----------------------------------------------------------------------------
(* recordSightings takes the time of receipt first.  Whether a read is     *)
(* suppressed as a repeat is left open: such a read is not received here.  *)
Receive(b) ==
  /\ batch[b].is = "unsent" /\ \A c \in 1 .. b - 1 : batch[c].is # "unsent"
  /\ \E r \in Reads :
       batch' = [batch EXCEPT ![b] = [@ EXCEPT !.is = "received", !.read = r, !.recv = time]]
  /\ UNCHANGED <<time, ids, asset, worker, prompt>>

(* The codes are resolved and a connection is waited for; then the         *)
(* transaction inserts its sightings, which take their ids.                *)
InsertSightings(b) ==
  /\ batch[b].is = "received"
  /\ ids' = ids + 1
  /\ batch' = [batch EXCEPT ![b] = [@ EXCEPT !.is = "inserted", !.id = ids + 1]]
  /\ UNCHANGED <<time, asset, worker, prompt>>

(* The item's row is locked until the transaction ends, and the position   *)
(* and the place on file are read under the lock.                          *)
ItemFreeAnyway == TRUE

ItemFree == \A b \in Batch : batch[b].is # "locked"

LockItem(b) ==
  /\ batch[b].is = "inserted" /\ ItemFree
  /\ batch' = [batch EXCEPT ![b] = [@ EXCEPT !.is = "locked", !.pos = position, !.loc = filed]]
  /\ UNCHANGED <<time, ids, asset, worker, prompt>>

(* advancePositions, for what the transaction read: only ever forward in   *)
(* time; a read with a fix takes the asset to its zone, which is a move if *)
(* it is not where the asset was last tracked, or was on file before that. *)
Newer(b) == batch[b].read.at > batch[b].pos.at
Fixed(b) == Newer(b) /\ batch[b].read.zone # NoFix
Current(b) == IF batch[b].pos.entered THEN batch[b].pos.zone ELSE batch[b].loc
Moved(b) == Fixed(b) /\ batch[b].read.zone \in Zone \ {Current(b)}
Filing(b) == Moved(b) /\ batch[b].read.files /\ batch[b].loc # batch[b].read.zone

Position(b) ==
  IF Fixed(b) THEN [at |-> batch[b].read.at, zone |-> batch[b].read.zone, entered |-> TRUE]
  ELSE [batch[b].pos EXCEPT !.at = batch[b].read.at]

(* The upsert repeats the comparison with what the row holds by now.       *)
CommitBatch(b) ==
  /\ batch[b].is = "locked"
  /\ position' = IF Newer(b) /\ position.at < batch[b].read.at THEN Position(b) ELSE position
  /\ filed' = IF Filing(b) THEN batch[b].read.zone ELSE filed
  /\ byHand' = (byHand /\ ~Filing(b))
  /\ moves' = IF Moved(b) THEN Append(moves, [from |-> Current(b), to |-> batch[b].read.zone])
              ELSE moves
  /\ prompt' = (prompt /\ time - batch[b].recv <= PromptBy)
  /\ batch' = [batch EXCEPT ![b] = [Unsent EXCEPT !.is = "stored", !.id = batch[b].id,
                                                  !.read = batch[b].read, !.recv = batch[b].recv]]
  /\ UNCHANGED <<time, ids, worker>>

(* The write fails, or the server stops: the ids are spent.                *)
Fails(b) ==
  /\ batch[b].is \in {"received", "inserted", "locked"}
  /\ batch' = [batch EXCEPT ![b] = [Unsent EXCEPT !.is = "failed"]]
  /\ UNCHANGED <<time, ids, asset, worker, prompt>>

(* Somebody files the item elsewhere (updateItem), which waits for the row. *)
FiledByHand ==
  /\ ItemFree /\ ~byHand
  /\ filed' \in Zone \ {filed} /\ byHand' = TRUE
  /\ UNCHANGED <<time, batch, ids, position, moves, worker, prompt>>

-----------------------------------------------------------------------------
Stored == {b \in Batch : batch[b].is = "stored"}
Ids(bs) == {batch[b].id : b \in bs}
Newest(ns) == Max(ns \cup {0})

(* The first run starts from what there is now.                            *)
FirstRun ==
  /\ run = NoRun /\ readCursor = Unset
  /\ readCursor' = Newest(Ids(Stored)) /\ started' = readCursor'
  /\ UNCHANGED <<time, batch, ids, asset, run, lookedAt, prompt>>

(* The range: the stored sightings after the cursor, up to the first that  *)
(* was received less than a moment ago.                                    *)
Settled(b) == batch[b].recv + Settle <= time

After == {b \in Stored : batch[b].id > readCursor}
InRange(b) == \A c \in After : batch[c].id <= batch[b].id => Settled(c)

ReadRange ==
  LET range == {b \in After : InRange(b)} IN
  /\ run = NoRun /\ readCursor # Unset /\ range # {}
  /\ run' = [NoRun EXCEPT !.is = "ranged", !.upto = Newest(Ids(range))]
  /\ UNCHANGED <<time, batch, ids, asset, readCursor, started, lookedAt, prompt>>

(* A second query takes the reads up to there, and so finds what committed *)
(* between the two; applyReads sets the stages of their lines.  Looked at  *)
(* is all this says of a read: one that is stale (readers.ts:181-191) or   *)
(* whose group of lines fails (126-130) is passed over, and the cursor     *)
(* moves on past it all the same.                                          *)
ApplyReads ==
  /\ run.is = "ranged"
  /\ lookedAt' = lookedAt \cup {i \in Ids(After) : i <= run.upto}
  /\ run' = [run EXCEPT !.is = "placed"]
  /\ UNCHANGED <<time, batch, ids, asset, readCursor, started, prompt>>

MoveCursor ==
  /\ run.is = "placed"
  /\ readCursor' = run.upto /\ run' = NoRun
  /\ UNCHANGED <<time, batch, ids, asset, started, lookedAt, prompt>>

(* The run's server stops, and the lock goes with its connection.          *)
RunStops ==
  /\ run # NoRun /\ run' = NoRun
  /\ UNCHANGED <<time, batch, ids, asset, readCursor, started, lookedAt, prompt>>

IngestNext ==
  \/ TimePasses \/ FiledByHand
  \/ \E b \in Batch : Receive(b) \/ InsertSightings(b) \/ LockItem(b) \/ CommitBatch(b) \/ Fails(b)
  \/ FirstRun \/ ReadRange \/ ApplyReads \/ MoveCursor \/ RunStops

IngestSpec == IngestInit /\ [][IngestNext]_ivars
-----------------------------------------------------------------------------
IngestTypeOK ==
  /\ time \in 0 .. MaxClock /\ ids \in 0 .. MaxBatches
  /\ \A b \in Batch :
       /\ batch[b].is \in {"unsent", "received", "inserted", "locked", "stored", "failed"}
       /\ batch[b].read \in Reads \cup {NotYet} /\ batch[b].recv \in 0 .. MaxClock
       /\ batch[b].id \in 0 .. ids
  /\ position \in [at : 0 .. MaxAt, zone : Zone \cup {Elsewhere}, entered : BOOLEAN]
  /\ filed \in Zone /\ {byHand, prompt} \subseteq BOOLEAN
  /\ {readCursor, started} \subseteq 0 .. MaxBatches + 1
  /\ run \in [is : {"none", "ranged", "placed"}, upto : 0 .. ids]
  /\ lookedAt \subseteq 1 .. ids

(* The position is the one of the latest read that was stored, whatever    *)
(* the order in which devices' batches arrive and commit.                  *)
PositionIsLatest == position.at = Newest({batch[b].read.at : b \in Stored})

(* The moves of an asset follow on one another: each begins where the last *)
(* one ended, or outside every zone if a fix took the asset there, and the *)
(* last one ends where the asset is tracked.  Two devices that read it at  *)
(* once never both write the same move.                                    *)
MovesChain ==
  /\ \A i \in 1 .. Len(moves) : moves[i].from # moves[i].to
  /\ \A i \in 2 .. Len(moves) : moves[i].from \in {moves[i - 1].to, Elsewhere}
  /\ moves # <<>> => position.zone \in {moves[Len(moves)].to, Elsewhere}

(* Unless a person filed it since, the item is filed in a zone a read that *)
(* may file it put it in.                                                  *)
FiledAsRead ==
  ~byHand => \E b \in Stored : batch[b].read.files /\ batch[b].read.zone = filed

(* Nothing slips past the worker's cursor while batches are prompt: every  *)
(* sighting up to the cursor has been looked at, though it was stored      *)
(* after ones with later ids.  Prompt means within less than half the moment the *)
(* worker stays behind: of two batches one may take its id late and the    *)
(* other commit late.                                                      *)
NothingSlipsPast ==
  (prompt /\ readCursor # Unset) =>
    \A i \in Ids(Stored) : (started < i /\ i <= readCursor) => i \in lookedAt

(* Where an asset is and is filed, and what the worker has seen, however   *)
(* batches and people cross.                                               *)
SightingsSound ==
  IngestTypeOK /\ PositionIsLatest /\ MovesChain /\ FiledAsRead /\ NothingSlipsPast
=============================================================================
