------------------------------ MODULE OfflineSync ------------------------------
(***************************************************************************)
(* A device that works offline: the changes made on it, the queue they wait*)
(* in, the runs that plan the queue with the server and send it, and the   *)
(* person who decides about what no longer fits.                           *)
(*                                                                         *)
(* Each await of a run that others can act in is the end of a step: the    *)
(* queue is listed, planned against the server as it is by then, and sent  *)
(* one change at a time.  Other people change the same records meanwhile.  *)
(*                                                                         *)
(* A record is an item or a unit.  A key the server has answered is        *)
(* answered again from what it stored; IdempotencyKeys shows when that is  *)
(* so.  Here a request that is refused or fails has changed nothing.       *)
(***************************************************************************)
EXTENDS Integers, Sequences, FiniteSetsExt, SequencesExt

CONSTANTS
    Item,         \* records
    Place, Holder,
    Nowhere,      \* in no location
    Nobody,       \* checked out to nobody
    Unknown,      \* checked out to a holder that was deleted
    Kind,         \* kinds of change made: "move", "hold", "note", "check"
    Tab,
    Locks,        \* the page is a secure context, so navigator.locks is there
    OtherScreen,  \* the queue is open in a second tab too, which nothing refreshes
    MaxAttempts,
    PlanMax,      \* changes that fit in one plan request
    MaxChange,    \* bound: changes made on the device
    MaxKey,       \* bound: keys of a change
    MaxOthers     \* bound: changes other people make

ASSUME BoundsAssumption ==
    /\ Kind \subseteq {"move", "hold", "note", "check"}
    /\ {Locks, OtherScreen} \subseteq BOOLEAN
    /\ {MaxAttempts, PlanMax, MaxChange, MaxKey} \subseteq Nat \ {0}
    /\ MaxOthers \in Nat

Change == 1 .. MaxChange     \* in the order they were made

VARIABLES
    entry,      \* [Change -> the change and its place in the queue]
    screen,     \* [Change -> the change as the second tab shows it]
    run,        \* [Tab -> its run: what it listed, planned and has left to send]
    inflight,   \* changes whose first, direct request may still reach the server
    world,      \* [Item -> the record on the server]
    known,      \* locations and holders the server has
    stored,     \* keys answered: <<change, number of its key>>
    past,       \* history: [Item -> places and holders it ever had there]
    applied,    \* history: [Change -> times the server made it]
    outcome,    \* [Change -> how it left the queue, or the person's screen]
    off,        \* history: records the last plan may be wrong about
    others      \* history: changes other people made

vars == <<entry, screen, run, inflight, world, known, stored, past, applied, outcome, off, others>>

server == <<world, known, stored, past, applied, off, others>>

Attention == {"conflict", "rejected"}
Waiting == Attention \cup {"pending"}
NoEntry == [status |-> "none", kind |-> "note", items |-> {}, to |-> Nowhere, base |-> Nowhere,
            seq |-> 0, key |-> 1, force |-> FALSE, attempts |-> 0, keepable |-> TRUE, missing |-> {}]
NoRun == [phase |-> "idle", todo |-> <<>>, stalled |-> {}]

Queue == {n \in Change : entry[n].status \in Waiting}
NextSeq == Max({0} \cup {entry[n].seq : n \in Change}) + 1

(* A check is an observation: it waits on nothing and holds nothing up. *)
subjectsOf(q) == IF q.kind = "check" THEN {} ELSE q.items

Record(q) == CHOOSE i \in q.items : TRUE
Field(q) == IF q.kind = "move" THEN "place" ELSE "holder"
Targets == [move |-> Place, hold |-> Holder \cup {Nobody}, note |-> {Nowhere}, check |-> {Nowhere}]
Values == [move |-> Place \cup {Nowhere}, hold |-> Holder \cup {Nobody, Unknown},
           note |-> {Nowhere}, check |-> {Nowhere}]

Init ==
    /\ entry = [n \in Change |-> NoEntry] /\ screen = entry
    /\ run = [t \in Tab |-> NoRun]
    /\ inflight = {}
    /\ world = [i \in Item |-> [there |-> TRUE, place |-> Nowhere, holder |-> Nobody]]
    /\ past = [i \in Item |-> {world[i].place, Nobody}]
    /\ known = Place \cup Holder
    /\ stored = {}
    /\ applied = [n \in Change |-> 0]
    /\ outcome = [n \in Change |-> "none"]
    /\ off = {}
    /\ others = 0

-----------------------------------------------------------------------------
(* The server: a request with a key *)

With(q, w) ==
    IF q.kind \in {"move", "hold"} THEN [w EXCEPT ![Record(q)][Field(q)] = q.to] ELSE w

(* What the route would accept. *)
Applicable(q) ==
    /\ \A i \in q.items : world[i].there
    /\ q.to \in known \cup {Nowhere, Nobody}
    /\ q.kind = "hold" /\ q.to = Nobody => world[Record(q)].holder # Nobody

Becomes(w) ==
    /\ world' = w
    /\ past' = [i \in Item |-> past[i] \cup {w[i].place, w[i].holder}]

Answered(n, q) == <<n, q.key>> \in stored

(* A key that was answered is answered again, and nothing is done. *)
Serve(n, q) ==
    \/ Answered(n, q) /\ UNCHANGED <<world, stored, past, applied>>
    \/ /\ ~Answered(n, q)
       /\ Applicable(q)
       /\ Becomes(With(q, world))
       /\ stored' = stored \cup {<<n, q.key>>}
       /\ applied' = [applied EXCEPT ![n] = @ + 1]

-----------------------------------------------------------------------------
(* A change is made on the device *)

hasQueuedFor(subjects) == \E n \in Queue : subjectsOf(entry[n]) \cap subjects # {}

Made(n) == entry[n].status # "none"

(* What the copy says: an earlier change that waits has been laid over it; else it is
   as some answer of the server left it. *)
Believed(q) ==
    LET earlier == {m \in Queue : entry[m].kind = q.kind /\ entry[m].items = q.items}
        last == CHOOSE m \in earlier : \A k \in earlier : entry[k].seq <= entry[m].seq
    IN IF q.kind \in {"note", "check"} THEN {Nowhere}
       ELSE IF earlier # {} /\ entry[last].status = "pending" THEN {entry[last].to}
       ELSE Values[q.kind] \cap UNION {past[i] : i \in q.items}

New(kind, items, to) == [NoEntry EXCEPT !.kind = kind, !.items = items, !.to = to]

(* Mutant: a change that is queued gets a key of its own. *)
queueRekeyed(n, q) ==
    \E base \in Believed(q) :
        entry' = [entry EXCEPT ![n] = [q EXCEPT !.status = "pending", !.seq = NextSeq, !.base = base,
                                                !.key = IF q.status = "trying" THEN 2 ELSE 1]]

queueChange(n, q) ==
    \E base \in Believed(q) :
        entry' = [entry EXCEPT ![n] = [q EXCEPT !.status = "pending", !.seq = NextSeq, !.base = base]]

(* Sent directly, unless the device is offline or an earlier change to the record
   waits. *)
Write(n) ==
    /\ ~Made(n)
    /\ \A m \in 1 .. n - 1 : Made(m)
    /\ \E kind \in Kind, items \in (SUBSET Item) \ {{}} : \E to \in Targets[kind] :
          /\ kind = "check" \/ \E i \in Item : items = {i}
          /\ \/ queueChange(n, New(kind, items, to)) /\ UNCHANGED inflight
             \/ /\ ~hasQueuedFor(subjectsOf(New(kind, items, to)))
                /\ entry' = [entry EXCEPT ![n] = [New(kind, items, to) EXCEPT !.status = "trying"]]
                /\ inflight' = inflight \cup {n}
    /\ UNCHANGED <<screen, run, outcome, server>>

Leaves(n, how) ==
    /\ entry' = [entry EXCEPT ![n].status = "gone"]
    /\ outcome' = [outcome EXCEPT ![n] = how]

(* The direct request arrives, in time for its answer or long after: nothing aborts it
   when the device stops waiting. *)
Arrive(n) ==
    /\ n \in inflight
    /\ inflight' = inflight \ {n}
    /\ \/ /\ entry[n].key = 1 /\ Serve(n, entry[n])
          /\ off' = off \cup entry[n].items
          /\ \/ UNCHANGED <<entry, outcome>>
             \/ entry[n].status = "trying" /\ Leaves(n, "sent")
       \/ /\ entry[n].status = "trying" /\ Leaves(n, "refused")
          /\ UNCHANGED <<world, stored, past, applied, off>>
       \/ UNCHANGED <<entry, outcome, world, stored, past, applied, off>>
    /\ UNCHANGED <<screen, run, known, others>>

(* No answer in fifteen seconds, or no network: queued with the same key. *)
TimeOut(n) ==
    /\ entry[n].status = "trying"
    /\ queueChange(n, entry[n])
    /\ UNCHANGED <<screen, run, inflight, outcome, server>>

-----------------------------------------------------------------------------
(* The server's plan *)

(* The server has it where neither the device believed it nor the change puts it. *)
Changed(q, w) ==
    LET now == w[Record(q)][Field(q)]
    IN now # q.base /\ (q.kind = "move" => now # q.to)

Conflict(keepable, missing) == [verdict |-> "conflict", keepable |-> keepable, missing |-> missing]
Verdict(v) == [verdict |-> v, keepable |-> TRUE, missing |-> {}]

evaluate(q, w) ==
    LET missing == {i \in q.items : ~w[i].there}
    IN IF missing # {}
       THEN IF q.kind = "check" THEN Conflict(TRUE, missing) ELSE Conflict(FALSE, {})
       ELSE IF q.kind \in {"note", "check"} THEN Verdict("send")
       ELSE IF q.to \notin known \cup {Nobody} THEN Conflict(FALSE, {})
       ELSE IF q.kind = "hold" /\ w[Record(q)].holder = q.to THEN Verdict("skip")
       ELSE IF ~q.force /\ Changed(q, w) THEN Conflict(TRUE, {})
       ELSE Verdict("send")

Judged(e, v) == [n |-> e.n, q |-> e.q, verdict |-> v.verdict, keepable |-> v.keepable,
                 missing |-> v.missing]

(* One change, given what those before it hold up and will have done.  What is held
   or blocked is left out of the plan: the run passes over it. *)
PlanOne(acc, e) ==
    LET subject == subjectsOf(e.q)
        v == evaluate(e.q, acc.world)
    IN IF e.q.status # "pending" THEN [acc EXCEPT !.blocked = @ \cup subject]
       ELSE IF subject \cap acc.blocked # {} THEN acc
       ELSE IF v.verdict = "conflict"
       THEN [acc EXCEPT !.blocked = @ \cup subject, !.plan = Append(@, Judged(e, v))]
       ELSE [acc EXCEPT !.world = With(e.q, @), !.plan = Append(@, Judged(e, v))]

planSync(listed) ==
    FoldLeft(PlanOne, [world |-> world, blocked |-> {}, plan |-> <<>>], listed).plan

-----------------------------------------------------------------------------
(* A run *)

(* The order of the queue, of which there is one: a seq is a key of the store. *)
BySeq == {s \in Bijection(1 .. Cardinality(Queue), Queue) :
            \A i, j \in DOMAIN s : i < j => entry[s[i]].seq < entry[s[j]].seq}
planBatch(s) == SubSeq(s, 1, Min({PlanMax, Len(s)}))

(* It starts when there is something to send, in one tab at a time where it can lock. *)
List(t) ==
    /\ run[t].phase = "idle"
    /\ Locks => \A u \in Tab : run[u].phase = "idle"
    /\ \E n \in Queue : entry[n].status = "pending"
    /\ \E s \in BySeq :
         run' = [run EXCEPT ![t] = [NoRun EXCEPT
                   !.phase = "plan",
                   !.todo = [i \in DOMAIN planBatch(s) |->
                               [n |-> planBatch(s)[i], q |-> entry[planBatch(s)[i]]]]]]
    /\ UNCHANGED <<entry, screen, inflight, outcome, server>>

(* A run that has nothing left is over. *)
Goes(t, todo, stalled) ==
    run' = [run EXCEPT ![t] = IF todo = <<>> THEN NoRun
                              ELSE [phase |-> "send", todo |-> todo, stalled |-> stalled]]

Plan(t) ==
    /\ run[t].phase = "plan"
    /\ Goes(t, planSync(run[t].todo), {})
    /\ off' = {}
    /\ UNCHANGED <<entry, screen, inflight, world, known, stored, past, applied, outcome, others>>

Sending(t) == run[t].phase = "send"
Current(t) == Head(run[t].todo)
GoesOn(t) == Goes(t, Tail(run[t].todo), run[t].stalled)
StallsOn(t) == Goes(t, Tail(run[t].todo), run[t].stalled \cup subjectsOf(Current(t).q))
Stalled(t) == subjectsOf(Current(t).q) \cap run[t].stalled # {}

(* Mutant: what failed in this run holds nothing back. *)
HandlesUnstalled(t, verdict) ==
    Current(t).verdict = verdict

Handles(t, verdict) ==
    /\ ~Stalled(t)
    /\ Current(t).verdict = verdict

(* Each put writes the whole entry, from what the run listed. *)
updateQueued(t, q) == entry' = [entry EXCEPT ![Current(t).n] = q]

PassOver(t) ==
    /\ Stalled(t)
    /\ GoesOn(t)
    /\ UNCHANGED <<entry, screen, inflight, outcome, server>>

Ask(t) ==
    /\ Handles(t, "conflict")
    /\ updateQueued(t, [Current(t).q EXCEPT !.status = "conflict", !.keepable = Current(t).keepable,
                                           !.missing = Current(t).missing])
    /\ GoesOn(t)
    /\ UNCHANGED <<screen, inflight, outcome, server>>

Skip(t) ==
    /\ Handles(t, "skip")
    /\ Leaves(Current(t).n, "skipped")
    /\ GoesOn(t)
    /\ UNCHANGED <<screen, inflight, server>>

(* The plan took a stored answer for a change to come. *)
Misled(t) ==
    off' = IF Answered(Current(t).n, Current(t).q) THEN off \cup Current(t).q.items ELSE off

(* replay(), answered with success *)
Send(t) ==
    /\ Handles(t, "send")
    /\ Serve(Current(t).n, Current(t).q)
    /\ Misled(t)
    /\ Leaves(Current(t).n, "sent")
    /\ GoesOn(t)
    /\ UNCHANGED <<screen, inflight, known, others>>

(* It arrived, its answer did not, or the tab closed before it was noted. *)
LoseAnswer(t) ==
    /\ Handles(t, "send")
    /\ Serve(Current(t).n, Current(t).q)
    /\ Misled(t)
    /\ Goes(t, <<>>, {})
    /\ UNCHANGED <<entry, screen, inflight, outcome, known, others>>

(* Mutant: one more failure than that. *)
GivesUpLate(q) == q.attempts > MaxAttempts

GivesUp(q) == q.attempts >= MaxAttempts

(* Mutant: failures are not counted. *)
RefusedUncounted(t) ==
    /\ Handles(t, "send")
    /\ updateQueued(t, Current(t).q)
    /\ StallsOn(t)
    /\ UNCHANGED <<screen, inflight, outcome, server>>

(* A server error, or a key in use, is tried again a few times; a route that refuses
   is not asked again. *)
Refused(t) ==
    /\ Handles(t, "send")
    /\ LET q == [Current(t).q EXCEPT !.attempts = @ + 1]
       IN \/ ~GivesUp(q) /\ updateQueued(t, q)
          \/ /\ GivesUp(q) \/ ~Answered(Current(t).n, q)
             /\ updateQueued(t, [q EXCEPT !.status = "rejected"])
    /\ StallsOn(t)
    /\ UNCHANGED <<screen, inflight, outcome, server>>

(* No network, signed out, or the tab closed. *)
Stop(t) ==
    /\ run[t].phase # "idle"
    /\ Goes(t, <<>>, {})
    /\ UNCHANGED <<entry, screen, inflight, outcome, server>>

-----------------------------------------------------------------------------
(* A person decides *)

(* The second tab reads the queue when something happens in it. *)
Look(n) ==
    /\ entry[n].status \in Attention
    /\ screen' = [screen EXCEPT ![n] = entry[n]]
    /\ UNCHANGED <<entry, run, inflight, outcome, server>>

(* q is shown to the person: as it is, or as it was when the second tab read it. *)
Shown(n, q) ==
    /\ q.status \in Attention
    /\ \/ q = entry[n] /\ UNCHANGED screen
       \/ q = screen[n] /\ screen' = [screen EXCEPT ![n] = NoEntry]

newId == Max({entry[n].key : n \in Change} \cup {s[2] : s \in stored}) + 1

(* A check goes without the records that are gone, which makes it another request. *)
keepMine(n) ==
    /\ \E q \in {entry[n], screen[n]} :
          /\ Shown(n, q)
          /\ q.status = "conflict" => q.keepable
          /\ q.missing = {} \/ newId <= MaxKey
          /\ entry' = [entry EXCEPT ![n] =
                [q EXCEPT !.status = "pending", !.force = TRUE, !.attempts = 0, !.keepable = TRUE,
                          !.items = @ \ q.missing, !.missing = {},
                          !.key = IF q.missing = {} THEN @ ELSE newId]]
    /\ UNCHANGED <<run, inflight, outcome, server>>

keepServer(n) ==
    /\ \E q \in {entry[n], screen[n]} : Shown(n, q)
    /\ Leaves(n, "discarded")
    /\ UNCHANGED <<run, inflight, server>>

-----------------------------------------------------------------------------
(* Other people *)

Other(w, items) ==
    /\ others < MaxOthers
    /\ others' = others + 1
    /\ Becomes(w)
    /\ off' = off \cup items
    /\ UNCHANGED <<entry, screen, run, inflight, stored, applied, outcome>>

ChangeElsewhere ==
    \E i \in Item, f \in {"place", "holder"}, v \in (known \cap Place) \cup (known \cap Holder) \cup {Nobody} :
        /\ world[i].there
        /\ (v \in Place) = (f = "place")
        /\ Other([world EXCEPT ![i][f] = v], {i})
        /\ UNCHANGED known

DeleteRecord ==
    \E i \in Item : Other([world EXCEPT ![i].there = FALSE], {i}) /\ UNCHANGED known

DeleteTarget ==
    \E v \in known :
        /\ known' = known \ {v}
        /\ Other([i \in Item |-> [world[i] EXCEPT !.place = IF @ = v THEN Nowhere ELSE @,
                                                   !.holder = IF @ = v THEN Unknown ELSE @]], Item)

-----------------------------------------------------------------------------
(* What stays after a look at the list of changes that need attention: looked at once
   more, or to be sent after all. *)
StaysListed(n) ==
    /\ {entry[n].status, screen[n].status} \cap Attention # {}
    /\ (OtherScreen /\ Look(n)) \/ keepMine(n)

(* The loop of a run over what it planned, one entry a turn. *)
Turn(t) == Sending(t) /\ (PassOver(t) \/ Ask(t) \/ Skip(t) \/ Send(t) \/ Refused(t))

Stops(t) == Stop(t) \/ (Sending(t) /\ LoseAnswer(t))
GoesAhead(t) == List(t) \/ Plan(t) \/ Turn(t)

Next ==
    \/ \E n \in Change : Write(n) \/ Arrive(n) \/ TimeOut(n) \/ StaysListed(n) \/ keepServer(n)
    \/ \E t \in Tab : GoesAhead(t) \/ Stops(t)
    \/ ChangeElsewhere \/ DeleteRecord \/ DeleteTarget

Spec == Init /\ [][Next]_vars

(* The triggers of the loop keep coming back, and in the end a connection holds for
   a run. *)
Fairness ==
    /\ <>[][~\E t \in Tab : Stops(t)]_vars
    /\ \A t \in Tab : WF_vars(GoesAhead(t))

FairSpec == Spec /\ Fairness

-----------------------------------------------------------------------------
(* Properties *)

TypeOK ==
    /\ \A n \in Change :
          /\ entry[n].status \in Waiting \cup {"none", "trying", "gone"}
          /\ entry[n].seq \in 0 .. MaxChange
          /\ entry[n].attempts \in 0 .. MaxAttempts
          /\ entry[n].items \in SUBSET Item
          /\ screen[n].status \in Attention \cup {"none"}
    /\ \A t \in Tab : run[t].phase \in {"idle", "plan", "send"} /\ Len(run[t].todo) <= PlanMax
    /\ inflight \subseteq Change
    /\ \A i \in Item : world[i].place \in Values["move"] /\ world[i].holder \in Values["hold"]
    /\ outcome \in [Change -> {"none", "sent", "refused", "skipped", "discarded"}]

Orderly == Locks /\ ~OtherScreen

(* sync.ts:16-18, transport.ts:25-27: what is said to be sent reached the server, and is
   applied only once, through the direct request, the runs of any tab, retries and
   keep-mine; only a check that goes without deleted records is another request. *)
AppliedExactlyOnce == \A n \in Change :
    /\ outcome[n] = "sent" => applied[n] > 0
    /\ entry[n].kind # "check" => applied[n] <= 1

(* plan.ts:15-19: a change never overtakes an earlier one to the same record that
   still waits, whatever fails on the way. *)
NoOvertaking ==
    \A m, n \in Queue :
        /\ entry[m].seq < entry[n].seq
        /\ subjectsOf(entry[m]) \cap subjectsOf(entry[n]) # {}
        /\ outcome'[n] # outcome[n]
        => outcome'[n] = "discarded" \/ m \notin Queue'

(* plan.ts:11-14: a skipped change asks for what the server has, unless the server
   changed since the plan. *)
SkippedIsThere ==
    \A n \in Queue :
        /\ outcome[n] # "skipped" /\ outcome'[n] = "skipped"
        /\ entry[n].items \cap off = {}
        => world[Record(entry[n])].holder = entry[n].to

(* plan.ts:11-14: a change the person did not force only replaces what the device knew,
   unless the server changed since the plan or answered from a stored answer. *)
NoSilentOverride ==
    \A n \in Queue \ inflight :
        /\ applied'[n] > applied[n]
        /\ entry[n].kind \in {"move", "hold"} /\ ~entry[n].force
        /\ entry[n].items \cap off = {}
        => ~Changed(entry[n], world)

(* store.ts:234-237: what left the queue is out of it for good. *)
GoneIsGone == \A n \in Change : entry[n].status = "gone" => entry'[n].status = "gone"

(* The queue is worked off in its order and once, and a run acts on what is so though
   requests the plan counted on fail halfway through it (sync.ts:255), when the tabs lock
   and the person decides in one. *)
QueueSound ==
    [][Orderly => NoOvertaking /\ GoneIsGone /\ SkippedIsThere /\ NoSilentOverride]_vars

(* docs/offline-field.md:119: "Keep mine sends it anyway, overriding what changed on
   the server." *)
KeepMineOverrides ==
    [][\A n \in Queue :
          /\ outcome'[n] = "sent"
          /\ entry[n].force /\ entry[n].kind \in {"move", "hold"}
          /\ entry[n].items \cap off = {}
          => world'[Record(entry[n])][Field(entry[n])] = entry[n].to]_vars

Held(n) ==
    \/ entry[n].status \in Attention
    \/ \E m \in Queue : /\ entry[m].status # "pending" /\ entry[m].seq < entry[n].seq
                        /\ subjectsOf(entry[m]) \cap subjectsOf(entry[n]) # {}

(* Every change is sent, found done or given to a person, unless one to the same
   record waits for a person before it, or as many as a plan takes do. *)
GetsDecided ==
    \A n \in Change :
        []<>(\/ entry[n].status # "pending" \/ Held(n)
             \/ Cardinality({m \in Queue : entry[m].seq < entry[n].seq /\ Held(m)}) >= PlanMax)
=============================================================================
