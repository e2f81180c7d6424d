--------------------------- MODULE PortalNotifier ---------------------------
(***************************************************************************)
(* The milestone emails of the client portal (portal/notifier.ts): every   *)
(* server takes passes that read the audit log behind one shared cursor    *)
(* into pending notices, one for each grant and milestone, and then mail   *)
(* each person what waits for them, at most once in an interval.  The log  *)
(* is a sequence: AuditChain shows that ids become visible in order.       *)
(***************************************************************************)
EXTENDS Naturals, Sequences, FiniteSets, Functions

CONSTANTS Notifier,     \* the servers that run the notifier
          Follower,    \* the grants; all follow the same shipment
          Milestone,   \* the keys events announce: departed, delivered, ...
          MaxEvents,   \* bound: events of the log
          MaxClock,    \* bound: throttle intervals that pass
          BatchSize,   \* events one collection reads (500)
          Rounds,      \* collections of one pass (20)
          MailTries,   \* attempts before a notice is given up (5)
          MaxLost      \* bound: mails accepted and not recorded

ASSUME NotifierAssumption ==
  /\ MaxEvents \in Nat /\ MaxClock \in Nat
  /\ BatchSize \in Nat \ {0} /\ Rounds \in Nat \ {0} /\ MailTries \in Nat \ {0}
  /\ MaxLost \in Nat

VARIABLES log,         \* what is published: milestones, or events that announce none
          aged,        \* how many of them are more than a day old
          cursor,      \* portal_notifier_state.last_event_id, or Unset
          grant,       \* each grant: on, or off (muted, expired or revoked)
          notice,      \* portal_notifications
          clock,       \* throttle intervals that have passed
          pass,        \* what each server is doing
          first,       \* history: where the cursor started
          since,       \* history: the log's length when the grant was last switched on
          mails,       \* history: mails that announced a milestone to a person
          unrecorded,  \* history: those of them that no transaction recorded
          mailings      \* history: each server's recorded mails, by interval

pvars == <<log, aged, cursor, grant, notice, clock, pass, first, since, mails,
           unrecorded, mailings>>
counted == <<mails, unrecorded, mailings>>
outside == <<log, aged, grant, clock, since>>

Quiet == "no milestone"
Unset == MaxEvents + 1
Absent == [status |-> "absent", attempts |-> 0, sentAt |-> 0]
Fresh == [Absent EXCEPT !.status = "pending"]
Idle == [at |-> "idle", now |-> 0, old |-> 0, round |-> 0, done |-> 0, upto |-> 0, new |-> {},
         mail |-> {}, skip |-> {}, to |-> {}, held |-> {}]

PortalInit ==
  /\ log = <<>> /\ aged = 0 /\ cursor = Unset /\ clock = 0 /\ first = Unset
  /\ grant = [g \in Follower |-> "on"] /\ since = [g \in Follower |-> 0]
  /\ notice = [g \in Follower |-> [m \in Milestone |-> Absent]]
  /\ pass = [r \in Notifier |-> Idle]
  /\ mails = [g \in Follower |-> [m \in Milestone |-> 0]]
  /\ unrecorded = [g \in Follower |-> [m \in Milestone |-> 0]]
  /\ mailings = [r \in Notifier |-> [g \in Follower |-> [t \in 0 .. MaxClock |-> 0]]]

-----------------------------------------------------------------------------
(* Everything around the notifier: the log grows and ages, time passes,    *)
(* and people switch their mails on and off or lose their link.            *)
Publishes ==
  /\ Len(log) < MaxEvents
  /\ \E m \in Milestone \cup {Quiet} : log' = Append(log, m)
  /\ UNCHANGED <<aged, cursor, grant, notice, clock, pass, first, since, counted>>

DayPasses ==
  /\ aged < Len(log) /\ aged' = Len(log)
  /\ UNCHANGED <<log, cursor, grant, notice, clock, pass, first, since, counted>>

IntervalPasses ==
  /\ clock < MaxClock /\ clock' = clock + 1
  /\ UNCHANGED <<log, aged, cursor, grant, notice, pass, first, since, counted>>

(* setNotify and updateGrant, and an expiry that passes or is set later;   *)
(* revokeGrant is a switching off after which no switching on follows.     *)
SetNotify(g) ==
  /\ \/ grant[g] = "on" /\ grant' = [grant EXCEPT ![g] = "off"] /\ since' = [since EXCEPT ![g] = 0]
     \/ /\ grant[g] = "off" /\ grant' = [grant EXCEPT ![g] = "on"]
        /\ since' = [since EXCEPT ![g] = Len(log)]
  /\ UNCHANGED <<log, aged, cursor, notice, clock, pass, first, counted>>

-----------------------------------------------------------------------------
CursorFree == \A r \in Notifier : pass[r].at # "collecting"

(* A pass takes the time once, as it starts; a collection after the first  *)
(* goes on with it.                                                        *)
MayCollect(r) == pass[r].at \in {"idle", "collect"}
Clocked(r) == IF pass[r].at = "collect" THEN pass[r] ELSE [Idle EXCEPT !.now = clock, !.old = aged]

(* No row of the cursor could be locked.  Another server has it, or this   *)
(* is the first run, which starts from what the log holds now; with        *)
(* nothing read, the pass goes on to its mails.                            *)
CollectNothing(r) ==
  /\ MayCollect(r)
  /\ \/ cursor = Unset /\ cursor' = Len(log) /\ first' = Len(log)
     \/ cursor # Unset /\ ~CursorFree /\ UNCHANGED <<cursor, first>>
  /\ pass' = [pass EXCEPT ![r] = [Clocked(r) EXCEPT !.at = "list", !.round = 0]]
  /\ UNCHANGED <<outside, notice, counted>>

(* The cursor is locked until the transaction ends, and the events after   *)
(* it are read in one query.                                               *)
LastRead == IF cursor + BatchSize < Len(log) THEN cursor + BatchSize ELSE Len(log)

CollectRead(r) ==
  /\ MayCollect(r) /\ cursor # Unset /\ CursorFree
  /\ pass' = [pass EXCEPT ![r] =
       [Clocked(r) EXCEPT !.at = "collecting", !.done = cursor, !.upto = LastRead]]
  /\ UNCHANGED <<outside, cursor, notice, first, counted>>

(* One event: who follows it is read now; an event of more than a day ago  *)
(* is passed over.                                                         *)
Followers == {g \in Follower : grant[g] = "on"}

CollectEvent(r) ==
  LET i == pass[r].done + 1 IN
  /\ pass[r].at = "collecting" /\ pass[r].done < pass[r].upto
  /\ pass' = [pass EXCEPT ![r].done = i,
                          ![r].new = IF i > pass[r].old /\ log[i] # Quiet
                                     THEN @ \cup (Followers \X {log[i]}) ELSE @]
  /\ UNCHANGED <<outside, cursor, notice, first, counted>>

(* ON CONFLICT DO NOTHING: a milestone that was announced stays as it is.  *)
WithNew(new) ==
  [g \in Follower |-> [m \in Milestone |->
     IF <<g, m>> \in new /\ notice[g][m] = Absent THEN Fresh ELSE notice[g][m]]]

(* A full batch is followed by another collection, until the pass has made *)
(* its rounds.                                                             *)
CollectCommit(r) ==
  LET full == pass[r].upto - cursor = BatchSize
      rounds == pass[r].round + 1 IN
  /\ pass[r].at = "collecting" /\ pass[r].done = pass[r].upto
  /\ notice' = WithNew(pass[r].new) /\ cursor' = pass[r].upto
  /\ pass' = [pass EXCEPT ![r] =
       [Idle EXCEPT !.now = pass[r].now, !.old = pass[r].old,
                    !.round = IF full /\ rounds < Rounds THEN rounds ELSE 0,
                    !.at = IF full /\ rounds < Rounds THEN "collect" ELSE "list"]]
  /\ UNCHANGED <<outside, first, counted>>

-----------------------------------------------------------------------------
PendingFor(g) == {m \in Milestone : notice[g][m].status = "pending"}
SentTo(g) == {notice[g][m].sentAt : m \in {n \in Milestone : notice[g][n].status = "sent"}}
DueToSend(g, now) == \A t \in SentTo(g) : now >= t + 1

(* A pass ends when it has seen to everybody it listed.                    *)
Rest(p) == IF p.mail = {} /\ p.skip = {} THEN Idle ELSE [p EXCEPT !.at = "deliver", !.to = {}, !.held = {}]

(* One query lists who has something waiting, whether their grant is still *)
(* active and when they were last mailed.                                  *)
ListDue(r) ==
  LET waiting == {g \in Follower : PendingFor(g) # {}}
      active == {g \in waiting : grant[g] = "on"} IN
  /\ pass[r].at = "list"
  /\ pass' = [pass EXCEPT ![r] =
       Rest([@ EXCEPT !.old = 0, !.mail = {g \in active : DueToSend(g, pass[r].now)},
                      !.skip = waiting \ active])]
  /\ UNCHANGED <<outside, cursor, notice, first, counted>>

HeldByOthers(r, g) == UNION {IF pass[s].to = {g} THEN pass[s].held ELSE {} : s \in Notifier \ {r}}

(* The UPDATE of an inactive grant's notices waits for rows that are being *)
(* mailed, and then takes those that are pending still.                    *)
SkipNotices(r, g) ==
  /\ pass[r].at = "deliver" /\ g \in pass[r].skip
  /\ HeldByOthers(r, g) \cap PendingFor(g) = {}
  /\ notice' = [notice EXCEPT ![g] =
       [m \in Milestone |-> IF m \in PendingFor(g) THEN [@[m] EXCEPT !.status = "skipped"] ELSE @[m]]]
  /\ pass' = [pass EXCEPT ![r] = Rest([pass[r] EXCEPT !.skip = pass[r].skip \ {g}])]
  /\ UNCHANGED <<outside, cursor, first, counted>>

(* FOR UPDATE SKIP LOCKED: the rows that are pending now, but those a      *)
(* server is mailing.                                                      *)
TakesUnlocked(r, g) == PendingFor(g)

Takes(r, g) == PendingFor(g) \ HeldByOthers(r, g)

TakeNotices(r, g) ==
  /\ pass[r].at = "deliver" /\ g \in pass[r].mail
  /\ pass' = [pass EXCEPT ![r] =
       LET left == pass[r].mail \ {g} IN
       IF Takes(r, g) = {} THEN Rest([pass[r] EXCEPT !.mail = left])
       ELSE [pass[r] EXCEPT !.at = "mailing", !.mail = left, !.to = {g}, !.held = Takes(r, g)]]
  /\ UNCHANGED <<outside, cursor, notice, first, counted>>

Lost(g) == FoldFunction(LAMBDA n, k : n + k, 0, unrecorded[g])

AddOne(f, g, ms) == [f EXCEPT ![g] = [m \in Milestone |-> IF m \in ms THEN @[m] + 1 ELSE @[m]]]

(* sendMail: accepted, refused, or accepted by a server whose answer was   *)
(* lost, which counts as refused.                                          *)
Mails(r) ==
  \E g \in pass[r].to :
    /\ pass[r].at = "mailing"
    /\ \/ /\ pass' = [pass EXCEPT ![r].at = "accepted"]
          /\ mails' = AddOne(mails, g, pass[r].held)
          /\ unrecorded' = unrecorded
       \/ /\ pass' = [pass EXCEPT ![r].at = "refused"]
          /\ \/ UNCHANGED <<mails, unrecorded>>
             \/ /\ Lost(g) < MaxLost /\ mails' = AddOne(mails, g, pass[r].held)
                /\ unrecorded' = AddOne(unrecorded, g, pass[r].held)
    /\ UNCHANGED <<outside, cursor, notice, first, mailings>>

Recorded(n, now) == [n EXCEPT !.status = "sent", !.attempts = @ + 1, !.sentAt = now]
NotAccepted(n) == [n EXCEPT !.attempts = @ + 1,
                        !.status = IF n.attempts + 1 >= MailTries THEN "failed" ELSE "pending"]

(* The outcome is written, with the time the pass began, and committed.    *)
Records(r) ==
  \E g \in pass[r].to :
    LET ok == pass[r].at = "accepted" IN
    /\ pass[r].at \in {"accepted", "refused"}
    /\ notice' = [notice EXCEPT ![g] =
         [m \in Milestone |-> IF m \notin pass[r].held THEN @[m]
                              ELSE IF ok THEN Recorded(@[m], pass[r].now) ELSE NotAccepted(@[m])]]
    /\ mailings' = IF ok THEN [mailings EXCEPT ![r][g][pass[r].now] = @ + 1] ELSE mailings
    /\ pass' = [pass EXCEPT ![r] = Rest(@)]
    /\ UNCHANGED <<outside, cursor, first, mails, unrecorded>>

(* A server that stops undoes its transaction, and the next pass starts    *)
(* anew; so does a statement that fails while collecting or listing.  One  *)
(* that fails at a grant is caught there: the pass goes on with the others. *)
WithoutGrant(p) ==
  {Rest(q) : q \in IF p.at = "deliver" THEN {[p EXCEPT !.mail = @ \ {g}] : g \in p.mail}
                   ELSE IF p.to # {} THEN {p} ELSE {}}

Aborts(r) ==
  /\ pass[r].at # "idle"
  /\ pass[r].at = "accepted" => \A g \in pass[r].to : Lost(g) < MaxLost
  /\ \E p \in {Idle} \cup WithoutGrant(pass[r]) : pass' = [pass EXCEPT ![r] = p]
  /\ unrecorded' = IF pass[r].at = "accepted"
                   THEN [g \in Follower |-> IF g \in pass[r].to
                           THEN AddOne(unrecorded, g, pass[r].held)[g] ELSE unrecorded[g]]
                   ELSE unrecorded
  /\ UNCHANGED <<outside, cursor, notice, first, mails, mailings>>

Passes(r) ==
  \/ CollectNothing(r) \/ CollectRead(r) \/ CollectEvent(r) \/ CollectCommit(r)
  \/ ListDue(r) \/ (\E g \in Follower : SkipNotices(r, g) \/ TakeNotices(r, g))
  \/ Mails(r) \/ Records(r) \/ Aborts(r)

PortalNext ==
  \/ Publishes \/ DayPasses \/ IntervalPasses
  \/ \E g \in Follower : SetNotify(g)
  \/ \E r \in Notifier : Passes(r)

PortalSpec == PortalInit /\ [][PortalNext]_pvars

-----------------------------------------------------------------------------
PortalTypeOK ==
  /\ log \in Seq(Milestone \cup {Quiet}) /\ aged \in 0 .. Len(log) /\ clock \in 0 .. MaxClock
  /\ {cursor, first} \subseteq 0 .. MaxEvents + 1
  /\ grant \in [Follower -> {"on", "off"}] /\ since \in [Follower -> 0 .. MaxEvents]
  /\ \A g \in Follower : \A m \in Milestone :
       /\ notice[g][m].status \in {"absent", "pending", "sent", "skipped", "failed"}
       /\ notice[g][m].attempts \in 0 .. MailTries /\ notice[g][m].sentAt \in 0 .. MaxClock
  /\ \A r \in Notifier :
       /\ pass[r].at \in {"idle", "collect", "collecting", "list", "deliver", "mailing",
                         "accepted", "refused"}
       /\ pass[r].new \subseteq Follower \X Milestone /\ pass[r].held \subseteq Milestone

(* A person hears of a milestone once, plus the mails whose recording was  *)
(* lost: two servers never mail the same notice, and a milestone that is   *)
(* published again is not announced again.                                 *)
MailedOnce ==
  \A g \in Follower : \A m \in Milestone :
    mails[g][m] - unrecorded[g][m] <= 1

(* The cursor passes nothing by.  A fresh milestone it has passed has a    *)
(* notice for everybody who was following when it was published and ever   *)
(* since, whatever servers stopped halfway through a batch.                *)
NothingMissed ==
  cursor # Unset =>
    \A g \in Followers : \A i \in first + 1 .. cursor :
      (i > aged /\ i > since[g] /\ log[i] # Quiet) => notice[g][log[i]] # Absent

(* The throttle: no server mails a person twice in one interval.  Another  *)
(* server that listed them before the first mail was recorded may still    *)
(* mail what came in since, so a person gets one mail for each server at   *)
(* most, where the notifier's comment says one.                            *)
ThrottlePerServer ==
  \A r \in Notifier : \A g \in Follower : \A t \in 0 .. MaxClock : mailings[r][g][t] <= 1

(* Notices and mails, however servers cross, stop or lose an answer.       *)
NoticesSound == PortalTypeOK /\ MailedOnce /\ NothingMissed /\ ThrottlePerServer
=============================================================================
