------------------------------ MODULE CrewCheckin ------------------------------
(* The shifts of one worker (crew/checkins.ts): checked in at the door of a job after their
   credentials are judged, moved between jobs, checked out by name, by badge and at the end
   of the day, corrected and deleted on the timesheet, by several desks at once.  A shift
   is looked at first and written by id; the database keeps one of them open at most and
   its times in order. *)
EXTENDS Integers, Sequences, FiniteSets

CONSTANTS
    Desk,        \* requests under way at once
    Job,
    NoJob,
    Strict,      \* jobs whose policy blocks
    AdminOnly,   \* those of them an administrator alone overrides
    Ahead,       \* MAX_FUTURE_MS: how far a time may lie ahead
    MaxTime,     \* bound: the clock
    MaxShifts,   \* bound: check-ins
    MaxAsks     \* bound: requests, and changes of the credentials, the worker or a job

ASSUME CrewAssumption ==
    /\ NoJob \notin Job /\ Strict \subseteq Job /\ AdminOnly \subseteq Strict
    /\ Ahead \in Nat /\ MaxTime \in Nat /\ MaxShifts \in Nat
    /\ MaxAsks \in Nat

VARIABLES
    shift,   \* crew_checkins, in the order of their insertion
    fit,     \* the credentials on file meet what is asked for
    shut,    \* jobs that are not open, or all for an inactive worker
    now, asks,
    desk     \* [Desk -> its request]

crewVars == <<shift, fit, shut, now, asks, desk>>

OnClock == 0    \* no check-out time
Kept == -1      \* a time the patch leaves alone
Shift == DOMAIN shift
IsOpen(s) == shift[s].job # NoJob /\ shift[s].out = OnClock

(* uq_crew_checkins_open *)
Taken(s) == \E t \in Shift \ {s} : IsOpen(t)
(* crew_checkins_times_check *)
TimesInOrder(in, out) == out = OnClock \/ out >= in

Idle == [at |-> "idle", job |-> NoJob, of |-> 0, by |-> "nobody", red |-> FALSE,
         move |-> FALSE, in |-> Kept, out |-> Kept]

NewShift(job, red, by) ==
    [job |-> job, in |-> now, out |-> OnClock, fixed |-> FALSE, red |-> red, by |-> by]

(* The worker may be on a job already. *)
CrewInit ==
    /\ now = 1 /\ asks = 0
    /\ fit = TRUE /\ shut = {}
    /\ shift \in {<<>>} \cup {<<NewShift(j, FALSE, "nobody")>> : j \in Job}
    /\ desk = [d \in Desk |-> Idle]

Time == 1 .. now + Ahead
Rests(d) == desk' = [desk EXCEPT ![d] = Idle]
World == <<fit, shut, now>>
Asking == asks < MaxAsks /\ asks' = asks + 1

-----------------------------------------------------------------------------
(* The world outside *)

Tick == now < MaxTime /\ now' = now + 1 /\ UNCHANGED <<shift, fit, shut, asks, desk>>

(* Credentials are renewed, revoked, or fetched from the verifier; jobs close and open. *)
Changes ==
    /\ Asking
    /\ \/ fit' = ~fit /\ UNCHANGED shut
       \/ \E jobs \in SUBSET Job : jobs # shut /\ shut' = jobs /\ UNCHANGED fit
    /\ UNCHANGED <<shift, now, desk>>

ServerStops(d) == desk[d] # Idle /\ Rests(d) /\ UNCHANGED <<shift, World, asks>>

-----------------------------------------------------------------------------
(* At the door *)

openCheckinOf == {s \in Shift : IsOpen(s)}

(* Somebody on another job is refused, or moved if that is asks for. *)
asksCheckIn(d) ==
    /\ desk[d] = Idle /\ Asking
    /\ \E j \in Job \ shut, by \in {"nobody", "lead", "admin"} :
          /\ \A s \in openCheckinOf : shift[s].job # j
          /\ desk' = [desk EXCEPT ![d] = [Idle EXCEPT !.at = "judge", !.job = j, !.by = by,
                !.of = IF openCheckinOf = {} THEN 0 ELSE CHOOSE s \in openCheckinOf : TRUE]]
    /\ UNCHANGED <<shift, World>>

(* by: who overrides, with a reason *)
decideGate(red, job, by) ==
    \/ ~red \/ job \notin Strict
    \/ by = "admin" \/ (by = "lead" /\ job \notin AdminOnly)

judge(d) ==
    /\ desk[d].at = "judge"
    /\ desk' = [desk EXCEPT ![d] =
          IF ~decideGate(~fit, @.job, @.by) THEN Idle
          ELSE [@ EXCEPT !.red = ~fit, !.move = desk[d].of # 0,
                         !.at = IF desk[d].of = 0 THEN "start" ELSE "load"]]
    /\ UNCHANGED <<shift, World, asks>>

(* The shift that was open is closed first; then the index decides between two scans. *)
checkIn(d) ==
    /\ desk[d].at = "start" /\ Len(shift) < MaxShifts
    /\ shift' = IF Taken(0) THEN shift
                ELSE Append(shift, NewShift(desk[d].job, desk[d].red, desk[d].by))
    /\ Rests(d)
    /\ UNCHANGED <<World, asks>>

-----------------------------------------------------------------------------
(* Off the clock *)

(* By the shift, by the badge, or everybody on the job: at a time, or now. *)
asksCheckOut(d) ==
    /\ desk[d] = Idle /\ Asking
    /\ \E s \in openCheckinOf, out \in {Kept} \cup Time :
          desk' = [desk EXCEPT ![d] = [Idle EXCEPT !.at = "load", !.of = s, !.out = out]]
    /\ UNCHANGED <<shift, World>>

(* A move goes out now. *)
loadCheckin(d) ==
    /\ desk[d].at = "load"
    /\ LET s == desk[d].of
           out == IF desk[d].out = Kept THEN now ELSE desk[d].out
       IN desk' = [desk EXCEPT ![d] = IF IsOpen(s) /\ TimesInOrder(shift[s].in, out)
                                      THEN [@ EXCEPT !.at = "close", !.out = out] ELSE Idle]
    /\ UNCHANGED <<shift, World, asks>>

(* Mutant: the row is closed by its id. *)
StillOpenByIdOnly(s) == shift[s].job # NoJob

StillOpen(s) == IsOpen(s)

checkOut(d) ==
    /\ desk[d].at = "close"
    /\ LET s == desk[d].of
       IN IF StillOpen(s) /\ TimesInOrder(shift[s].in, desk[d].out)
          THEN /\ shift' = [shift EXCEPT ![s].out = desk[d].out]
               /\ desk' = [desk EXCEPT ![d] = IF @.move THEN [@ EXCEPT !.at = "start"] ELSE Idle]
          ELSE Rests(d) /\ UNCHANGED shift
    /\ UNCHANGED <<World, asks>>

-----------------------------------------------------------------------------
(* The timesheet *)

asksCorrection(d) ==
    /\ desk[d] = Idle /\ Asking
    /\ \E s \in Shift, in \in {Kept} \cup Time, out \in {Kept, OnClock} \cup Time :
          /\ shift[s].job # NoJob /\ (in # Kept \/ out # Kept)
          /\ TimesInOrder(IF in = Kept THEN shift[s].in ELSE in, IF out = Kept THEN shift[s].out ELSE out)
          /\ desk' = [desk EXCEPT ![d] = [Idle EXCEPT !.at = "correct", !.of = s,
                                                      !.in = in, !.out = out]]
    /\ UNCHANGED <<shift, World>>

(* Only what the patch names is written, if the database has it. *)
updateCheckin(d) ==
    /\ desk[d].at = "correct"
    /\ LET s == desk[d].of
           in == IF desk[d].in = Kept THEN shift[s].in ELSE desk[d].in
           out == IF desk[d].out = Kept THEN shift[s].out ELSE desk[d].out
       IN shift' = IF shift[s].job # NoJob /\ TimesInOrder(in, out) /\ ~(out = OnClock /\ Taken(s))
                   THEN [shift EXCEPT ![s].in = in, ![s].out = out, ![s].fixed = TRUE] ELSE shift
    /\ Rests(d)
    /\ UNCHANGED <<World, asks>>

deleteCheckin(d) ==
    /\ desk[d] = Idle /\ Asking
    /\ \E s \in Shift : shift[s].job # NoJob /\ shift' = [shift EXCEPT ![s].job = NoJob]
    /\ UNCHANGED <<World, desk>>

-----------------------------------------------------------------------------
CrewNext ==
    \/ Tick \/ Changes
    \/ \E d \in Desk :
          \/ asksCheckIn(d) \/ judge(d) \/ checkIn(d)
          \/ asksCheckOut(d) \/ loadCheckin(d) \/ checkOut(d)
          \/ asksCorrection(d) \/ updateCheckin(d) \/ deleteCheckin(d) \/ ServerStops(d)

CrewSpec == CrewInit /\ [][CrewNext]_crewVars

-----------------------------------------------------------------------------
(* Properties *)

(* docs/crew.md:267, 0039_crew.sql:152: nobody is on two jobs at once, and hours count once: two
   shifts nobody corrected overlap by what a check-out may lie ahead at most. *)
HoursCountOnce ==
    \A s, t \in Shift : s < t /\ shift[s].job # NoJob /\ shift[t].job # NoJob =>
        /\ ~(IsOpen(s) /\ IsOpen(t))
        /\ ~shift[s].fixed /\ ~shift[t].fixed => ~IsOpen(s) /\ shift[s].out <= shift[t].in + Ahead

(* The compliance seen at the door is kept, and where the policy blocks, nobody is in
   without it who was not overridden by someone who may. *)
DoorHolds == \A s \in Shift : shift[s].red => shift[s].job \notin Strict \/
    shift[s].by = "admin" \/ (shift[s].by = "lead" /\ shift[s].job \notin AdminOnly)

(* checkins.ts:320, 337: whoever was checked out stays so, at that time, but for a
   correction of the timesheet. *)
OutStands ==
    \A s \in Shift : shift[s].out # OnClock /\ shift'[s].out # shift[s].out =>
        \E d \in Desk : desk[d].at = "correct" /\ desk[d].of = s /\ desk'[d] = Idle

(* The hours of a worker stay true, over scans, moves and corrections that cross. *)
ShiftsSound == [][HoursCountOnce' /\ DoorHolds' /\ OutStands]_crewVars
=============================================================================
