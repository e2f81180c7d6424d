------------------------------ MODULE ClaimReview ------------------------------
(* A claim for what was lost, damaged or late (claims/claims.ts, workflow.ts, totals.ts,
   sla.ts).  Its lines and its status change in transactions that lock its row and check
   it again.  A typed total, a moved deadline, a reviewer and a deletion are checked
   against a row read before, and written by id.  Every server watches the deadline.

   A line's approved amount is one unit of money; of the estimate, which follows the same
   rule, and of the words of a claim nothing is said.  An incident, which carries no money,
   makes the moves that are left without it. *)
EXTENDS Integers, FiniteSets

CONSTANTS
    Staff,         \* people with an account
    Chief,         \* the administrators among them
    Nobody,
    Subject,       \* what a line may be about
    MaxDeadlines,  \* bound: deadlines set on the claim
    MaxPending      \* bound: requests at once that write by id

ASSUME ClaimAssumption ==
    /\ Chief \subseteq Staff /\ Nobody \notin Staff /\ IsFiniteSet(Staff) /\ IsFiniteSet(Subject)
    /\ MaxDeadlines \in Nat /\ MaxPending \in Nat

VARIABLES
    claim,      \* its row, with its lines
    pending,    \* [Staff -> what somebody checked, and is about to write]
    deadlines,  \* how many were set
    told,       \* history: [deadline -> times it was announced as passed]
    settled     \* history: the lines the decision that stands was about

claimVars == <<claim, pending, deadlines, told, settled>>

Undecided == {"draft", "submitted", "under_review"}
Deciding == {"submitted", "under_review"}
Decided == {"approved", "denied", "paid", "closed"}

(* Approving, denying, paying and undoing one of them is for those who decide. *)
Decision == {<<"under_review", "approved">>, <<"under_review", "denied">>, <<"approved", "paid">>}
                \cup {<<s, "under_review">> : s \in {"approved", "denied", "closed"}}
Transitions ==
    Decision \cup {<<s, "closed">> : s \in Undecided \cup {"approved", "denied", "paid"}}
             \cup {<<s, "draft">> : s \in Deciding}
             \cup {<<"draft", "submitted">>, <<"submitted", "under_review">>}

Unknown == -1
NoLines == [x \in Subject |-> "off"]
NoClaim == [status |-> "none", listed |-> FALSE, lines |-> NoLines,
            total |-> Unknown, typed |-> "no", opener |-> Nobody, reporter |-> Nobody, reviewer |-> Nobody, frozen |-> FALSE,
            due |-> 0, breached |-> FALSE, erased |-> "no"]
NotPending == [op |-> "none", crossed |-> FALSE, to |-> Nobody]

ClaimInit ==
    /\ claim = NoClaim
    /\ pending = [p \in Staff |-> NotPending]
    /\ deadlines = 0
    /\ told = [d \in 1 .. MaxDeadlines |-> 0]
    /\ settled = NoLines

Present == claim.status \in Undecided \cup Decided
On(lines) == {x \in Subject : lines[x] # "off"}

(* A denied line approves nothing; with nothing decided there is no total yet. *)
claimTotal(lines) ==
    IF \A x \in On(lines) : lines[x] = "open" THEN Unknown
    ELSE Cardinality({x \in Subject : lines[x] \in {"priced", "granted"}})

isLineDecided(l) == l \in {"granted", "denied"}

(* The requests under way read the claim as it was before. *)
Overtaken(a) == [a EXCEPT !.crossed = a.op \in {"total", "delete"}]
OvertakesPending == pending' = [p \in Staff |-> Overtaken(pending[p])]

decisionRefusal(p) == p \notin Chief /\ (claim.reporter = p \/ claim.reviewer # p)

-----------------------------------------------------------------------------
(* Opening it *)

(* Of the four there could be these two: a loss or damage somebody reports, which needs
   its lines, and a delay taken down for somebody else, which does not. *)
createClaim(p) ==
    /\ claim = NoClaim
    /\ \E on \in SUBSET Subject, loss \in BOOLEAN :
          claim' = [NoClaim EXCEPT !.status = "draft", !.listed = loss, !.opener = p,
                                   !.reporter = IF loss THEN p ELSE Nobody,
                                   !.lines = [x \in Subject |-> IF x \in on THEN "open" ELSE "off"]]
    /\ UNCHANGED <<pending, deadlines, told, settled>>

(* From the portal it is submitted in the transaction that opens it. *)
fileClaim ==
    /\ claim = NoClaim
    /\ deadlines < MaxDeadlines
    /\ \E on \in (SUBSET Subject) \ {{}} :
          claim' = [NoClaim EXCEPT !.status = "submitted", !.listed = TRUE, !.frozen = TRUE,
                                   !.due = deadlines + 1,
                                   !.lines = [x \in Subject |-> IF x \in on THEN "open" ELSE "off"]]
    /\ deadlines' = deadlines + 1
    /\ UNCHANGED <<pending, told, settled>>

-----------------------------------------------------------------------------
(* Lines, under the lock *)

(* The sums of the last line go with it. *)
syncTotals(lines) ==
    claim' = [claim EXCEPT !.lines = lines, !.typed = "no", !.total = claimTotal(lines)]

assertEditable == claim.status \in Undecided

addLines ==
    /\ assertEditable
    /\ \E more \in (SUBSET Subject) \ {{}} :
          /\ \E x \in more : claim.lines[x] = "off"
          /\ syncTotals([x \in Subject |-> IF x \in more /\ claim.lines[x] = "off" THEN "open"
                                         ELSE claim.lines[x]])
    /\ OvertakesPending
    /\ UNCHANGED <<deadlines, told, settled>>

(* An amount and a resolution may come apart; denying approves nothing.  Words and
   estimates anyone may change, and the sums are taken again. *)
updateLine(p, x) ==
    /\ assertEditable
    /\ claim.lines[x] # "off"
    /\ \E l \in {"open", "priced", "granted", "denied"} :
          /\ l # claim.lines[x] => claim.status \in Deciding /\ ~decisionRefusal(p)
          /\ syncTotals([claim.lines EXCEPT ![x] = l])
    /\ OvertakesPending
    /\ UNCHANGED <<deadlines, told, settled>>

removeLine(x) ==
    /\ assertEditable
    /\ claim.lines[x] # "off"
    /\ syncTotals([claim.lines EXCEPT ![x] = "off"])
    /\ OvertakesPending
    /\ UNCHANGED <<deadlines, told, settled>>

-----------------------------------------------------------------------------
(* The workflow, under the lock *)

(* What is paid out: of a claim with lines what they add up to now, a total  *)
(* typed late or not; of one without, the typed total.                       *)
approvedTotal == IF On(claim.lines) = {} THEN claim.total ELSE claimTotal(claim.lines)

checkTransition(to) ==
    LET on == On(claim.lines)
    IN /\ <<claim.status, to>> \in Transitions
       /\ to = "submitted" /\ claim.listed => on # {}
       /\ to = "approved" => \A x \in on : isLineDecided(claim.lines[x])
       /\ to = "approved" /\ on = {} => claim.total # Unknown
       /\ to = "paid" => approvedTotal > 0

(* Submitting and reopening start a deadline; returning to the reporter clears it. *)
StartsClock(to) == to = "submitted" \/ (to = "under_review" /\ claim.status \in Decided)

transitionStamps(to) ==
    CASE StartsClock(to) -> [due |-> deadlines + 1, breached |-> FALSE]
      [] to = "draft" -> [due |-> 0, breached |-> FALSE]
      [] OTHER -> [due |-> claim.due, breached |-> claim.breached]

setStatus(p, to) ==
    /\ Present
    /\ checkTransition(to)
    /\ <<claim.status, to>> \in Decision => ~decisionRefusal(p)
    /\ StartsClock(to) => deadlines < MaxDeadlines
    /\ LET stamps == transitionStamps(to)
       IN claim' = [claim EXCEPT !.status = to, !.due = stamps.due, !.breached = stamps.breached,
                                 !.frozen = @ \/ to = "submitted"]
    /\ deadlines' = IF StartsClock(to) THEN deadlines + 1 ELSE deadlines
    /\ settled' = IF to \notin Decided THEN NoLines
                  ELSE IF claim.status \in Decided THEN settled ELSE claim.lines
    /\ OvertakesPending
    /\ UNCHANGED told

-----------------------------------------------------------------------------
(* What is checked first and written by id *)

MeansTo(p, op, to) ==
    /\ pending[p] = NotPending /\ Cardinality({q \in Staff : pending[q] # NotPending}) < MaxPending
    /\ pending' = [pending EXCEPT ![p] = [op |-> op, crossed |-> FALSE, to |-> to]]
    /\ UNCHANGED <<claim, deadlines, told, settled>>

askUpdateClaim(p) ==
    /\ claim.status \in Deciding /\ ~decisionRefusal(p)
    /\ \/ On(claim.lines) = {} /\ MeansTo(p, "total", Nobody)
       \/ MeansTo(p, "deadline", Nobody)

(* One takes it or puts it down; an administrator hands it to anyone. *)
askAssignClaim(p) ==
    /\ Present /\ claim.status # "closed"
    /\ \E to \in (Staff \cup {Nobody}) \ {claim.reviewer} :
          /\ p \in Chief \/ {claim.reviewer, to} = {p, Nobody}
          /\ MeansTo(p, "reviewer", to)

(* Mutant: a draft is a draft, though it was submitted once. *)
MayDeleteAnyDraft(p) == claim.status = "draft" /\ (p \in Chief \/ claim.opener = p)

(* What was submitted once is on the record, returned to its reporter or not. *)
MayDelete(p) ==
    claim.status = "draft" /\ (p \in Chief \/ (claim.opener = p /\ ~claim.frozen))

askDeleteClaim(p) == MayDelete(p) /\ MeansTo(p, "delete", Nobody)

(* The row is gone, or the server stopped: nothing is written. *)
Misses(p) ==
    /\ pending[p] # NotPending
    /\ pending' = [pending EXCEPT ![p] = NotPending]
    /\ UNCHANGED <<claim, deadlines, told, settled>>

Writes(p, op) ==
    /\ Present
    /\ pending[p].op = op
    /\ pending' = [q \in Staff |-> IF q = p THEN NotPending ELSE Overtaken(pending[q])]
    /\ UNCHANGED <<told, settled>>

saveTotal(p) ==
    /\ Writes(p, "total")
    /\ \E n \in 0 .. Cardinality(Subject) :
          claim' = [claim EXCEPT !.total = n,
                                 !.typed = IF pending[p].crossed THEN "late" ELSE "fair"]
    /\ UNCHANGED deadlines

(* A moved deadline is a new one: its breach is announced again. *)
saveDeadline(p) ==
    /\ Writes(p, "deadline")
    /\ deadlines < MaxDeadlines
    /\ claim' = [claim EXCEPT !.due = deadlines + 1, !.breached = FALSE]
    /\ deadlines' = deadlines + 1

assignClaim(p) ==
    /\ Writes(p, "reviewer")
    /\ claim' = [claim EXCEPT !.reviewer = pending[p].to]
    /\ UNCHANGED deadlines

deleteClaim(p) ==
    /\ Writes(p, "delete")
    /\ claim' = [NoClaim EXCEPT !.status = "deleted", !.frozen = claim.frozen,
                                !.erased = IF p \in Chief THEN "by the chief"
                                           ELSE IF pending[p].crossed THEN "late" ELSE "fair"]
    /\ UNCHANGED deadlines

-----------------------------------------------------------------------------
(* The deadline *)

(* Of a claim with a deadline; that it has passed may be at any time. *)
Breached == Present /\ claim.due # 0 /\ ~claim.breached /\ claim.status \in Deciding

(* One statement finds it and stamps it, whichever server's, and that server goes on to
   announce it, or stops before. *)
checkSlaBreaches ==
    /\ Breached
    /\ claim' = [claim EXCEPT !.breached = TRUE]
    /\ told' \in {told, [told EXCEPT ![claim.due] = @ + 1]}
    /\ UNCHANGED <<pending, deadlines, settled>>

-----------------------------------------------------------------------------
ClaimNext ==
    \/ fileClaim \/ addLines \/ checkSlaBreaches
    \/ \E x \in Subject : removeLine(x) \/ \E p \in Staff : updateLine(p, x)
    \/ \E p \in Staff :
          \/ createClaim(p) \/ askUpdateClaim(p) \/ askAssignClaim(p) \/ askDeleteClaim(p)
          \/ Misses(p) \/ saveTotal(p) \/ saveDeadline(p) \/ assignClaim(p) \/ deleteClaim(p)
          \/ \E to \in Undecided \cup Decided : setStatus(p, to)

ClaimSpec == ClaimInit /\ [][ClaimNext]_claimVars

-----------------------------------------------------------------------------
(* Properties *)

ClaimTypeOK ==
    /\ claim.status \in {"none", "deleted"} \cup Undecided \cup Decided
    /\ claim.lines \in [Subject -> {"off", "open", "priced", "granted", "denied"}]
    /\ claim.total \in {Unknown} \cup 0 .. Cardinality(Subject)
    /\ claim.due \in 0 .. deadlines /\ deadlines \in 0 .. MaxDeadlines
    /\ \A p \in Staff : pending[p].op \in {"none", "total", "deadline", "reviewer", "delete"}

(* docs/claims.md:136-137: the total is the sum of the lines.  What was typed stands only
   without lines, unless lines came under a request that had found none. *)
TotalsFollow ==
    /\ claim.typed = "no" => claim.total = claimTotal(claim.lines)
    /\ claim.typed = "fair" => On(claim.lines) = {}

(* docs/claims.md:113-114: what was decided stays as it was decided, line by line, until
   somebody who may decide reopens it; and approving decided every line. *)
DecisionStands ==
    claim.status \in Decided =>
        /\ claim.lines = settled
        /\ claim.status \in {"approved", "paid"} =>
              \A x \in On(claim.lines) : isLineDecided(claim.lines[x])

(* docs/claims.md:115-117: what was submitted once is deleted by an administrator only,
   whatever it went through since, unless it was submitted under the deletion. *)
RecordStands == claim.status = "deleted" /\ claim.frozen => claim.erased # "fair"

(* docs/claims.md:148-158: a deadline runs while a decision is open, however it was
   returned, withdrawn and reopened; one that passes is announced once by all servers. *)
DeadlineKept ==
    /\ claim.status \in Deciding => claim.due # 0
    /\ \A d \in 1 .. MaxDeadlines : told[d] <= 1

(* claims.ts: totals, decisions, the record and the deadline stay right through every order
   of requests that check under the lock, that check before it, and of watchers. *)
ClaimSound == ClaimTypeOK /\ TotalsFollow /\ DecisionStands /\ RecordStands /\ DeadlineKept
=============================================================================
