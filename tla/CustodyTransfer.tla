---------------------------- MODULE CustodyTransfer ----------------------------
(***************************************************************************)
(* One handoff: a list is scanned, its count confirmed, both parties sign  *)
(* (one of them perhaps by a one-time link, on a page loaded a while ago), *)
(* and the finished transfer gets its receipt, its entry in the audit log  *)
(* and its effects.                                                        *)
(*                                                                         *)
(* Every change takes the transfer's lock for its whole transaction, so it *)
(* is one step here.  Finishing is not: it takes another lock and commits  *)
(* each of its steps on its own.                                           *)
(***************************************************************************)
EXTENDS Integers, Sequences

CONSTANTS
    Header,      \* what a transfer says besides its list: parties, place, seals
    Line,
    Finisher,    \* requests that finish a completed transfer
    MaxLinks,    \* bound: signing links issued
    MaxRepeats   \* bound: signatures lost with their transaction, and finishers that die

ASSUME CustodyAssumption == MaxLinks \in Nat /\ MaxRepeats \in Nat

VARIABLES
    transfer,    \* its row and its lines
    signatures,  \* the signatures table
    issued,      \* links issued; a token is its number
    page,        \* the page behind a link, as it was loaded
    finishing,   \* [Finisher -> how far it got, and the evidence it knows]
    receipts,    \* receipts written
    entries,     \* what the audit log got
    applied,     \* how often the effects were applied
    repeats      \* counts what MaxRepeats bounds

custodyVars == <<transfer, signatures, issued, page, finishing, receipts, entries, applied, repeats>>

Party == {"from", "to"}
Purpose == {"delivery", "handoff"}
Unsigned == [party |-> "none"]
NoToken == 0
NoLink == [token |-> NoToken, party |-> "to", expired |-> FALSE]
Nothing == 0
NoEvidence == [receipt |-> Nothing, entry |-> Nothing, effects |-> FALSE]
NoPage == [token |-> NoToken]

NoTransfer == [status |-> "none", purpose |-> "handoff", header |-> "none", lines |-> {},
               marked |-> {}, fixed |-> {}, sig |-> [p \in Party |-> Unsigned],
               link |-> NoLink, evidence |-> NoEvidence]

CustodyInit ==
    /\ transfer = NoTransfer
    /\ signatures = {}
    /\ issued = 0
    /\ page = NoPage
    /\ finishing = [f \in Finisher |-> [pc |-> "idle", knows |-> NoEvidence]]
    /\ receipts = 0
    /\ entries = <<>>
    /\ applied = 0
    /\ repeats = 0

transferContent(t) ==
    [header |-> t.header, purpose |-> t.purpose, lines |-> t.lines, marked |-> t.marked]

assertDraft == transfer.status = "draft"

ListOnly == UNCHANGED <<signatures, issued, page, finishing, receipts, entries, applied, repeats>>

-----------------------------------------------------------------------------
(* The list *)

createTransfer ==
    /\ transfer = NoTransfer
    /\ \E h \in Header, p \in Purpose :
          transfer' = [transfer EXCEPT !.status = "draft", !.header = h, !.purpose = p]
    /\ ListOnly

updateTransfer ==
    /\ assertDraft
    /\ \E h \in Header, p \in Purpose :
          transfer' = [transfer EXCEPT !.header = h, !.purpose = p]
    /\ ListOnly

scanIntoTransfer ==
    /\ assertDraft
    /\ \E l \in Line \ transfer.lines : transfer' = [transfer EXCEPT !.lines = @ \cup {l}]
    /\ ListOnly

removeLines ==
    /\ assertDraft
    /\ \E l \in transfer.lines :
          transfer' = [transfer EXCEPT !.lines = @ \ {l}, !.marked = @ \ {l}]
    /\ ListOnly

(* Lines found missing, damaged or refused. *)
setOutcomes ==
    /\ assertDraft
    /\ \E m \in SUBSET transfer.lines : transfer' = [transfer EXCEPT !.marked = m]
    /\ ListOnly

CountConfirmed(t, m) == [t EXCEPT !.status = "locked", !.marked = m, !.fixed = t.lines]

lockTransfer ==
    /\ assertDraft
    /\ transfer.lines # {}
    /\ \E m \in SUBSET transfer.lines : transfer' = CountConfirmed(transfer, m)
    /\ ListOnly

-----------------------------------------------------------------------------
(* Signatures *)

Requires(p) == IF p = "delivery" THEN {"to"} ELSE Party

SignedBy(t) == {p \in Party : t.sig[p] # Unsigned}

Completes(t, party) == Requires(t.purpose) \subseteq SignedBy(t) \cup {party}

(* The row once a party signed: a link is spent when used, and pointless once its party
   signed here or the transfer is done. *)
WithSignature(t, s) ==
    LET done == Completes(t, s.party)
    IN [t EXCEPT !.sig[s.party] = s,
                 !.link = IF s.token # NoToken \/ @.party = s.party \/ done
                          THEN [@ EXCEPT !.token = NoToken] ELSE @,
                 !.status = IF done THEN "completed" ELSE @]

(* The signature is stored on a connection of its own, before the transfer's transaction
   commits: it may be all there is. *)
signInTx(party, m, token, agreed) ==
    LET t == IF assertDraft THEN CountConfirmed(transfer, m) ELSE transfer
        s == [party |-> party, token |-> token, covers |-> transferContent(t), agreed |-> agreed]
    IN /\ transfer.status \in {"draft", "locked"}
       /\ IF assertDraft
          THEN transfer.lines # {} /\ m \subseteq transfer.lines
               /\ (token # NoToken => transfer.purpose = "delivery")
          ELSE m = transfer.marked
       /\ transfer.sig[party] = Unsigned
       /\ signatures' = signatures \cup {s}
       /\ \/ transfer' = WithSignature(t, s) /\ UNCHANGED repeats
          \/ repeats < MaxRepeats /\ repeats' = repeats + 1 /\ UNCHANGED transfer
       /\ UNCHANGED <<issued, page, finishing, receipts, entries, applied>>

(* On the crew's device, of what it stores now. *)
signTransfer(party) ==
    \E m \in SUBSET Line :
        signInTx(party, m, NoToken, [transferContent(transfer) EXCEPT !.marked = m])

Live(link, token) == token # NoToken /\ link.token = token /\ ~link.expired

OpenPage ==
    /\ Live(transfer.link, transfer.link.token)
    /\ page' = [token |-> transfer.link.token, shows |-> transferContent(transfer)]
    /\ UNCHANGED <<transfer, signatures, issued, finishing, receipts, entries, applied, repeats>>

(* Mutant: the lock finds the link in place, and nobody asks linkState() again. *)
LinkActiveByToken(token) == token # NoToken /\ transfer.link.token = token

LinkActive(token) == Live(transfer.link, token)

(* Mutant: the page's fingerprint covers the list alone. *)
SameAsShownList == page.shows.lines = transfer.lines

SameAsShown == page.shows = transferContent(transfer)

signByLink ==
    /\ page # NoPage
    /\ LinkActive(page.token)
    /\ SameAsShown
    /\ \E m \in SUBSET Line :
          signInTx(transfer.link.party, m, page.token, [page.shows EXCEPT !.marked = m])

-----------------------------------------------------------------------------
(* Links, and giving up *)

issueLink(party) ==
    /\ issued < MaxLinks
    /\ transfer.status = "locked" \/ (assertDraft /\ transfer.purpose = "delivery" /\ party = "to")
    /\ transfer.sig[party] = Unsigned
    /\ issued' = issued + 1
    /\ transfer' = [transfer EXCEPT !.link = [token |-> issued + 1, party |-> party, expired |-> FALSE]]
    /\ UNCHANGED <<signatures, page, finishing, receipts, entries, applied, repeats>>

revokeLink ==
    /\ transfer.link.token # NoToken
    /\ transfer' = [transfer EXCEPT !.link.token = NoToken]
    /\ ListOnly

LinkExpires ==
    /\ transfer.link.token # NoToken /\ ~transfer.link.expired
    /\ transfer' = [transfer EXCEPT !.link.expired = TRUE]
    /\ ListOnly

voidTransfer ==
    /\ transfer.status \in {"draft", "locked"}
    /\ transfer' = [transfer EXCEPT !.status = "void", !.link.token = NoToken]
    /\ ListOnly

-----------------------------------------------------------------------------
(* Finishing: the receipt, the log, the effects, each recorded once it is done *)

Stands(f, pc) == finishing[f].pc = pc
Knows(f) == finishing[f].knows
Goes(f, pc, knows) == finishing' = [finishing EXCEPT ![f] = [pc |-> pc, knows |-> knows]]

NextPc(knows) ==
    IF knows.receipt = Nothing THEN "receipt"
    ELSE IF knows.entry = Nothing THEN "entry" ELSE IF ~knows.effects THEN "effects" ELSE "idle"

LockFree(f) == \A g \in Finisher \ {f} : Stands(g, "idle")

finalizeTransfer(f) ==
    /\ Stands(f, "idle")
    /\ LockFree(f)
    /\ transfer.status = "completed"
    /\ NextPc(transfer.evidence) # "idle"
    /\ Goes(f, NextPc(transfer.evidence), transfer.evidence)
    /\ UNCHANGED <<transfer, signatures, issued, page, receipts, entries, applied, repeats>>

SaveReceipt(f) ==
    /\ Stands(f, "receipt")
    /\ receipts' = receipts + 1
    /\ Goes(f, "note receipt", [Knows(f) EXCEPT !.receipt = receipts + 1])
    /\ UNCHANGED <<transfer, signatures, issued, page, entries, applied, repeats>>

recordEvidence(f, evidence, pc) ==
    /\ transfer' = [transfer EXCEPT !.evidence = evidence]
    /\ Goes(f, pc, Knows(f))
    /\ UNCHANGED <<signatures, issued, page, receipts, entries, applied, repeats>>

NoteReceipt(f) ==
    /\ Stands(f, "note receipt")
    /\ recordEvidence(f, [transfer.evidence EXCEPT !.receipt = Knows(f).receipt], NextPc(Knows(f)))

(* publish() says nothing when it fails; the entry is left to a later attempt. *)
PublishTransfer(f) ==
    /\ Stands(f, "entry")
    /\ \/ /\ entries' = Append(entries, [receipt |-> Knows(f).receipt, content |-> transferContent(transfer)])
          /\ Goes(f, "note entry", [Knows(f) EXCEPT !.entry = Len(entries) + 1])
       \/ /\ Goes(f, IF Knows(f).effects THEN "idle" ELSE "effects", Knows(f))
          /\ UNCHANGED entries
    /\ UNCHANGED <<transfer, signatures, issued, page, receipts, applied, repeats>>

NoteEntry(f) ==
    /\ Stands(f, "note entry")
    /\ recordEvidence(f, [transfer.evidence EXCEPT !.entry = Knows(f).entry], NextPc(Knows(f)))

applyEffects(f) ==
    /\ Stands(f, "effects")
    /\ applied' = applied + 1
    /\ Goes(f, "note effects", Knows(f))
    /\ UNCHANGED <<transfer, signatures, issued, page, receipts, entries, repeats>>

NoteEffects(f) ==
    /\ Stands(f, "note effects")
    /\ recordEvidence(f, [transfer.evidence EXCEPT !.effects = TRUE], "idle")

(* The process dies, or a step fails: the lock goes with the connection. *)
FinisherDies(f) ==
    /\ ~Stands(f, "idle")
    /\ repeats < MaxRepeats
    /\ repeats' = repeats + 1
    /\ Goes(f, "idle", NoEvidence)
    /\ UNCHANGED <<transfer, signatures, issued, page, receipts, entries, applied>>

-----------------------------------------------------------------------------
CustodyNext ==
    \/ createTransfer \/ updateTransfer \/ scanIntoTransfer \/ removeLines \/ setOutcomes \/ lockTransfer
    \/ \E p \in Party : signTransfer(p) \/ issueLink(p)
    \/ OpenPage \/ signByLink \/ revokeLink \/ LinkExpires \/ voidTransfer
    \/ \E f \in Finisher :
          \/ finalizeTransfer(f) \/ SaveReceipt(f) \/ NoteReceipt(f)
          \/ PublishTransfer(f) \/ NoteEntry(f) \/ applyEffects(f) \/ NoteEffects(f)
          \/ FinisherDies(f)

CustodySpec == CustodyInit /\ [][CustodyNext]_custodyVars

-----------------------------------------------------------------------------
(* Properties *)

CustodyTypeOK ==
    /\ transfer.status \in {"none", "draft", "locked", "completed", "void"}
    /\ transfer.marked \subseteq transfer.lines /\ transfer.lines \subseteq Line
    /\ transfer.sig \in [Party -> signatures \cup {Unsigned}]
    /\ transfer.link.token \in 0 .. issued
    /\ transfer.evidence.receipt \in 0 .. receipts
    /\ transfer.evidence.entry \in 0 .. Len(entries)

(* verify.ts:12-14: from the first signature on, the transfer says what each of its
   signatures covers, and its list is the one whose count was confirmed. *)
SignedStands ==
    \A p \in SignedBy(transfer) :
        /\ transfer.sig[p].covers = transferContent(transfer)
        /\ transfer.lines = transfer.fixed

(* content.ts:91-95: a signature made by link covers exactly what the page showed, and
   the signer's own findings, though the crew went on scanning. *)
SignedAsShown == \A s \in signatures : s.covers = s.agreed

(* transfers.ts:44-46: a signature by link and one on the device do not both complete a
   transfer, and neither completes it alone where both are needed. *)
CompleteMeansSigned ==
    transfer.status = "completed" <=> Requires(transfer.purpose) \subseteq SignedBy(transfer)

(* transfers.ts:613: a link that was used, replaced, revoked or has run out signs no
   more, the page behind it still open: a signature that came by a link came by the one
   the transfer had at that moment, and it had not expired. *)
DeadLinksSignNothing ==
    [][\A s \in signatures' \ signatures :
          s.token # NoToken => s.token = transfer.link.token /\ ~transfer.link.expired]_custodyVars

(* verify.ts:15-17: the entry the transfer names holds the list and the receipt it names,
   however often finishing was cut short. *)
LogMatches ==
    transfer.evidence.entry # Nothing =>
        entries[transfer.evidence.entry] =
            [receipt |-> transfer.evidence.receipt, content |-> transferContent(transfer)]

(* finalize.ts:158-160: the receipt, the entry and the effects come once, and once more at
   most for each attempt that died before it recorded them. *)
RepeatedOnlyByDeaths ==
    /\ receipts <= 1 + repeats
    /\ Len(entries) <= 1 + repeats
    /\ applied <= 1 + repeats

(* transfers.ts and finalize.ts, of every state: what was signed is what was shown and is
   what stands, and finishing it is one receipt and one entry that agree. *)
HandoffSound ==
    /\ CustodyTypeOK
    /\ SignedStands
    /\ SignedAsShown
    /\ CompleteMeansSigned
    /\ LogMatches
    /\ RepeatedOnlyByDeaths
=============================================================================
