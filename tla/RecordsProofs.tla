---------------------------- MODULE RecordsProofs ----------------------------
(***************************************************************************)
(* Proofs about two of the systems that Records runs beside each other:    *)
(* CustodyTransfer and TrackingIngest, for any values of their constants.  *)
(*                                                                         *)
(* Custody.  The paper and its finishing are two halves.  Of the paper,    *)
(* each row says whether it is Sound on its own: a draft bears no          *)
(* signature, and once its count is confirmed nothing a signature covers   *)
(* changes any more.  Of the finishing, one finisher at a time knows what  *)
(* the row says, but for the one thing it did and has not noted yet; and   *)
(* what was done without a note is paid for by a death.                    *)
(*                                                                         *)
(* Sightings.  What a batch read of the item still holds while it has the  *)
(* row's lock; ids follow the order of receipt as far as batches are       *)
(* prompt; so what the placement worker has not applied by the time its    *)
(* cursor passes can no longer be stored promptly.                         *)
(***************************************************************************)
EXTENDS CustodyTransfer, TrackingIngest, FiniteSetTheorems, SequenceTheorems,
        WellFoundedInduction, TLAPS

Status == {"none", "draft", "locked", "completed", "void"}
Pc == {"idle", "receipt", "note receipt", "entry", "note entry", "effects", "note effects"}
Headers == Header \cup {"none"}
Content == [header : Headers, purpose : Purpose, lines : SUBSET Line, marked : SUBSET Line]
Signature == [party : Party, token : Nat, covers : Content, agreed : Content]
Link == [token : Nat, party : Party, expired : BOOLEAN]
Evidence == [receipt : Nat, entry : Nat, effects : BOOLEAN]
Entry == [receipt : Nat, content : Content]
Transfer == [status : Status, purpose : Purpose, header : Headers, lines : SUBSET Line,
             marked : SUBSET Line, fixed : SUBSET Line, sig : [Party -> Signature \cup {Unsigned}],
             link : Link, evidence : Evidence]
Work == [pc : Pc, knows : Evidence]

Typed ==
    /\ transfer \in Transfer
    /\ signatures \subseteq Signature
    /\ issued \in Nat /\ receipts \in Nat /\ applied \in Nat /\ repeats \in Nat
    /\ entries \in Seq(Entry)
    /\ finishing \in [Finisher -> Work]

(* What a row says of itself. *)
Sound(t) ==
    /\ t.marked \subseteq t.lines
    /\ t.status \in {"none", "draft"} => SignedBy(t) = {}
    /\ t.status \in {"locked", "completed"} => t.lines = t.fixed
    /\ \A p \in SignedBy(t) : t.sig[p].covers = transferContent(t) /\ t.lines = t.fixed
    /\ t.status = "completed" <=> Requires(t.purpose) \subseteq SignedBy(t)
    /\ t.status # "completed" => t.evidence = NoEvidence

(* What the row names is in the signatures table and was issued. *)
Kept ==
    /\ \A p \in SignedBy(transfer) : transfer.sig[p] \in signatures
    /\ transfer.link.token <= issued

(* The receipt comes before the entry that names it. *)
Filed(e) ==
    /\ e.receipt <= receipts
    /\ e.entry <= Len(entries)
    /\ e.entry # Nothing =>
          /\ e.receipt # Nothing
          /\ entries[e.entry] = [receipt |-> e.receipt, content |-> transferContent(transfer)]

(* What a finisher at pc knows, when e is on the row. *)
Abreast(pc, k, e) ==
    /\ pc = "receipt" => k = e /\ e.receipt = Nothing
    /\ pc = "note receipt" => /\ e.receipt = Nothing /\ k.receipt # Nothing
                              /\ k = [e EXCEPT !.receipt = k.receipt]
    /\ pc = "entry" => k = e /\ e.receipt # Nothing /\ e.entry = Nothing
    /\ pc = "note entry" => /\ e.entry = Nothing /\ k.entry # Nothing
                            /\ k = [e EXCEPT !.entry = k.entry]
    /\ pc \in {"effects", "note effects"} => k = e /\ ~e.effects

OneFinishes ==
    \A f \in Finisher : ~Stands(f, "idle") =>
        /\ transfer.status = "completed"
        /\ LockFree(f)
        /\ Abreast(finishing[f].pc, Knows(f), transfer.evidence)
        /\ Filed(Knows(f))

Noting(pc) == \E f \in Finisher : Stands(f, pc)

(* What was done is on the row, about to be, or was lost with a death. *)
Paid(done, noted, pc) ==
    /\ done <= 1 + repeats
    /\ ~noted /\ ~Noting(pc) => done <= repeats

AllPaid ==
    /\ Paid(receipts, transfer.evidence.receipt # Nothing, "note receipt")
    /\ Paid(Len(entries), transfer.evidence.entry # Nothing, "note entry")
    /\ Paid(applied, transfer.evidence.effects, "note effects")

CustodyInv ==
    /\ Typed /\ Sound(transfer) /\ Kept /\ SignedAsShown
    /\ Filed(transfer.evidence) /\ OneFinishes /\ AllPaid

-----------------------------------------------------------------------------
(* The paper *)

LEMMA PartyOfASignature ==
    /\ \A s \in Signature : s # Unsigned
    /\ \A t : SignedBy(t) \subseteq Party
  BY DEF Signature, Unsigned, Party, SignedBy

LEMMA ContentTyped == \A t \in Transfer : transferContent(t) \in Content
  BY DEF Transfer, transferContent, Content

LEMMA RequiresSomebody == \A p \in Purpose : Requires(p) \subseteq Party /\ Requires(p) # {}
  BY DEF Purpose, Requires, Party

LEMMA NotLess ==
    ASSUME NEW a \in Nat, NEW b \in Nat, a <= b
    PROVE  \A n \in Nat : (n <= a => n <= b) /\ (n <= 1 + a => n <= 1 + b)
  OBVIOUS

(* Whatever leaves the finishers alone, and of a completed transfer the content. *)
LEMMA PaperStep ==
    ASSUME CustodyInv,
           transfer' \in Transfer, Sound(transfer'), transfer'.evidence = transfer.evidence,
           transfer.status = "completed" =>
               transfer'.status = "completed" /\ transferContent(transfer') = transferContent(transfer),
           signatures' \subseteq Signature, issued' \in Nat, repeats' \in Nat, repeats <= repeats',
           Kept', SignedAsShown',
           UNCHANGED <<finishing, receipts, entries, applied>>
    PROVE  CustodyInv'
  <1>1. Typed'
    BY DEF CustodyInv, Typed
  <1>2. /\ Filed(transfer.evidence)'
        /\ \A f \in Finisher : Filed(Knows(f)) /\ ~Stands(f, "idle") => Filed(Knows(f))'
    <2>1. CASE transfer.status = "completed"
      BY <2>1 DEF CustodyInv, Filed, Knows
    <2>2. CASE transfer.status # "completed"
      BY <2>2 DEF CustodyInv, Filed, Sound, NoEvidence, Nothing, OneFinishes
    <2> QED
      BY <2>1, <2>2
  <1>3. OneFinishes'
    BY <1>2 DEF CustodyInv, OneFinishes, Stands, Knows, LockFree, Abreast
  <1>4. AllPaid'
    <2>1. /\ Noting("note receipt")' <=> Noting("note receipt")
          /\ Noting("note entry")' <=> Noting("note entry")
          /\ Noting("note effects")' <=> Noting("note effects")
      BY DEF Noting, Stands
    <2>2. Len(entries) \in Nat /\ receipts \in Nat /\ applied \in Nat /\ repeats \in Nat
      BY LenProperties DEF CustodyInv, Typed
    <2>3. /\ Paid(receipts, transfer.evidence.receipt # Nothing, "note receipt")
          /\ Paid(Len(entries), transfer.evidence.entry # Nothing, "note entry")
          /\ Paid(applied, transfer.evidence.effects, "note effects")
      BY DEF CustodyInv, AllPaid
    <2>4. \A n \in Nat : (n <= repeats => n <= repeats') /\ (n <= 1 + repeats => n <= 1 + repeats')
      BY <2>2, NotLess
    <2>5. /\ Paid(receipts, transfer.evidence.receipt # Nothing, "note receipt")'
          /\ Paid(Len(entries), transfer.evidence.entry # Nothing, "note entry")'
          /\ Paid(applied, transfer.evidence.effects, "note effects")'
      BY <2>1, <2>2, <2>3, <2>4 DEF Paid
    <2> QED
      BY <2>5 DEF AllPaid
  <1> QED
    BY <1>1, <1>2, <1>3, <1>4 DEF CustodyInv

(* What a step of the list, or of a link, does not touch. *)
LEMMA ListStep ==
    ASSUME CustodyInv, NEW t \in Transfer, transfer' = t, Sound(t), t.evidence = transfer.evidence,
           transfer.status = "completed" =>
               t.status = "completed" /\ transferContent(t) = transferContent(transfer),
           t.sig = transfer.sig, t.link.token <= issued,
           ListOnly
    PROVE  CustodyInv'
  <1>1. Kept'
    BY DEF Kept, CustodyInv, SignedBy, ListOnly
  <1>2. SignedAsShown'
    BY DEF CustodyInv, SignedAsShown, ListOnly
  <1> QED
    BY <1>1, <1>2, PaperStep DEF CustodyInv, Typed, ListOnly

LEMMA DraftStep ==
    ASSUME CustodyInv, createTransfer \/ updateTransfer \/ scanIntoTransfer \/ removeLines
                           \/ setOutcomes \/ lockTransfer
    PROVE  CustodyInv'
PROOF
  <1> DEFINE t == transfer'
  <1>1. /\ transfer \in Transfer /\ Sound(transfer) /\ transfer.link.token <= issued
        /\ transfer.status \in {"none", "draft"}
    <2>1. transfer.status = "draft" \/ transfer = NoTransfer
      BY DEF createTransfer, updateTransfer, scanIntoTransfer, removeLines, setOutcomes,
             lockTransfer, assertDraft
    <2> QED
      BY <2>1 DEF CustodyInv, Typed, Kept, NoTransfer
  <1>2. /\ t \in Transfer
        /\ t.evidence = transfer.evidence /\ t.sig = transfer.sig /\ t.link = transfer.link
        /\ t.marked \subseteq t.lines
        /\ t.status \in {"draft", "locked"} /\ (t.status = "locked" => t.fixed = t.lines)
    <2>1. CASE createTransfer
      <3>1. PICK h \in Header, p \in Purpose :
               transfer' = [transfer EXCEPT !.status = "draft", !.header = h, !.purpose = p]
        BY <2>1 DEF createTransfer
      <3> QED
        BY <1>1, <3>1 DEF Transfer, Status, Headers, Sound
    <2>2. CASE updateTransfer
      <3>1. PICK h \in Header, p \in Purpose : transfer' = [transfer EXCEPT !.header = h, !.purpose = p]
        BY <2>2 DEF updateTransfer
      <3>2. transfer.status = "draft"
        BY <2>2 DEF updateTransfer, assertDraft
      <3> QED
        BY <1>1, <3>1, <3>2 DEF Transfer, Headers, Sound
    <2>3. CASE scanIntoTransfer
      BY <1>1, <2>3 DEF scanIntoTransfer, Transfer, Sound, assertDraft
    <2>4. CASE removeLines
      <3>1. PICK l : transfer' = [transfer EXCEPT !.lines = @ \ {l}, !.marked = @ \ {l}]
        BY <2>4 DEF removeLines
      <3>2. transfer.status = "draft"
        BY <2>4 DEF removeLines, assertDraft
      <3> QED
        BY <1>1, <3>1, <3>2 DEF Transfer, Sound
    <2>5. CASE setOutcomes
      BY <1>1, <2>5 DEF setOutcomes, Transfer, Sound, assertDraft
    <2>6. CASE lockTransfer
      <3>1. PICK m \in SUBSET transfer.lines :
               transfer' = [transfer EXCEPT !.status = "locked", !.marked = m, !.fixed = transfer.lines]
        BY <2>6 DEF lockTransfer, CountConfirmed
      <3> QED
        BY <1>1, <3>1 DEF Transfer, Status, Sound
    <2> QED
      BY <2>1, <2>2, <2>3, <2>4, <2>5, <2>6
  <1>3. ListOnly
    BY DEF createTransfer, updateTransfer, scanIntoTransfer, removeLines, setOutcomes, lockTransfer
  <1>4. Sound(t)
    <2>1. SignedBy(t) = {}
      BY <1>1, <1>2 DEF Sound, SignedBy
    <2>2. t.purpose \in Purpose
      BY <1>2 DEF Transfer
    <2> QED
      BY <1>1, <1>2, <2>1, <2>2, RequiresSomebody DEF Sound
  <1> HIDE DEF t
  <1> QED
    BY <1>1, <1>2, <1>3, <1>4, ListStep DEF t

LEMMA LinkStep ==
    ASSUME CustodyInv, revokeLink \/ LinkExpires \/ voidTransfer
    PROVE  CustodyInv'
PROOF
  <1> DEFINE t == transfer'
  <1>1. /\ transfer \in Transfer /\ Sound(transfer) /\ transfer.link.token <= issued
        /\ transfer.link \in Link /\ issued \in Nat
    BY DEF CustodyInv, Typed, Kept, Transfer
  <1>2. /\ t \in Transfer
        /\ t.evidence = transfer.evidence /\ t.sig = transfer.sig
        /\ t.link.token \in {NoToken, transfer.link.token}
        /\ t.lines = transfer.lines /\ t.fixed = transfer.fixed /\ t.purpose = transfer.purpose
        /\ t.marked = transfer.marked /\ t.header = transfer.header
        /\ t.status = transfer.status \/ (t.status = "void" /\ transfer.status # "completed")
    <2>1. CASE revokeLink
      BY <1>1, <2>1 DEF revokeLink, Transfer, Link, NoToken
    <2>2. CASE LinkExpires
      BY <1>1, <2>2 DEF LinkExpires, Transfer, Link, NoToken
    <2>3. CASE voidTransfer
      BY <1>1, <2>3 DEF voidTransfer, Transfer, Link, NoToken, Status
    <2> QED
      BY <2>1, <2>2, <2>3
  <1>3. ListOnly
    BY DEF revokeLink, LinkExpires, voidTransfer
  <1>4. transferContent(t) = transferContent(transfer) /\ SignedBy(t) = SignedBy(transfer)
    BY <1>2 DEF transferContent, SignedBy
  <1>5. Sound(t)
    BY <1>1, <1>2, <1>4 DEF Sound
  <1>6. t.link.token <= issued
    BY <1>1, <1>2 DEF NoToken
  <1> HIDE DEF t
  <1> QED
    BY <1>1, <1>2, <1>3, <1>4, <1>5, <1>6, ListStep DEF t

LEMMA IssueStep ==
    ASSUME CustodyInv, NEW party \in Party, issueLink(party)
    PROVE  CustodyInv'
PROOF
  <1> DEFINE t == transfer'
             new == [token |-> issued + 1, party |-> party, expired |-> FALSE]
  <1>1. /\ transfer \in Transfer /\ Sound(transfer) /\ issued \in Nat
    BY DEF CustodyInv, Typed
  <1>2. new \in Link /\ new.token = issued + 1 /\ t = [transfer EXCEPT !.link = new] /\ issued' = issued + 1
    BY <1>1 DEF issueLink, Link
  <1> HIDE DEF new
  <1>3. /\ t \in Transfer /\ t.link = new
        /\ t.evidence = transfer.evidence /\ t.sig = transfer.sig
        /\ t.lines = transfer.lines /\ t.fixed = transfer.fixed /\ t.purpose = transfer.purpose
        /\ t.marked = transfer.marked /\ t.header = transfer.header /\ t.status = transfer.status
    BY <1>1, <1>2 DEF Transfer
  <1>4. transferContent(t) = transferContent(transfer) /\ SignedBy(t) = SignedBy(transfer)
    BY <1>3 DEF transferContent, SignedBy
  <1>5. Sound(t)
    BY <1>1, <1>3, <1>4 DEF Sound
  <1>6. Kept'
    BY <1>1, <1>2, <1>3, <1>4 DEF Kept, CustodyInv, issueLink
  <1>7. SignedAsShown'
    BY DEF CustodyInv, SignedAsShown, issueLink
  <1> HIDE DEF t
  <1> QED
    BY <1>1, <1>2, <1>3, <1>4, <1>5, <1>6, <1>7, PaperStep DEF t, CustodyInv, Typed, issueLink

(* A signature is stored, and the row takes it unless its transaction is lost. *)
LEMMA SignatureIsTyped ==
    ASSUME NEW c \in Content, NEW a \in Content, NEW party \in Party, NEW token \in Nat,
           NEW s, s = [party |-> party, token |-> token, covers |-> c, agreed |-> a]
    PROVE  /\ s \in Signature
           /\ s.party = party /\ s.token = token /\ s.covers = c /\ s.agreed = a
  BY DEF Signature

LEMMA CountConfirmedIsSound ==
    ASSUME NEW t \in Transfer, Sound(t), t.status = "draft", NEW m \in SUBSET t.lines,
           NEW u, u = CountConfirmed(t, m)
    PROVE  /\ u \in Transfer /\ Sound(u) /\ u.status = "locked" /\ u.evidence = t.evidence
           /\ u.sig = t.sig /\ u.link = t.link /\ u.marked = m
           /\ u.header = t.header /\ u.lines = t.lines /\ u.purpose = t.purpose
  <1>1. /\ u \in Transfer /\ u.status = "locked" /\ u.evidence = t.evidence
        /\ u.sig = t.sig /\ u.link = t.link /\ u.marked = m /\ u.fixed = t.lines
        /\ u.header = t.header /\ u.lines = t.lines /\ u.purpose = t.purpose
    BY DEF CountConfirmed, Transfer, Status
  <1>2. SignedBy(u) = {} /\ Requires(u.purpose) # {}
    BY <1>1, RequiresSomebody DEF Sound, SignedBy, Transfer
  <1> QED
    BY <1>1, <1>2 DEF Sound

LEMMA SignedIsSound ==
    ASSUME NEW t \in Transfer, Sound(t), t.status = "locked",
           NEW s \in Signature, s.covers = transferContent(t), t.sig[s.party] = Unsigned,
           NEW u, u = WithSignature(t, s)
    PROVE  /\ u \in Transfer /\ Sound(u) /\ u.evidence = t.evidence
           /\ u.link.token \in {NoToken, t.link.token}
           /\ u.sig = [t.sig EXCEPT ![s.party] = s]
  <1> DEFINE done == Completes(t, s.party)
             link == IF s.token # NoToken \/ t.link.party = s.party \/ done
                     THEN [t.link EXCEPT !.token = NoToken] ELSE t.link
             status == IF done THEN "completed" ELSE t.status
             sig == [t.sig EXCEPT ![s.party] = s]
  <1>1. /\ s.party \in Party /\ s # Unsigned /\ t.link \in Link /\ t.purpose \in Purpose
        /\ t.sig \in [Party -> Signature \cup {Unsigned}]
    BY PartyOfASignature DEF Signature, Transfer
  <1>2. link \in Link /\ link.token \in {NoToken, t.link.token} /\ status \in {"locked", "completed"}
    BY <1>1 DEF Link, NoToken
  <1>3. /\ u = [t EXCEPT !.sig = sig, !.link = link, !.status = status]
        /\ sig \in [Party -> Signature \cup {Unsigned}]
    BY <1>1 DEF WithSignature
  <1>4. done <=> Requires(t.purpose) \subseteq SignedBy(t) \cup {s.party}
    BY DEF Completes
  <1>5. status = "completed" <=> done
    OBVIOUS
  <1>6. sig = [t.sig EXCEPT ![s.party] = s]
    OBVIOUS
  <1> HIDE DEF done, link, status, sig
  <1>7. /\ u.sig = sig /\ u.link = link /\ u.status = status
        /\ u.evidence = t.evidence /\ u.header = t.header /\ u.purpose = t.purpose
        /\ u.lines = t.lines /\ u.marked = t.marked /\ u.fixed = t.fixed
    BY <1>3 DEF Transfer
  <1>8. u \in Transfer
    BY <1>1, <1>2, <1>3 DEF Transfer, Status
  <1>9. SignedBy(u) = SignedBy(t) \cup {s.party}
    BY <1>1, <1>6, <1>7 DEF SignedBy
  <1>10. transferContent(u) = transferContent(t)
    BY <1>7 DEF transferContent
  <1>11. \A p \in SignedBy(u) : u.sig[p].covers = transferContent(u) /\ u.lines = u.fixed
    BY <1>1, <1>6, <1>7, <1>9, <1>10 DEF Sound
  <1>12. u.status = "completed" <=> Requires(u.purpose) \subseteq SignedBy(u)
    BY <1>4, <1>5, <1>7, <1>9
  <1>13. u.evidence = NoEvidence
    BY <1>7 DEF Sound
  <1> QED
    BY <1>6, <1>2, <1>7, <1>8, <1>11, <1>12, <1>13 DEF Sound

LEMMA SignStep ==
    ASSUME CustodyInv, NEW party \in Party, NEW m \in SUBSET Line, NEW token \in Nat, NEW agreed,
           agreed = [transferContent(transfer) EXCEPT !.marked = m],
           signInTx(party, m, token, agreed)
    PROVE  CustodyInv'
PROOF
  <1> DEFINE t == IF assertDraft THEN CountConfirmed(transfer, m) ELSE transfer
             s == [party |-> party, token |-> token, covers |-> transferContent(t), agreed |-> agreed]
  <1>1. /\ transfer \in Transfer /\ Sound(transfer) /\ Kept /\ signatures \subseteq Signature
        /\ transfer.status \in {"draft", "locked"} /\ issued \in Nat
    BY DEF CustodyInv, Typed, signInTx
  <1>2. /\ t \in Transfer /\ Sound(t) /\ t.status = "locked" /\ t.evidence = transfer.evidence
        /\ t.sig = transfer.sig /\ t.link = transfer.link
        /\ t.marked = m /\ t.header = transfer.header /\ t.lines = transfer.lines /\ t.purpose = transfer.purpose
    BY <1>1, CountConfirmedIsSound DEF signInTx, assertDraft
  <1>3. /\ signatures' = signatures \cup {s} /\ transfer.sig[party] = Unsigned
        /\ \/ transfer' = WithSignature(t, s) /\ UNCHANGED repeats
           \/ repeats' = repeats + 1 /\ UNCHANGED transfer
        /\ UNCHANGED <<issued, page, finishing, receipts, entries, applied>>
    BY DEF signInTx
  <1> HIDE DEF t
  <1>4. agreed = transferContent(t)
    BY <1>2 DEF transferContent
  <1>5. s \in Signature /\ s.party = party /\ s.covers = transferContent(t) /\ s.agreed = s.covers
    BY <1>2, <1>4, ContentTyped, SignatureIsTyped
  <1> HIDE DEF s
  <1>6. signatures' \subseteq Signature /\ SignedAsShown'
    BY <1>1, <1>3, <1>5 DEF SignedAsShown, CustodyInv
  <1>7. CASE transfer' = WithSignature(t, s) /\ UNCHANGED repeats
    <2>1. /\ transfer' \in Transfer /\ Sound(transfer') /\ transfer'.evidence = t.evidence
          /\ transfer'.link.token \in {NoToken, t.link.token}
          /\ transfer'.sig = [t.sig EXCEPT ![party] = s]
      BY <1>2, <1>3, <1>5, <1>7, SignedIsSound
    <2>2. Kept'
      BY <1>1, <1>2, <1>3, <1>5, <2>1 DEF Kept, SignedBy, NoToken, Transfer
    <2> QED
      BY <1>1, <1>2, <1>3, <1>6, <1>7, <2>1, <2>2, PaperStep DEF CustodyInv, Typed
  <1>8. CASE repeats' = repeats + 1 /\ UNCHANGED transfer
    <2>1. Kept'
      BY <1>1, <1>3, <1>8 DEF Kept, SignedBy
    <2> QED
      BY <1>1, <1>3, <1>6, <1>8, <2>1, PaperStep DEF CustodyInv, Typed
  <1> QED
    BY <1>3, <1>7, <1>8

LEMMA PaperKept ==
    ASSUME CustodyInv,
           \/ createTransfer \/ updateTransfer \/ scanIntoTransfer \/ removeLines \/ setOutcomes \/ lockTransfer
           \/ \E p \in Party : signTransfer(p) \/ issueLink(p)
           \/ OpenPage \/ signByLink \/ revokeLink \/ LinkExpires \/ voidTransfer
    PROVE  CustodyInv'
  <1>1. CASE \E p \in Party : signTransfer(p)
    BY <1>1, SignStep DEF signTransfer, NoToken
  <1>2. CASE \E p \in Party : issueLink(p)
    BY <1>2, IssueStep
  <1>3. CASE OpenPage
    <2>1. Kept' /\ SignedAsShown'
      BY <1>3 DEF CustodyInv, OpenPage, Kept, SignedBy, SignedAsShown
    <2> QED
      BY <1>3, <2>1, PaperStep DEF CustodyInv, Typed, OpenPage
  <1>4. CASE signByLink
    <2>1. PICK m \in SUBSET Line :
              signInTx(transfer.link.party, m, page.token, [page.shows EXCEPT !.marked = m])
      BY <1>4 DEF signByLink
    <2>2. page.token = transfer.link.token /\ page.shows = transferContent(transfer)
      BY <1>4 DEF signByLink, LinkActive, Live, SameAsShown
    <2>3. transfer.link.party \in Party /\ transfer.link.token \in Nat
      BY DEF CustodyInv, Typed, Transfer, Link
    <2> QED
      BY <2>1, <2>2, <2>3, SignStep
  <1> QED
    BY <1>1, <1>2, <1>3, <1>4, DraftStep, LinkStep

-----------------------------------------------------------------------------
(* Finishing *)

LEMMA EvidenceChanges ==
    ASSUME NEW e \in Evidence, NEW n \in Nat
    PROVE  /\ [e EXCEPT !.receipt = n] \in Evidence
           /\ [e EXCEPT !.receipt = n].receipt = n /\ [e EXCEPT !.receipt = n].entry = e.entry
           /\ [e EXCEPT !.receipt = n].effects = e.effects
           /\ [e EXCEPT !.entry = n] \in Evidence
           /\ [e EXCEPT !.entry = n].receipt = e.receipt /\ [e EXCEPT !.entry = n].entry = n
           /\ [e EXCEPT !.entry = n].effects = e.effects
           /\ [e EXCEPT !.effects = TRUE] \in Evidence
           /\ [e EXCEPT !.effects = TRUE].receipt = e.receipt
           /\ [e EXCEPT !.effects = TRUE].entry = e.entry
           /\ [e EXCEPT !.effects = TRUE].effects = TRUE
  BY DEF Evidence

(* One at a time: what a finisher knows, and that nobody else does. *)
LEMMA Alone ==
    ASSUME CustodyInv, NEW f \in Finisher, ~Stands(f, "idle")
    PROVE  /\ \A g \in Finisher : Stands(g, "idle") <=> g # f
           /\ transfer.status = "completed" /\ transfer \in Transfer /\ transfer.evidence \in Evidence
           /\ Knows(f) \in Evidence /\ Filed(Knows(f)) /\ Filed(transfer.evidence)
           /\ Abreast(finishing[f].pc, Knows(f), transfer.evidence)
           /\ \A pc : Noting(pc) /\ pc # "idle" => Stands(f, pc)
  BY DEF CustodyInv, Typed, OneFinishes, LockFree, Transfer, Work, Knows, Stands, Noting

(* It moves on, and the others stay idle. *)
LEMMA Moves ==
    ASSUME CustodyInv, NEW f \in Finisher, NEW pc \in Pc, NEW k \in Evidence, Goes(f, pc, k),
           \A g \in Finisher : g # f => Stands(g, "idle")
    PROVE  /\ finishing' \in [Finisher -> Work]
           /\ finishing'[f].pc = pc /\ finishing'[f].knows = k
           /\ \A g \in Finisher : g # f => finishing'[g].pc = "idle"
           /\ \A q : q # "idle" => (Noting(q)' <=> q = pc)
  <1>1. finishing \in [Finisher -> Work] /\ [pc |-> pc, knows |-> k] \in Work
    BY DEF CustodyInv, Typed, Work
  <1>2. /\ finishing' \in [Finisher -> Work]
        /\ finishing'[f].pc = pc /\ finishing'[f].knows = k
        /\ \A g \in Finisher : g # f => finishing'[g] = finishing[g]
    BY <1>1 DEF Goes
  <1> QED
    BY <1>2 DEF Stands, Noting

(* Its step leaves the paper as it was, whatever it files and notes. *)
LEMMA FinishStep ==
    ASSUME CustodyInv, NEW f \in Finisher, NEW pc \in Pc, NEW k \in Evidence, Goes(f, pc, k),
           \A g \in Finisher : g # f => Stands(g, "idle"),
           transfer.status = "completed", NEW e \in Evidence, transfer' = [transfer EXCEPT !.evidence = e],
           receipts' \in Nat, applied' \in Nat, repeats' \in Nat, entries' \in Seq(Entry),
           UNCHANGED <<signatures, issued>>,
           transfer'.evidence = e /\ transferContent(transfer') = transferContent(transfer)
               => /\ Filed(e)' /\ AllPaid'
                  /\ pc # "idle" => Abreast(pc, k, e) /\ Filed(k)'
    PROVE  CustodyInv'
  <1>1. /\ transfer' \in Transfer /\ transfer'.evidence = e /\ transfer'.sig = transfer.sig
        /\ transfer'.link = transfer.link /\ transfer'.status = transfer.status
        /\ transfer'.lines = transfer.lines /\ transfer'.marked = transfer.marked
        /\ transfer'.fixed = transfer.fixed /\ transfer'.purpose = transfer.purpose
        /\ transfer'.header = transfer.header
    BY DEF CustodyInv, Typed, Transfer
  <1>2. transferContent(transfer') = transferContent(transfer) /\ SignedBy(transfer') = SignedBy(transfer)
    BY <1>1 DEF transferContent, SignedBy
  <1>3. Typed'
    BY <1>1, Moves DEF CustodyInv, Typed
  <1>4. Sound(transfer')
    BY <1>1, <1>2 DEF CustodyInv, Sound
  <1>5. Kept' /\ SignedAsShown'
    BY <1>1, <1>2 DEF CustodyInv, Kept, SignedAsShown
  <1>6. OneFinishes'
    BY <1>1, <1>2, Moves DEF OneFinishes, Stands, Knows, LockFree
  <1> QED
    BY <1>1, <1>2, <1>3, <1>4, <1>5, <1>6 DEF CustodyInv

LEMMA RowIsItself ==
    CustodyInv => /\ transfer = [transfer EXCEPT !.evidence = transfer.evidence]
                  /\ transfer.evidence \in Evidence
                  /\ \A i \in 1 .. Len(entries) : entries[i] \in Entry
                  /\ Len(entries) \in Nat /\ receipts \in Nat /\ applied \in Nat /\ repeats \in Nat
                  /\ transferContent(transfer) \in Content
  BY LenProperties, ElementOfSeq, ContentTyped DEF CustodyInv, Typed, Transfer

(* One more of something that was done at most as often as there were deaths. *)
LEMMA OneMore ==
    ASSUME NEW c \in Nat, NEW d \in Nat
    PROVE  c + 1 \in Nat /\ (c <= d => c + 1 <= 1 + d) /\ (c <= 1 + d => c <= d + 1)
  OBVIOUS

LEMMA Counted ==
    ASSUME CustodyInv
    PROVE  Len(entries) \in Nat /\ receipts \in Nat /\ applied \in Nat /\ repeats \in Nat
  BY RowIsItself

(* The row's evidence, and what a finisher knows, as they are now. *)
LEMMA EvidenceNow ==
    ASSUME CustodyInv
    PROVE  \E e \in Evidence : e = transfer.evidence /\ transfer = [transfer EXCEPT !.evidence = e]
  BY RowIsItself

LEMMA FinalizeStep ==
    ASSUME CustodyInv, NEW f \in Finisher, finalizeTransfer(f)
    PROVE  CustodyInv'
PROOF
  <1>1. PICK e \in Evidence : e = transfer.evidence /\ transfer = [transfer EXCEPT !.evidence = e]
    BY EvidenceNow
  <1>2. PICK pc \in Pc : pc = NextPc(e)
    BY DEF NextPc, Pc
  <1>3. Filed(e) /\ AllPaid /\ \A g \in Finisher : Stands(g, "idle")
    BY <1>1 DEF CustodyInv, finalizeTransfer, LockFree
  <1>4. pc # "idle" /\ Goes(f, pc, e) /\ transfer.status = "completed" /\ Abreast(pc, e, e)
    BY <1>1, <1>2, <1>3 DEF finalizeTransfer, NextPc, Abreast, Filed, Nothing, Evidence
  <1>5. Filed(e)'
    BY <1>3 DEF Filed, finalizeTransfer
  <1>6. AllPaid'
    <2>1. pc \notin {"note receipt", "note entry", "note effects"}
      BY <1>2 DEF NextPc
    <2>2. \A q \in {"note receipt", "note entry", "note effects"} : ~Noting(q)
      BY <1>3 DEF Noting, Stands
    <2>3. \A q \in {"note receipt", "note entry", "note effects"} : ~Noting(q)'
      <3>1. \A q : q # "idle" => (Noting(q)' <=> q = pc)
        BY <1>3, <1>4, Moves
      <3> QED
        BY <2>1, <3>1
    <2> QED
      BY <1>3, <2>2, <2>3 DEF AllPaid, Paid, finalizeTransfer
  <1> QED
    BY <1>1, <1>3, <1>4, <1>5, <1>6, FinishStep DEF finalizeTransfer, CustodyInv, Typed

(* One that did something knows it, and has it to note. *)
LEMMA SaveReceiptStep ==
    ASSUME CustodyInv, NEW f \in Finisher, SaveReceipt(f)
    PROVE  CustodyInv'
PROOF
  <1>1. PICK e \in Evidence : e = transfer.evidence /\ transfer = [transfer EXCEPT !.evidence = e]
    BY EvidenceNow
  <1>2. /\ Filed(e) /\ AllPaid
        /\ \A g \in Finisher : g # f => Stands(g, "idle")
        /\ transfer.status = "completed" /\ Knows(f) = e /\ e.receipt = Nothing
        /\ ~Noting("note receipt") /\ ~Noting("note entry") /\ ~Noting("note effects")
    BY <1>1, Alone DEF CustodyInv, SaveReceipt, Stands, Abreast
  <1>3. PICK n \in Nat : n = receipts + 1
    BY Counted, OneMore
  <1>4. PICK k \in Evidence : k = [e EXCEPT !.receipt = n]
    BY EvidenceChanges
  <1>5. k.receipt = n /\ k.entry = e.entry /\ k = [e EXCEPT !.receipt = k.receipt]
    BY <1>4, EvidenceChanges
  <1>6. Goes(f, "note receipt", k) /\ receipts' = n
        /\ UNCHANGED <<signatures, issued, repeats, entries, applied, transfer>>
    BY <1>2, <1>4, <1>3 DEF SaveReceipt
  <1>7. /\ receipts \in Nat /\ Len(entries) \in Nat /\ e.receipt \in Nat /\ e.entry \in Nat
        /\ e.entry = 0 /\ n # 0 /\ 0 <= n /\ n <= n /\ 0 <= Len(entries)
    <2>1. e.receipt \in Nat /\ e.entry \in Nat
      BY DEF Evidence
    <2>2. e.entry = 0
      BY <1>2 DEF Filed, Nothing
    <2>3. receipts \in Nat /\ Len(entries) \in Nat
      BY Counted
    <2> QED
      BY <1>3, <2>1, <2>2, <2>3
  <1>8. Filed(e)' /\ Filed(k)' /\ Abreast("note receipt", k, e)
    BY <1>2, <1>5, <1>6, <1>7 DEF Filed, Abreast, Nothing
  <1>9. AllPaid'
    <2>1. ~Noting("note entry")' /\ ~Noting("note effects")' /\ Noting("note receipt")'
      BY <1>2, <1>6, Moves DEF Pc
    <2>2. receipts <= repeats
      BY <1>1, <1>2 DEF AllPaid, Paid
    <2>3. n <= 1 + repeats
      BY <1>3, <2>2, Counted, OneMore
    <2> QED
      BY <1>2, <1>6, <2>1, <2>3 DEF AllPaid, Paid
  <1> QED
    BY <1>1, <1>2, <1>6, <1>7, <1>8, <1>9, FinishStep DEF CustodyInv, Typed, Pc

LEMMA PublishStep ==
    ASSUME CustodyInv, NEW f \in Finisher, PublishTransfer(f)
    PROVE  CustodyInv'
PROOF
  <1>1. PICK e \in Evidence : e = transfer.evidence /\ transfer = [transfer EXCEPT !.evidence = e]
    BY EvidenceNow
  <1>2. /\ Filed(e) /\ AllPaid
        /\ \A g \in Finisher : g # f => Stands(g, "idle")
        /\ transfer.status = "completed" /\ Knows(f) = e /\ e.receipt # Nothing /\ e.entry = Nothing
        /\ ~Noting("note receipt") /\ ~Noting("note entry") /\ ~Noting("note effects")
    BY <1>1, Alone DEF CustodyInv, PublishTransfer, Stands, Abreast
  <1>3. UNCHANGED <<signatures, issued, repeats, receipts, applied, transfer>>
    BY DEF PublishTransfer
  <1>4. CASE UNCHANGED entries /\ Goes(f, IF Knows(f).effects THEN "idle" ELSE "effects", Knows(f))
    <2>1. PICK pc \in {"idle", "effects"} : pc = IF e.effects THEN "idle" ELSE "effects"
      OBVIOUS
    <2>2. /\ Goes(f, pc, e) /\ Filed(e)' /\ (pc # "idle" => Abreast(pc, e, e)) /\ pc \in Pc
          /\ pc \notin {"note receipt", "note entry", "note effects"}
      BY <1>2, <1>3, <1>4, <2>1 DEF Filed, Abreast, Pc
    <2>3. ~Noting("note receipt")' /\ ~Noting("note entry")' /\ ~Noting("note effects")'
      <3>1. Goes(f, pc, e) /\ pc \in Pc /\ e \in Evidence /\ \A g \in Finisher : g # f => Stands(g, "idle")
        BY <1>2, <2>2
      <3>2. \A q : q # "idle" => (Noting(q)' <=> q = pc)
        BY <3>1, Moves
      <3> QED
        BY <2>2, <3>2
    <2>4. AllPaid'
      BY <1>2, <1>3, <1>4, <2>3 DEF AllPaid, Paid
    <2> QED
      BY <1>1, <1>2, <1>3, <1>4, <2>2, <2>4, FinishStep DEF CustodyInv, Typed
  <1>5. CASE /\ entries' = Append(entries, [receipt |-> Knows(f).receipt, content |-> transferContent(transfer)])
             /\ Goes(f, "note entry", [Knows(f) EXCEPT !.entry = Len(entries) + 1])
    <2>1. PICK n \in Nat : n = Len(entries) + 1
      BY RowIsItself
    <2>2. PICK k \in Evidence : k = [e EXCEPT !.entry = n]
      BY EvidenceChanges
    <2>3. k.receipt = e.receipt /\ k.entry = n /\ k = [e EXCEPT !.entry = k.entry]
      BY <2>2, EvidenceChanges
    <2>4. Goes(f, "note entry", k)
      BY <1>2, <1>5, <2>1, <2>2
    <2>5. PICK x \in Entry : x = [receipt |-> e.receipt, content |-> transferContent(transfer)]
      BY RowIsItself DEF Evidence, Entry
    <2>6. /\ entries \in Seq(Entry) /\ entries' = Append(entries, x)
          /\ e.receipt \in Nat /\ receipts \in Nat /\ Len(entries) \in Nat
      BY <1>2, <1>5, <2>5, RowIsItself DEF Evidence, CustodyInv, Typed
    <2>7. entries' \in Seq(Entry) /\ Len(entries') = n /\ entries'[n] = x
      BY <2>1, <2>6, AppendProperties
    <2>8. Filed(e)' /\ Filed(k)' /\ Abreast("note entry", k, e)
      <3>1. n # 0 /\ 0 <= n /\ n <= n
        BY <2>1, Counted
      <3>2. e.receipt <= receipts
        BY <1>2 DEF Filed
      <3>3. Abreast("note entry", k, e)
        BY <1>2, <2>3, <3>1 DEF Abreast, Nothing
      <3>4. Filed(e)'
        BY <1>2, <1>3, <2>7, <3>1, <3>2 DEF Filed, Nothing
      <3>5. Filed(k)'
        BY <1>2, <1>3, <2>3, <2>5, <2>7, <3>1, <3>2 DEF Filed, Nothing
      <3> QED
        BY <3>3, <3>4, <3>5
    <2>9. AllPaid'
      <3>1. ~Noting("note receipt")' /\ ~Noting("note effects")' /\ Noting("note entry")'
        BY <1>2, <2>4, Moves DEF Pc
      <3>2. Len(entries) <= repeats
        BY <1>1, <1>2 DEF AllPaid, Paid
      <3>3. n <= 1 + repeats
        BY <2>1, <3>2, Counted, OneMore
      <3> QED
        BY <1>2, <1>3, <2>7, <3>1, <3>3 DEF AllPaid, Paid
    <2> QED
      BY <1>1, <1>2, <1>3, <2>4, <2>7, <2>8, <2>9, FinishStep DEF CustodyInv, Typed, Pc
  <1> QED
    BY <1>4, <1>5 DEF PublishTransfer

LEMMA EffectsStep ==
    ASSUME CustodyInv, NEW f \in Finisher, applyEffects(f)
    PROVE  CustodyInv'
PROOF
  <1>1. PICK e \in Evidence : e = transfer.evidence /\ transfer = [transfer EXCEPT !.evidence = e]
    BY EvidenceNow
  <1>2. /\ Filed(e) /\ AllPaid
        /\ \A g \in Finisher : g # f => Stands(g, "idle")
        /\ transfer.status = "completed" /\ Knows(f) = e /\ ~e.effects
        /\ ~Noting("note receipt") /\ ~Noting("note entry") /\ ~Noting("note effects")
    BY <1>1, Alone DEF CustodyInv, applyEffects, Stands, Abreast
  <1>3. PICK n \in Nat : n = applied + 1
    BY Counted, OneMore
  <1>4. /\ applied' = n /\ Goes(f, "note effects", e)
        /\ UNCHANGED <<signatures, issued, repeats, receipts, entries, transfer>>
    BY <1>2, <1>3 DEF applyEffects
  <1>5. Filed(e)' /\ Abreast("note effects", e, e)
    BY <1>2, <1>4 DEF Filed, Abreast
  <1>6. AllPaid'
    <2>1. ~Noting("note receipt")' /\ ~Noting("note entry")' /\ Noting("note effects")'
      BY <1>2, <1>4, Moves DEF Pc
    <2>2. applied <= repeats
      BY <1>1, <1>2 DEF AllPaid, Paid
    <2>3. n <= 1 + repeats
      BY <1>3, <2>2, Counted, OneMore
    <2> QED
      BY <1>2, <1>4, <2>1, <2>3 DEF AllPaid, Paid
  <1> QED
    BY <1>1, <1>2, <1>4, <1>5, <1>6, Counted, FinishStep DEF CustodyInv, Typed, Pc

(* A note says on the row what its finisher knew. *)
LEMMA NoteStep ==
    ASSUME CustodyInv, NEW f \in Finisher, NoteReceipt(f) \/ NoteEntry(f) \/ NoteEffects(f)
    PROVE  CustodyInv'
PROOF
  <1>1. PICK e \in Evidence : e = transfer.evidence
    BY EvidenceNow
  <1>2. PICK at \in {"note receipt", "note entry", "note effects"} : Stands(f, at)
    BY DEF NoteReceipt, NoteEntry, NoteEffects
  <1>3. PICK k \in Evidence : k = Knows(f)
    BY <1>2, Alone DEF Stands
  <1>4. /\ Filed(e) /\ Filed(k) /\ AllPaid
        /\ \A g \in Finisher : g # f => Stands(g, "idle")
        /\ transfer.status = "completed"
        /\ \A q \in {"note receipt", "note entry", "note effects"} : Noting(q) => q = at
        /\ Abreast(at, k, e)
    BY <1>1, <1>2, <1>3, Alone DEF CustodyInv, Stands
  <1>5. PICK n : n = IF at = "note receipt" THEN [e EXCEPT !.receipt = k.receipt]
                     ELSE IF at = "note entry" THEN [e EXCEPT !.entry = k.entry]
                     ELSE [e EXCEPT !.effects = TRUE]
    OBVIOUS
  <1>6. PICK pc \in Pc : pc = IF at = "note effects" THEN "idle" ELSE NextPc(k)
    BY DEF Pc, NextPc
  <1>7. /\ transfer' = [transfer EXCEPT !.evidence = n] /\ Goes(f, pc, k)
        /\ UNCHANGED <<signatures, issued, receipts, entries, applied, repeats>>
    <2>1. CASE NoteReceipt(f)
      BY <2>1, <1>1, <1>2, <1>3, <1>5, <1>6 DEF NoteReceipt, recordEvidence, Stands
    <2>2. CASE NoteEntry(f)
      BY <2>2, <1>1, <1>2, <1>3, <1>5, <1>6 DEF NoteEntry, recordEvidence, Stands
    <2>3. CASE NoteEffects(f)
      BY <2>3, <1>1, <1>2, <1>3, <1>5, <1>6 DEF NoteEffects, recordEvidence, Stands
    <2> QED
      BY <2>1, <2>2, <2>3
  <1>8. k.receipt \in Nat /\ k.entry \in Nat
    BY DEF Evidence
  <1>9. /\ n \in Evidence
        /\ at # "note receipt" => n.receipt = e.receipt
        /\ at # "note entry" => n.entry = e.entry
        /\ at # "note effects" => n.effects = e.effects /\ n = k
        /\ at = "note receipt" => n.receipt # Nothing
        /\ at = "note entry" => n.entry # Nothing
        /\ at = "note effects" => n.effects /\ k = e
    <2>1. CASE at = "note receipt"
      <3>1. n = [e EXCEPT !.receipt = k.receipt]
        BY <1>5, <2>1
      <3>2. n \in Evidence /\ n.receipt = k.receipt /\ n.entry = e.entry /\ n.effects = e.effects
        BY <1>8, <3>1, EvidenceChanges
      <3> QED
        BY <1>4, <2>1, <3>1, <3>2 DEF Abreast
    <2>2. CASE at = "note entry"
      <3>1. n = [e EXCEPT !.entry = k.entry]
        BY <1>5, <2>2
      <3>2. n \in Evidence /\ n.receipt = e.receipt /\ n.entry = k.entry /\ n.effects = e.effects
        BY <1>8, <3>1, EvidenceChanges
      <3> QED
        BY <1>4, <2>2, <3>1, <3>2 DEF Abreast
    <2>3. CASE at = "note effects"
      BY <1>4, <1>5, <1>8, <2>3, EvidenceChanges DEF Abreast
    <2> QED
      BY <2>1, <2>2, <2>3
  <1>10. pc \notin {"note receipt", "note entry", "note effects"}
    BY <1>6 DEF NextPc
  <1>11. pc # "idle" => n = k /\ Abreast(pc, k, n)
    BY <1>4, <1>6, <1>8, <1>9 DEF Abreast, NextPc, Filed, Nothing
  <1>12. Filed(n)
    BY <1>4, <1>9 DEF Filed
  <1>13. \A q \in {"note receipt", "note entry", "note effects"} : ~Noting(q)'
    <2>1. Goes(f, pc, k) /\ \A g \in Finisher : g # f => Stands(g, "idle")
      BY <1>4, <1>7
    <2>2. \A q : q # "idle" => (Noting(q)' <=> q = pc)
      BY <2>1, Moves
    <2> QED
      BY <1>10, <2>2
  <1>14. transferContent(transfer') = transferContent(transfer) => Filed(n)' /\ Filed(k)'
    BY <1>4, <1>7, <1>12 DEF Filed
  <1>15. transfer'.evidence = n => AllPaid'
    <2>1. SUFFICES ASSUME transfer'.evidence = n PROVE AllPaid'
      OBVIOUS
    <2>2. Paid(receipts, transfer.evidence.receipt # Nothing, "note receipt")'
      BY <1>1, <1>4, <1>7, <1>9, <1>13, <2>1 DEF AllPaid, Paid
    <2>3. Paid(Len(entries), transfer.evidence.entry # Nothing, "note entry")'
      BY <1>1, <1>4, <1>7, <1>9, <1>13, <2>1 DEF AllPaid, Paid
    <2>4. Paid(applied, transfer.evidence.effects, "note effects")'
      BY <1>1, <1>4, <1>7, <1>9, <1>13, <2>1 DEF AllPaid, Paid
    <2> QED
      BY <2>2, <2>3, <2>4 DEF AllPaid
  <1> QED
    BY <1>4, <1>7, <1>9, <1>11, <1>14, <1>15, FinishStep DEF CustodyInv, Typed

(* A death pays for what was done and not noted. *)
LEMMA DeathStep ==
    ASSUME CustodyInv, NEW f \in Finisher, FinisherDies(f)
    PROVE  CustodyInv'
PROOF
  <1>1. PICK e \in Evidence : e = transfer.evidence /\ transfer = [transfer EXCEPT !.evidence = e]
    BY EvidenceNow
  <1>2. /\ Filed(e) /\ AllPaid /\ transfer.status = "completed"
        /\ \A g \in Finisher : g # f => Stands(g, "idle")
    BY <1>1, Alone DEF CustodyInv, FinisherDies
  <1>3. PICK n \in Nat : n = repeats + 1
    BY Counted, OneMore
  <1>4. /\ repeats' = n /\ Goes(f, "idle", NoEvidence) /\ NoEvidence \in Evidence
        /\ UNCHANGED <<signatures, issued, receipts, entries, applied, transfer>>
    BY <1>3 DEF FinisherDies, NoEvidence, Evidence, Nothing
  <1>5. Filed(e)'
    BY <1>2, <1>4 DEF Filed
  <1>6. AllPaid'
    <2>1. receipts <= 1 + repeats /\ Len(entries) <= 1 + repeats /\ applied <= 1 + repeats
      BY <1>2 DEF AllPaid, Paid
    <2>2. receipts <= n /\ Len(entries) <= n /\ applied <= n
      BY <1>3, <2>1, Counted, OneMore
    <2>3. \A c \in Nat : c <= n => c <= 1 + n
      OBVIOUS
    <2> QED
      BY <1>4, <2>2, <2>3, Counted DEF AllPaid, Paid
  <1> QED
    BY <1>1, <1>2, <1>4, <1>5, <1>6, Counted, FinishStep DEF CustodyInv, Typed, Pc

-----------------------------------------------------------------------------
(* The theorems *)

(* transfers.ts, finalize.ts: at every moment the paper is sound, whoever finishes it
   stands alone, and nothing was done twice but for a death. *)
THEOREM CustodyInvariant == CustodySpec => []CustodyInv
PROOF
  <1>1. CustodyInit => CustodyInv
    <2> SUFFICES ASSUME CustodyInit PROVE CustodyInv
      OBVIOUS
    <2>1. NoTransfer.sig = [p \in Party |-> Unsigned] /\ SignedBy(NoTransfer) = {}
      BY DEF NoTransfer, SignedBy
    <2>2. NoTransfer \in Transfer
      BY DEF NoTransfer, Transfer, Status, Purpose, Headers, NoLink, Link, NoEvidence, Evidence, NoToken, Nothing, Party
    <2>3. Typed
      BY <2>2, EmptySeq DEF CustodyInit, Typed, Work, Pc, NoEvidence, Evidence, Nothing
    <2>4. Sound(transfer)
      BY <2>1, RequiresSomebody DEF CustodyInit, Sound, NoTransfer, Purpose
    <2>5. Kept /\ SignedAsShown
      <3>1. SignedBy(transfer) = {} /\ transfer.link.token = 0 /\ issued = 0 /\ signatures = {}
        BY <2>1 DEF CustodyInit, NoTransfer, NoLink, NoToken
      <3> QED
        BY <3>1 DEF Kept, SignedAsShown
    <2>6. Filed(transfer.evidence)
      BY EmptySeq DEF CustodyInit, Filed, NoTransfer, NoEvidence, Nothing
    <2>7. OneFinishes
      BY DEF CustodyInit, OneFinishes, Stands
    <2>8. AllPaid
      BY EmptySeq DEF CustodyInit, AllPaid, Paid
    <2> QED
      BY <2>3, <2>4, <2>5, <2>6, <2>7, <2>8 DEF CustodyInv
  <1>2. CustodyInv /\ [CustodyNext]_custodyVars => CustodyInv'
    <2> SUFFICES ASSUME CustodyInv, [CustodyNext]_custodyVars PROVE CustodyInv'
      OBVIOUS
    <2>1. CASE UNCHANGED custodyVars
      <3>1. Kept' /\ SignedAsShown'
        BY <2>1 DEF custodyVars, CustodyInv, Kept, SignedBy, SignedAsShown
      <3> QED
        BY <2>1, <3>1, PaperStep DEF custodyVars, CustodyInv, Typed
    <2>2. CASE \E f \in Finisher :
                  \/ finalizeTransfer(f) \/ SaveReceipt(f) \/ NoteReceipt(f)
                  \/ PublishTransfer(f) \/ NoteEntry(f) \/ applyEffects(f) \/ NoteEffects(f)
                  \/ FinisherDies(f)
      BY <2>2, FinalizeStep, SaveReceiptStep, PublishStep, EffectsStep, NoteStep, DeathStep
    <2> QED
      BY <2>1, <2>2, PaperKept DEF CustodyNext
  <1> QED
    BY <1>1, <1>2, PTL DEF CustodySpec

(* verify.ts:12-17, content.ts:91-95, finalize.ts:158-160: what was signed is what was
   shown and what stands, the log holds it, and only deaths repeat a step. *)
THEOREM HandoffsStaySound == CustodySpec => []HandoffSound
PROOF
  <1>1. CustodyInv => HandoffSound
    <2> SUFFICES ASSUME CustodyInv PROVE HandoffSound
      OBVIOUS
    <2>1. CustodyTypeOK
      <3>1. transfer.sig \in [Party -> signatures \cup {Unsigned}]
        BY DEF CustodyInv, Kept, Typed, Transfer, SignedBy
      <3>2. /\ transfer \in Transfer /\ transfer.link.token \in Nat /\ transfer.evidence.receipt \in Nat
            /\ transfer.evidence.entry \in Nat /\ transfer.marked \subseteq transfer.lines
        BY DEF CustodyInv, Typed, Sound, Transfer, Link, Evidence
      <3>3. transfer.link.token \in 0 .. issued
        BY <3>2 DEF CustodyInv, Kept, Typed
      <3>4. transfer.evidence.receipt \in 0 .. receipts /\ transfer.evidence.entry \in 0 .. Len(entries)
        BY <3>2, RowIsItself DEF CustodyInv, Filed
      <3>5. transfer.status \in Status /\ transfer.lines \subseteq Line
        BY <3>2 DEF Transfer
      <3> QED
        BY <3>1, <3>2, <3>3, <3>4, <3>5 DEF CustodyTypeOK, Status
    <2>2. SignedStands /\ CompleteMeansSigned
      BY DEF CustodyInv, Sound, SignedStands, CompleteMeansSigned
    <2>3. LogMatches
      BY DEF CustodyInv, Filed, LogMatches
    <2>4. RepeatedOnlyByDeaths
      BY DEF CustodyInv, AllPaid, Paid, RepeatedOnlyByDeaths
    <2> QED
      BY <2>1, <2>2, <2>3, <2>4 DEF CustodyInv, HandoffSound
  <1> QED
    BY <1>1, CustodyInvariant, PTL

(* transfers.ts:613: the page behind a link outlives it, and signs nothing more. *)
THEOREM DeadLinksStayDead == CustodySpec => DeadLinksSignNothing
PROOF
  <1>1. [CustodyNext]_custodyVars =>
           [\A s \in signatures' \ signatures :
               s.token # NoToken => s.token = transfer.link.token /\ ~transfer.link.expired]_custodyVars
    <2> SUFFICES ASSUME CustodyNext, NEW s \in signatures' \ signatures
                 PROVE  s.token # NoToken => s.token = transfer.link.token /\ ~transfer.link.expired
      BY DEF custodyVars
    <2>1. ASSUME NEW party, NEW m, NEW token, NEW agreed, signInTx(party, m, token, agreed)
          PROVE  s.token = token
      BY <2>1 DEF signInTx
    <2>2. CASE signByLink
      BY <2>1, <2>2 DEF signByLink, LinkActive, Live
    <2>3. CASE \E p \in Party : signTransfer(p)
      BY <2>1, <2>3 DEF signTransfer
    <2> QED
      BY <2>2, <2>3 DEF CustodyNext, ListOnly, createTransfer, updateTransfer, scanIntoTransfer,
         removeLines, setOutcomes, lockTransfer, issueLink, OpenPage, revokeLink, LinkExpires, voidTransfer,
         finalizeTransfer, SaveReceipt, NoteReceipt, recordEvidence, PublishTransfer, NoteEntry,
         applyEffects, NoteEffects, FinisherDies
  <1> QED
    BY <1>1, PTL DEF CustodySpec, DeadLinksSignNothing

-----------------------------------------------------------------------------
PositionRow == [at : 0 .. MaxAt, zone : Zone \cup {Elsewhere}, entered : BOOLEAN]
BatchRow == [is : {"unsent", "received", "inserted", "locked", "stored", "failed"},
             read : Reads \cup {NotYet}, recv : 0 .. MaxClock, id : 0 .. MaxBatches,
             pos : PositionRow, loc : Zone \cup {Elsewhere}]
Move == [from : Zone \cup {Elsewhere}, to : Zone]

(* Batches that took an id and may still be stored, or are. *)
Inserting == {b \in Batch : batch[b].is \in {"inserted", "locked"}}
Numbered == Inserting \cup Stored
Started == {b \in Batch : batch[b].is \notin {"unsent", "received"}}

IngestTyped ==
    /\ time \in 0 .. MaxClock /\ ids \in Nat
    /\ batch \in [Batch -> BatchRow]
    /\ position \in PositionRow
    /\ filed \in Zone /\ byHand \in BOOLEAN /\ prompt \in BOOLEAN
    /\ moves \in Seq(Move)
    /\ readCursor \in 0 .. MaxBatches \/ readCursor = Unset
    /\ started \in 0 .. MaxBatches \/ started = Unset
    /\ run \in [is : {"none", "ranged", "placed"}, upto : 0 .. MaxBatches]

(* Each id was handed to a batch that is past its insertion. *)
IdsHandedOut ==
    /\ ids <= Cardinality(Started)
    /\ \A b \in Batch : batch[b].id <= ids
    /\ readCursor # Unset => readCursor <= ids
    /\ run.upto <= ids /\ lookedAt \subseteq 1 .. ids

(* What a batch brings is known from its receipt on. *)
ReadsKnown ==
    \A b \in Batch : /\ batch[b].is \notin {"unsent", "failed"} => batch[b].read \in Reads
                     /\ batch[b].recv <= time

(* One batch at a time has the item's row, and read what is still there. *)
LockedRowStands ==
    /\ \A b \in Batch : batch[b].is = "locked" => batch[b].pos = position /\ batch[b].loc = filed
    /\ \A b, c \in Batch : batch[b].is = "locked" /\ batch[c].is = "locked" => b = c

(* The position is a stored read's, and no stored read is later. *)
LatestStored ==
    /\ \A b \in Stored : batch[b].read.at <= position.at
    /\ position.at = 0 \/ \E b \in Stored : batch[b].read.at = position.at

MovesTracked == moves # <<>> => position.entered

(* Of two batches that were prompt, the one with the later id was not received much earlier. *)
IdsFollowReceipt ==
    prompt => \A b \in Numbered, c \in Stored :
                  batch[b].id <= batch[c].id => batch[b].recv <= batch[c].recv + PromptBy

(* A batch behind n that is not stored yet will not be prompt. *)
LateBehind(n) ==
    \A b \in Inserting : started < batch[b].id /\ batch[b].id <= n => batch[b].recv + PromptBy < time

(* The stored reads between the worker's start and n have been applied. *)
LookedUpTo(n) == \A b \in Stored : started < batch[b].id /\ batch[b].id <= n => batch[b].id \in lookedAt

WorkerKeepsUp ==
    /\ readCursor = Unset <=> started = Unset
    /\ run # NoRun <=> run.is # "none"
    /\ run # NoRun => readCursor # Unset
    /\ prompt /\ readCursor # Unset => LateBehind(readCursor) /\ LookedUpTo(readCursor)
    /\ prompt /\ run # NoRun => LateBehind(run.upto)
    /\ prompt /\ run.is = "placed" => LookedUpTo(run.upto)

IngestInv ==
    /\ IngestTyped /\ IdsHandedOut /\ ReadsKnown /\ LockedRowStands /\ LatestStored
    /\ MovesTracked /\ MovesChain /\ FiledAsRead /\ IdsFollowReceipt /\ WorkerKeepsUp

-----------------------------------------------------------------------------
(* The newest of some numbers *)

LEMMA LeastOfSome ==
    ASSUME NEW T \in SUBSET Nat, T # {}
    PROVE  \E x \in T : \A y \in T : ~(y < x)
  <1> DEFINE R == {ss \in Nat \X Nat : ss[1] < ss[2]}
  <1>1. IsWellFoundedOn(R, Nat)
    BY NatLessThanWellFounded DEF OpToRel
  <1>2. \E x \in T : \A y \in T : ~(<<y, x>> \in R)
    <2> HIDE DEF R
    <2> QED
      BY <1>1, WFMin
  <1> QED
    BY <1>2

LEMMA NewestOf ==
    ASSUME NEW n \in Nat, NEW S \in SUBSET (0 .. n)
    PROVE  /\ Newest(S) \in 0 .. n
           /\ Newest(S) = 0 \/ Newest(S) \in S
           /\ \A x \in S : x <= Newest(S)
  <1> DEFINE T == {n - x : x \in S \cup {0}}
  <1>1. T \in SUBSET Nat /\ T # {}
    OBVIOUS
  <1>2. PICK m \in T : \A y \in T : ~(y < m)
    BY <1>1, LeastOfSome
  <1>3. PICK x \in S \cup {0} : m = n - x
    BY <1>2
  <1>4. \A y \in S \cup {0} : x >= y
    <2> TAKE y \in S \cup {0}
    <2>1. n - y \in T /\ n \in Nat /\ x \in 0 .. n /\ y \in 0 .. n
      OBVIOUS
    <2>2. ~(n - y < n - x)
      BY <1>2, <1>3, <2>1
    <2> HIDE DEF T
    <2> QED
      BY <2>1, <2>2
  <1>5. Newest(S) \in S \cup {0} /\ \A y \in S \cup {0} : Newest(S) >= y
    BY <1>4 DEF Newest, Max
  <1>6. S \cup {0} \subseteq 0 .. n
    OBVIOUS
  <1> HIDE DEF T
  <1> QED
    BY <1>5, <1>6

-----------------------------------------------------------------------------
(* One batch's row changes *)

LEMMA RowWritten ==
    ASSUME batch \in [Batch -> BatchRow], NEW b \in Batch, NEW row \in BatchRow,
           batch' = [batch EXCEPT ![b] = row]
    PROVE  /\ batch' \in [Batch -> BatchRow] /\ batch'[b] = row
           /\ \A c \in Batch : c # b => batch'[c] = batch[c]
  OBVIOUS

LEMMA StartedFinite ==
    /\ IsFiniteSet(Started) /\ Cardinality(Started) \in Nat /\ Cardinality(Started) <= MaxBatches
  <1>1. IsFiniteSet(Batch) /\ Cardinality(Batch) = MaxBatches
    BY FS_Interval, IngestAssumption DEF Batch
  <1>2. Started \subseteq Batch
    BY DEF Started
  <1> QED
    BY <1>1, <1>2, FS_Subset, FS_CardinalityType

LEMMA NoPositionYet ==
    /\ NoPosition \in PositionRow /\ Unsent \in BatchRow /\ NoRun.is = "none" /\ NoRun.upto = 0
    /\ NoRun \in [is : {"none", "ranged", "placed"}, upto : 0 .. MaxBatches]
  BY IngestAssumption DEF NoPosition, PositionRow, Unsent, BatchRow, NotYet, NoRun

LEMMA FieldsOfBatches ==
    ASSUME batch \in [Batch -> BatchRow], NEW b \in Batch
    PROVE  /\ batch[b] \in BatchRow
           /\ batch[b].is \in {"unsent", "received", "inserted", "locked", "stored", "failed"}
           /\ batch[b].read \in Reads \cup {NotYet} /\ batch[b].recv \in 0 .. MaxClock
           /\ batch[b].id \in 0 .. MaxBatches /\ batch[b].pos \in PositionRow
           /\ batch[b].loc \in Zone \cup {Elsewhere}
           /\ batch[b].recv \in Nat /\ batch[b].id \in Nat
  BY DEF BatchRow

(* Nothing happens to the asset or to the worker, and no batch commits. *)
LEMMA OnlyBatches ==
    ASSUME IngestInv,
           batch' \in [Batch -> BatchRow], ids' \in Nat, ids <= ids',
           time' = time, position' = position, filed' = filed, moves' = moves, byHand' = byHand,
           readCursor' = readCursor, run' = run, started' = started, lookedAt' = lookedAt, prompt' = prompt,
           Stored' = Stored,
           \A c \in Stored : /\ batch'[c].id = batch[c].id /\ batch'[c].read = batch[c].read
                             /\ batch'[c].recv = batch[c].recv,
           \A c \in Inserting' : \/ c \in Inserting /\ batch'[c].id = batch[c].id
                                                    /\ batch'[c].recv = batch[c].recv
                                 \/ ids < batch'[c].id,
           ids' <= Cardinality(Started'), \A c \in Batch : batch'[c].id <= ids',
           ReadsKnown', LockedRowStands'
    PROVE  IngestInv'
  <1>1. IngestTyped'
    BY DEF IngestInv, IngestTyped
  <1>2. IdsHandedOut'
    BY DEF IngestInv, IngestTyped, IdsHandedOut
  <1>3. LatestStored' /\ MovesTracked' /\ MovesChain'
    BY DEF IngestInv, LatestStored, MovesTracked, MovesChain
  <1>4. FiledAsRead'
    BY DEF IngestInv, FiledAsRead
  <1>5. \A c \in Stored : batch[c].id <= ids /\ batch[c].id \in Nat
    BY FieldsOfBatches DEF IngestInv, IngestTyped, IdsHandedOut, Stored
  <1>6. \A c \in Inserting' : batch'[c].id \in Nat /\ c \in Batch
    BY DEF Inserting, BatchRow
  <1>7. ids \in Nat /\ run.upto <= ids /\ run.upto \in Nat
        /\ (readCursor # Unset => readCursor <= ids /\ readCursor \in Nat)
    BY DEF IngestInv, IngestTyped, IdsHandedOut
  <1>8. IdsFollowReceipt'
    <2> SUFFICES ASSUME prompt, NEW b \in Numbered', NEW c \in Stored, batch'[b].id <= batch'[c].id
                 PROVE  batch'[b].recv <= batch'[c].recv + PromptBy
      BY DEF IdsFollowReceipt
    <2>1. CASE b \in Stored
      BY <2>1 DEF IngestInv, IdsFollowReceipt, Numbered
    <2>2. CASE b \in Inserting'
      <3>1. ~(ids < batch'[b].id)
        BY <1>5, <1>6, <1>7, <2>2
      <3> QED
        BY <2>2, <3>1 DEF IngestInv, IdsFollowReceipt, Numbered
    <2> QED
      BY <2>1, <2>2 DEF Numbered
  <1>9. ASSUME NEW n \in Nat, n <= ids
        PROVE  /\ LateBehind(n) => LateBehind(n)'
               /\ LookedUpTo(n) => LookedUpTo(n)'
    <2>1. ASSUME LateBehind(n), NEW b \in Inserting', started' < batch'[b].id, batch'[b].id <= n
          PROVE  batch'[b].recv + PromptBy < time'
      <3>1. ~(ids < batch'[b].id)
        BY <1>6, <1>7, <1>9, <2>1
      <3> QED
        BY <2>1, <3>1 DEF LateBehind
    <2>2. LookedUpTo(n) => LookedUpTo(n)'
      BY DEF LookedUpTo
    <2> QED
      BY <2>1, <2>2 DEF LateBehind
  <1>10. WorkerKeepsUp'
    <2>1. prompt /\ readCursor # Unset => LateBehind(readCursor)' /\ LookedUpTo(readCursor)'
      BY <1>7, <1>9 DEF IngestInv, WorkerKeepsUp, LateBehind, LookedUpTo
    <2>2. prompt /\ run # NoRun => LateBehind(run.upto)'
      BY <1>7, <1>9 DEF IngestInv, WorkerKeepsUp, LateBehind
    <2>3. prompt /\ run.is = "placed" => LookedUpTo(run.upto)'
      BY <1>7, <1>9 DEF IngestInv, WorkerKeepsUp, LookedUpTo
    <2> QED
      BY <2>1, <2>2, <2>3 DEF IngestInv, WorkerKeepsUp, Unset
  <1> QED
    BY <1>1, <1>2, <1>3, <1>4, <1>8, <1>10 DEF IngestInv

LEMMA ReceiveKeeps ==
    ASSUME IngestInv, NEW b \in Batch, Receive(b)
    PROVE  IngestInv'
  <1> USE DEF IngestInv, IngestTyped
  <1>1. PICK r \in Reads : batch' = [batch EXCEPT ![b] = [@ EXCEPT !.is = "received", !.read = r, !.recv = time]]
    BY Zenon DEF Receive
  <1>2. PICK row : row = [batch[b] EXCEPT !.is = "received", !.read = r, !.recv = time]
    OBVIOUS
  <1>3. row \in BatchRow /\ row.is = "received" /\ row.read = r /\ row.recv = time /\ row.id = batch[b].id
    BY <1>2, FieldsOfBatches DEF BatchRow
  <1>4. /\ batch' \in [Batch -> BatchRow] /\ batch'[b] = row
        /\ \A c \in Batch : c # b => batch'[c] = batch[c]
    BY <1>1, <1>2, <1>3, RowWritten
  <1>5. /\ batch[b].is = "unsent" /\ time' = time /\ ids' = ids /\ prompt' = prompt
        /\ position' = position /\ filed' = filed /\ moves' = moves /\ byHand' = byHand
        /\ readCursor' = readCursor /\ run' = run /\ started' = started /\ lookedAt' = lookedAt
    BY DEF Receive, asset, worker
  <1>6. Stored' = Stored /\ Inserting' = Inserting /\ Started' = Started
    BY <1>3, <1>4, <1>5 DEF Stored, Inserting, Started
  <1>7. b \notin Stored /\ b \notin Inserting
    BY <1>5 DEF Stored, Inserting
  <1>8. ReadsKnown'
    BY <1>3, <1>4, <1>5 DEF ReadsKnown
  <1>9. LockedRowStands'
    BY <1>3, <1>4, <1>5 DEF LockedRowStands
  <1>10. ids' <= Cardinality(Started') /\ \A c \in Batch : batch'[c].id <= ids'
    BY <1>3, <1>4, <1>5, <1>6 DEF IdsHandedOut
  <1>11. /\ \A c \in Stored : c \in Batch /\ c # b
         /\ \A c \in Inserting : c \in Batch /\ c # b
    BY <1>7 DEF Stored, Inserting
  <1> QED
    BY <1>4, <1>5, <1>6, <1>8, <1>9, <1>10, <1>11, OnlyBatches

LEMMA InsertKeeps ==
    ASSUME IngestInv, NEW b \in Batch, InsertSightings(b)
    PROVE  IngestInv'
  <1> USE DEF IngestInv, IngestTyped
  <1>1. ids \in Nat /\ ids + 1 \in Nat /\ ids <= ids + 1 /\ ids < ids + 1
    OBVIOUS
  <1>2. /\ batch[b].is = "received" /\ time' = time /\ ids' = ids + 1 /\ prompt' = prompt
        /\ position' = position /\ filed' = filed /\ moves' = moves /\ byHand' = byHand
        /\ readCursor' = readCursor /\ run' = run /\ started' = started /\ lookedAt' = lookedAt
        /\ batch' = [batch EXCEPT ![b] = [batch[b] EXCEPT !.is = "inserted", !.id = ids + 1]]
    BY DEF InsertSightings, asset, worker
  <1>3. b \notin Started /\ Started \cup {b} \subseteq Batch
    BY <1>2 DEF Started
  <1>4. /\ Cardinality(Started \cup {b}) = Cardinality(Started) + 1
        /\ Cardinality(Started \cup {b}) \in Nat /\ Cardinality(Started \cup {b}) <= MaxBatches
    <2>1. IsFiniteSet(Batch) /\ Cardinality(Batch) = MaxBatches
      BY FS_Interval, IngestAssumption DEF Batch
    <2> QED
      BY <1>3, <2>1, FS_AddElement, FS_Subset, FS_CardinalityType, StartedFinite
  <1>5. ids + 1 <= Cardinality(Started \cup {b}) /\ ids + 1 \in 0 .. MaxBatches
    BY <1>1, <1>4, StartedFinite, IngestAssumption DEF IdsHandedOut
  <1>6. PICK row : row = [batch[b] EXCEPT !.is = "inserted", !.id = ids + 1]
    OBVIOUS
  <1>7. /\ row \in BatchRow /\ row.is = "inserted" /\ row.read = batch[b].read
        /\ row.recv = batch[b].recv /\ row.id = ids + 1
    BY <1>5, <1>6, FieldsOfBatches DEF BatchRow
  <1>8. /\ batch' \in [Batch -> BatchRow] /\ batch'[b] = row
        /\ \A c \in Batch : c # b => batch'[c] = batch[c]
    BY <1>2, <1>6, <1>7, RowWritten
  <1>9. Stored' = Stored /\ Inserting' = Inserting \cup {b} /\ Started' = Started \cup {b}
    BY <1>2, <1>7, <1>8 DEF Stored, Inserting, Started
  <1>10. b \notin Stored /\ b \notin Inserting
    BY <1>2 DEF Stored, Inserting
  <1>11. ReadsKnown'
    BY <1>2, <1>7, <1>8 DEF ReadsKnown
  <1>12. LockedRowStands'
    BY <1>2, <1>7, <1>8 DEF LockedRowStands
  <1>13. \A c \in Batch : batch'[c].id <= ids'
    <2>1. \A c \in Batch : batch[c].id <= ids /\ batch[c].id \in Nat
      BY FieldsOfBatches DEF IdsHandedOut
    <2> QED
      BY <1>1, <1>2, <1>7, <1>8, <2>1
  <1>14. /\ \A c \in Stored : c \in Batch /\ c # b
         /\ \A c \in Inserting : c \in Batch /\ c # b
    BY <1>10 DEF Stored, Inserting
  <1>15. \A c \in Inserting' : \/ c \in Inserting /\ batch'[c].id = batch[c].id
                                                   /\ batch'[c].recv = batch[c].recv
                               \/ ids < batch'[c].id
    BY <1>1, <1>7, <1>8, <1>9, <1>14
  <1>16. ids' <= Cardinality(Started')
    BY <1>2, <1>5, <1>9
  <1> QED
    BY <1>1, <1>2, <1>8, <1>9, <1>11, <1>12, <1>13, <1>14, <1>15, <1>16, OnlyBatches

LEMMA LockKeeps ==
    ASSUME IngestInv, NEW b \in Batch, LockItem(b)
    PROVE  IngestInv'
  <1> USE DEF IngestInv, IngestTyped
  <1>1. /\ batch[b].is = "inserted" /\ ItemFree /\ time' = time /\ ids' = ids /\ prompt' = prompt
        /\ position' = position /\ filed' = filed /\ moves' = moves /\ byHand' = byHand
        /\ readCursor' = readCursor /\ run' = run /\ started' = started /\ lookedAt' = lookedAt
        /\ batch' = [batch EXCEPT ![b] = [batch[b] EXCEPT !.is = "locked", !.pos = position, !.loc = filed]]
    BY DEF LockItem, asset, worker
  <1>2. PICK row : row = [batch[b] EXCEPT !.is = "locked", !.pos = position, !.loc = filed]
    OBVIOUS
  <1>3. /\ row \in BatchRow /\ row.is = "locked" /\ row.read = batch[b].read /\ row.recv = batch[b].recv
        /\ row.id = batch[b].id /\ row.pos = position /\ row.loc = filed
    BY <1>2, FieldsOfBatches DEF BatchRow
  <1>4. /\ batch' \in [Batch -> BatchRow] /\ batch'[b] = row
        /\ \A c \in Batch : c # b => batch'[c] = batch[c]
    BY <1>1, <1>2, <1>3, RowWritten
  <1>5. Stored' = Stored /\ Inserting' = Inserting /\ Started' = Started
    BY <1>1, <1>3, <1>4 DEF Stored, Inserting, Started
  <1>6. \A c \in Batch : batch'[c].id = batch[c].id /\ batch'[c].read = batch[c].read
                        /\ batch'[c].recv = batch[c].recv
    BY <1>3, <1>4
  <1>7. ReadsKnown'
    BY <1>1, <1>3, <1>4 DEF ReadsKnown
  <1>8. LockedRowStands'
    BY <1>1, <1>3, <1>4 DEF LockedRowStands, ItemFree
  <1>9. ids' <= Cardinality(Started') /\ \A c \in Batch : batch'[c].id <= ids'
    BY <1>1, <1>5, <1>6 DEF IdsHandedOut
  <1>10. ids <= ids' /\ Stored \subseteq Batch /\ Inserting \subseteq Batch
    BY <1>1 DEF Stored, Inserting
  <1> QED
    BY <1>1, <1>4, <1>5, <1>6, <1>7, <1>8, <1>9, <1>10, OnlyBatches

LEMMA FailKeeps ==
    ASSUME IngestInv, NEW b \in Batch, Fails(b)
    PROVE  IngestInv'
  <1> USE IngestInv
  <1>1. /\ batch[b].is \in {"received", "inserted", "locked"} /\ time' = time /\ ids' = ids /\ prompt' = prompt
        /\ position' = position /\ filed' = filed /\ moves' = moves /\ byHand' = byHand
        /\ readCursor' = readCursor /\ run' = run /\ started' = started /\ lookedAt' = lookedAt
        /\ batch' = [batch EXCEPT ![b] = [Unsent EXCEPT !.is = "failed"]]
    BY DEF Fails, asset, worker
  <1>2. PICK row : row = [Unsent EXCEPT !.is = "failed"]
    OBVIOUS
  <1>3. row \in BatchRow /\ row.is = "failed" /\ row.recv = 0 /\ row.id = 0
    BY <1>2, NoPositionYet DEF BatchRow, Unsent
  <1>4. /\ batch' \in [Batch -> BatchRow] /\ batch'[b] = row
        /\ \A c \in Batch : c # b => batch'[c] = batch[c]
    BY <1>1, <1>2, <1>3, RowWritten DEF IngestInv, IngestTyped
  <1>5. Stored' = Stored /\ Inserting' = Inserting \ {b} /\ Started' = Started \cup {b}
    BY <1>1, <1>3, <1>4 DEF Stored, Inserting, Started
  <1>6. Cardinality(Started) <= Cardinality(Started') /\ Cardinality(Started') \in Nat
    <2>1. IsFiniteSet(Started \cup {b})
      BY StartedFinite, FS_AddElement
    <2> QED
      BY <1>5, <2>1, FS_Subset, FS_CardinalityType
  <1>7. /\ ids \in Nat /\ 0 <= ids /\ ids <= Cardinality(Started) /\ time \in Nat /\ 0 <= time
        /\ Cardinality(Started) \in Nat
    <2>1. ids \in Nat /\ ids <= Cardinality(Started) /\ time \in Nat
      BY DEF IngestInv, IngestTyped, IdsHandedOut
    <2> QED
      BY <2>1, StartedFinite
  <1>8. ReadsKnown'
    <2>1. ReadsKnown
      BY DEF IngestInv
    <2> QED
      BY <1>1, <1>3, <1>4, <1>7, <2>1 DEF ReadsKnown
  <1>9. LockedRowStands'
    BY <1>1, <1>3, <1>4 DEF LockedRowStands, IngestInv
  <1>10. ids' <= Cardinality(Started') /\ \A c \in Batch : batch'[c].id <= ids'
    <2>1. ids' = ids /\ \A c \in Batch : batch[c].id <= ids
      BY <1>1 DEF IngestInv, IdsHandedOut
    <2>2. \A c \in Batch : batch'[c].id <= ids
      BY <1>3, <1>4, <1>7, <2>1
    <2>3. ids <= Cardinality(Started')
      BY <1>6, <1>7
    <2> QED
      BY <2>1, <2>2, <2>3
  <1>11. /\ \A c \in Stored : c \in Batch /\ c # b
         /\ \A c \in Inserting' : c \in Inserting /\ c \in Batch /\ c # b
         /\ ids <= ids' /\ ids' \in Nat
    BY <1>1, <1>5, <1>7 DEF Stored, Inserting
  <1>12. /\ \A c \in Stored : /\ batch'[c].id = batch[c].id /\ batch'[c].read = batch[c].read
                              /\ batch'[c].recv = batch[c].recv
         /\ \A c \in Inserting' : /\ c \in Inserting /\ batch'[c].id = batch[c].id
                                  /\ batch'[c].recv = batch[c].recv
    BY <1>4, <1>11
  <1> QED
    BY <1>1, <1>4, <1>5, <1>12, <1>8, <1>9, <1>10, <1>11, OnlyBatches

(* What a batch under the lock makes of the position. *)
LEMMA PositionMoves ==
    ASSUME IngestInv, NEW b \in Batch, CommitBatch(b)
    PROVE  /\ batch[b].read \in Reads /\ batch[b].loc = filed
           /\ IF position.at < batch[b].read.at
              THEN /\ position'.at = batch[b].read.at
                   /\ IF batch[b].read.zone # NoFix
                      THEN position'.zone = batch[b].read.zone /\ position'.entered = TRUE
                      ELSE position'.zone = position.zone /\ position'.entered = position.entered
              ELSE position' = position
           /\ position' \in PositionRow
           /\ Moved(b) <=> /\ position.at < batch[b].read.at /\ batch[b].read.zone # NoFix
                          /\ batch[b].read.zone \in Zone \ {Current(b)}
           /\ Current(b) = IF position.entered THEN position.zone ELSE filed
           /\ Filing(b) => Moved(b) /\ batch[b].read.files
  <1>1. batch[b].is = "locked" /\ batch[b] \in BatchRow
    BY FieldsOfBatches DEF CommitBatch, IngestInv, IngestTyped
  <1>2. batch[b].read \in Reads /\ batch[b].pos = position /\ batch[b].loc = filed
    BY <1>1 DEF IngestInv, ReadsKnown, LockedRowStands
  <1>3. Newer(b) <=> position.at < batch[b].read.at
    <2>1. position.at \in Nat /\ batch[b].read.at \in Nat
      BY <1>2, IngestAssumption DEF IngestInv, IngestTyped, PositionRow, Reads
    <2> QED
      BY <1>2, <2>1 DEF Newer
  <1>4. Fixed(b) <=> position.at < batch[b].read.at /\ batch[b].read.zone # NoFix
    BY <1>3 DEF Fixed
  <1>5. position' = IF position.at < batch[b].read.at THEN Position(b) ELSE position
    BY <1>3 DEF CommitBatch
  <1>6. position \in PositionRow
    BY DEF IngestInv, IngestTyped
  <1>7. batch[b].read.at \in 0 .. MaxAt /\ batch[b].read.zone \in Zone \cup {Elsewhere, NoFix}
    BY <1>2, IngestAssumption DEF Reads
  <1>8. CASE position.at < batch[b].read.at /\ batch[b].read.zone # NoFix
    <2>1. position' = [at |-> batch[b].read.at, zone |-> batch[b].read.zone, entered |-> TRUE]
      BY <1>4, <1>5, <1>8 DEF Position
    <2>2. position' \in PositionRow
      BY <1>7, <1>8, <2>1 DEF PositionRow
    <2> QED
      BY <1>2, <1>4, <1>8, <2>1, <2>2 DEF Moved, Current, Filing
  <1>9. CASE position.at < batch[b].read.at /\ batch[b].read.zone = NoFix
    <2>1. position' = [position EXCEPT !.at = batch[b].read.at]
      BY <1>2, <1>4, <1>5, <1>9 DEF Position
    <2>2. position' \in PositionRow /\ position'.at = batch[b].read.at /\ position'.zone = position.zone
          /\ position'.entered = position.entered
      BY <1>6, <1>7, <2>1 DEF PositionRow
    <2> QED
      BY <1>2, <1>4, <1>9, <2>2 DEF Moved, Current, Filing
  <1>10. CASE ~(position.at < batch[b].read.at)
    BY <1>2, <1>4, <1>5, <1>6, <1>10 DEF Moved, Current, Filing
  <1> QED
    BY <1>8, <1>9, <1>10

LEMMA CommitKeeps ==
    ASSUME IngestInv, NEW b \in Batch, CommitBatch(b)
    PROVE  IngestInv'
  <1>1. /\ batch[b].is = "locked" /\ time' = time /\ ids' = ids
        /\ readCursor' = readCursor /\ run' = run /\ started' = started /\ lookedAt' = lookedAt
        /\ prompt' = (prompt /\ time - batch[b].recv <= PromptBy)
        /\ batch' = [batch EXCEPT ![b] = [Unsent EXCEPT !.is = "stored", !.id = batch[b].id,
                                              !.read = batch[b].read, !.recv = batch[b].recv]]
        /\ filed' = IF Filing(b) THEN batch[b].read.zone ELSE filed
        /\ byHand' = (byHand /\ ~Filing(b))
        /\ moves' = IF Moved(b) THEN Append(moves, [from |-> Current(b), to |-> batch[b].read.zone])
                    ELSE moves
    BY DEF CommitBatch, worker
  <1>2. PICK row : row = [Unsent EXCEPT !.is = "stored", !.id = batch[b].id,
                                        !.read = batch[b].read, !.recv = batch[b].recv]
    OBVIOUS
  <1>3. batch \in [Batch -> BatchRow]
    BY DEF IngestInv, IngestTyped
  <1>4. /\ row \in BatchRow /\ row.is = "stored" /\ row.recv = batch[b].recv /\ row.id = batch[b].id
        /\ row.read = batch[b].read
    BY <1>2, <1>3, FieldsOfBatches, NoPositionYet DEF BatchRow, Unsent
  <1>5. /\ batch' \in [Batch -> BatchRow] /\ batch'[b] = row
        /\ \A c \in Batch : c # b => batch'[c] = batch[c]
    BY <1>1, <1>2, <1>3, <1>4, RowWritten
  <1>6. Stored' = Stored \cup {b} /\ Inserting' = Inserting \ {b} /\ Started' = Started
    BY <1>1, <1>4, <1>5 DEF Stored, Inserting, Started
  <1>7. b \in Inserting /\ b \notin Stored
    BY <1>1 DEF Inserting, Stored
  <1>8. /\ \A c \in Batch : /\ batch'[c].id = batch[c].id /\ batch'[c].read = batch[c].read
                           /\ batch'[c].recv = batch[c].recv
        /\ Stored \subseteq Batch /\ Inserting \subseteq Batch
    BY <1>4, <1>5 DEF Stored, Inserting
  <1>9. /\ time \in Nat /\ time \in 0 .. MaxClock /\ ids \in Nat /\ filed \in Zone /\ moves \in Seq(Move)
        /\ prompt \in BOOLEAN /\ byHand \in BOOLEAN /\ position \in PositionRow
        /\ readCursor \in 0 .. MaxBatches \/ readCursor = Unset
        /\ started \in 0 .. MaxBatches \/ started = Unset
        /\ run \in [is : {"none", "ranged", "placed"}, upto : 0 .. MaxBatches]
    BY DEF IngestInv, IngestTyped
  <1>10. /\ batch[b].read \in Reads /\ batch[b].loc = filed
         /\ IF position.at < batch[b].read.at
            THEN /\ position'.at = batch[b].read.at
                 /\ IF batch[b].read.zone # NoFix
                    THEN position'.zone = batch[b].read.zone /\ position'.entered = TRUE
                    ELSE position'.zone = position.zone /\ position'.entered = position.entered
            ELSE position' = position
         /\ position' \in PositionRow
         /\ Moved(b) <=> /\ position.at < batch[b].read.at /\ batch[b].read.zone # NoFix
                        /\ batch[b].read.zone \in Zone \ {Current(b)}
         /\ Current(b) = IF position.entered THEN position.zone ELSE filed
         /\ Filing(b) => Moved(b) /\ batch[b].read.files
    BY PositionMoves
  <1>11. Current(b) \in Zone \cup {Elsewhere}
    BY <1>9, <1>10 DEF PositionRow
  <1>12. filed' \in Zone /\ byHand' \in BOOLEAN /\ prompt' \in BOOLEAN
    BY <1>1, <1>9, <1>10
  <1>13. moves' \in Seq(Move)
    <2>1. CASE Moved(b)
      <3>1. [from |-> Current(b), to |-> batch[b].read.zone] \in Move
        BY <1>10, <1>11, <2>1 DEF Move
      <3> QED
        BY <1>1, <1>9, <2>1, <3>1
    <2>2. CASE ~Moved(b)
      BY <1>1, <1>9, <2>2
    <2> QED
      BY <2>1, <2>2
  <1>14. IngestTyped'
    BY <1>1, <1>5, <1>9, <1>10, <1>12, <1>13 DEF IngestTyped
  <1>15. IdsHandedOut'
    BY <1>1, <1>6, <1>8 DEF IngestInv, IdsHandedOut
  <1>16. ReadsKnown'
    BY <1>1, <1>4, <1>5, <1>10 DEF IngestInv, ReadsKnown
  <1>17. LockedRowStands'
    BY <1>1, <1>4, <1>5 DEF IngestInv, LockedRowStands
  <1>18. position.at \in Nat /\ batch[b].read.at \in Nat /\ batch[b].recv \in Nat
         /\ \A c \in Stored : batch[c].read.at \in Nat
    <2>1. \A c \in Stored : batch[c].read \in Reads
      BY DEF IngestInv, ReadsKnown, Stored
    <2> QED
      BY <1>3, <1>9, <1>10, <2>1, FieldsOfBatches DEF PositionRow, Reads
  <1>19. LatestStored'
    <2>1. /\ \A c \in Stored : batch[c].read.at <= position.at
          /\ position.at = 0 \/ \E c \in Stored : batch[c].read.at = position.at
      BY DEF IngestInv, LatestStored
    <2>2. CASE position.at < batch[b].read.at
      BY <1>6, <1>8, <1>10, <1>18, <2>1, <2>2 DEF LatestStored
    <2>3. CASE ~(position.at < batch[b].read.at)
      <3>1. batch[b].read.at <= position.at /\ position' = position
        BY <1>10, <1>18, <2>3
      <3> QED
        BY <1>6, <1>8, <2>1, <3>1 DEF LatestStored
    <2> QED
      BY <2>2, <2>3
  <1>20. MovesTracked'
    BY <1>1, <1>10 DEF IngestInv, MovesTracked
  <1>21. MovesChain'
    <2>1. /\ \A i \in 1 .. Len(moves) : moves[i].from # moves[i].to
          /\ \A i \in 2 .. Len(moves) : moves[i].from \in {moves[i - 1].to, Elsewhere}
          /\ moves # <<>> => position.zone \in {moves[Len(moves)].to, Elsewhere} /\ position.entered
      BY DEF IngestInv, MovesChain, MovesTracked
    <2>2. CASE Moved(b)
      <3>1. PICK mv : mv = [from |-> Current(b), to |-> batch[b].read.zone]
        OBVIOUS
      <3>2. mv.from # mv.to /\ mv.to = position'.zone
            /\ (moves # <<>> => mv.from \in {moves[Len(moves)].to, Elsewhere})
        BY <1>10, <2>1, <2>2, <3>1
      <3>3. /\ moves' = Append(moves, mv) /\ Len(moves) \in Nat /\ Len(moves') = Len(moves) + 1
            /\ moves'[Len(moves) + 1] = mv /\ \A i \in 1 .. Len(moves) : moves'[i] = moves[i]
        BY <1>1, <1>9, <2>2, <3>1
      <3>4. \A i \in 1 .. Len(moves') : moves'[i].from # moves'[i].to
        <4> TAKE i \in 1 .. Len(moves')
        <4>1. i \in 1 .. Len(moves) \/ i = Len(moves) + 1
          BY <3>3
        <4> QED
          BY <2>1, <3>2, <3>3, <4>1
      <3>5. \A i \in 2 .. Len(moves') : moves'[i].from \in {moves'[i - 1].to, Elsewhere}
        <4> TAKE i \in 2 .. Len(moves')
        <4>1. CASE i \in 2 .. Len(moves)
          <5>1. i \in 1 .. Len(moves) /\ i - 1 \in 1 .. Len(moves)
            BY <3>3, <4>1
          <5> QED
            BY <2>1, <3>3, <4>1, <5>1
        <4>2. CASE i = Len(moves) + 1
          <5>1. Len(moves) \in 1 .. Len(moves) /\ i - 1 = Len(moves) /\ moves # <<>>
            BY <3>3, <4>2
          <5> QED
            BY <3>2, <3>3, <4>2, <5>1
        <4> QED
          BY <3>3, <4>1, <4>2
      <3>6. position'.zone \in {moves'[Len(moves')].to, Elsewhere}
        BY <3>2, <3>3
      <3> QED
        BY <3>4, <3>5, <3>6 DEF MovesChain
    <2>3. CASE ~Moved(b)
      <3>1. moves' = moves
        BY <1>1, <2>3
      <3>2. moves # <<>> => position'.zone \in {position.zone, Elsewhere}
        BY <1>10, <2>1, <2>3 DEF Reads
      <3> QED
        BY <2>1, <3>1, <3>2 DEF MovesChain
    <2> QED
      BY <2>2, <2>3
  <1>22. FiledAsRead'
    <2>1. CASE Filing(b)
      <3>1. b \in Stored' /\ batch'[b].read.files /\ batch'[b].read.zone = filed'
        BY <1>1, <1>4, <1>5, <1>6, <1>10, <2>1
      <3> QED
        BY <3>1 DEF FiledAsRead
    <2>2. CASE ~Filing(b)
      <3>1. filed' = filed /\ byHand' = byHand
        BY <1>1, <1>9, <2>2
      <3>2. ~byHand => \E c \in Stored : batch[c].read.files /\ batch[c].read.zone = filed
        BY DEF IngestInv, FiledAsRead
      <3> QED
        BY <1>6, <1>8, <3>1, <3>2 DEF FiledAsRead
    <2> QED
      BY <2>1, <2>2
  <1>23. \A c \in Batch : batch[c].recv \in Nat /\ batch[c].recv <= time
    BY <1>3, FieldsOfBatches DEF IngestInv, ReadsKnown
  <1>24. prompt' => prompt /\ time <= batch[b].recv + PromptBy
    <2>1. prompt' => prompt /\ time - batch[b].recv <= PromptBy
      BY <1>1, Zenon
    <2> QED
      BY <1>9, <1>18, <2>1, IngestAssumption
  <1>25. IdsFollowReceipt'
    <2> SUFFICES ASSUME prompt', NEW c \in Numbered', NEW d \in Stored', batch'[c].id <= batch'[d].id
                 PROVE  batch'[c].recv <= batch'[d].recv + PromptBy
      BY DEF IdsFollowReceipt
    <2>1. c \in Numbered /\ c \in Batch /\ d \in Batch
      BY <1>6, <1>7, <1>8 DEF Numbered
    <2>2. CASE d \in Stored
      BY <1>8, <1>24, <2>1, <2>2 DEF IngestInv, IdsFollowReceipt
    <2>3. CASE d = b
      <3>1. batch'[c].recv = batch[c].recv /\ batch'[d].recv = batch[b].recv
        BY <1>8, <1>9, <2>1, <2>3
      <3>2. batch[c].recv \in Nat /\ batch[c].recv <= time /\ batch[b].recv \in Nat
        BY <1>18, <1>23, <2>1
      <3>3. time <= batch[b].recv + PromptBy
        BY <1>24
      <3>4. time \in Nat /\ PromptBy \in Nat
        BY <1>9, <1>18, IngestAssumption
      <3> QED
        BY <3>1, <3>2, <3>3, <3>4
    <2> QED
      BY <1>6, <2>2, <2>3
  <1>26. ASSUME prompt', NEW n \in Nat, LateBehind(n)
         PROVE  /\ LateBehind(n)'
                /\ LookedUpTo(n) => LookedUpTo(n)'
    <2>1. ~(started < batch[b].id /\ batch[b].id <= n)
      <3>1. ~(batch[b].recv + PromptBy < time)
        BY <1>9, <1>18, <1>24, <1>26, IngestAssumption
      <3> QED
        BY <1>7, <1>26, <3>1 DEF LateBehind
    <2>2. LateBehind(n)'
      BY <1>1, <1>6, <1>8, <1>26 DEF LateBehind
    <2>3. ASSUME LookedUpTo(n) PROVE LookedUpTo(n)'
      <3> SUFFICES ASSUME NEW c \in Stored', started' < batch'[c].id, batch'[c].id <= n
                   PROVE  batch'[c].id \in lookedAt'
        BY DEF LookedUpTo
      <3>1. c \in Batch /\ batch'[c].id = batch[c].id /\ c # b
        BY <1>1, <1>6, <1>7, <1>8, <2>1
      <3> QED
        BY <1>1, <1>6, <2>3, <3>1 DEF LookedUpTo
    <2> QED
      BY <2>2, <2>3
  <1>27. WorkerKeepsUp'
    <2>1. (readCursor # Unset => readCursor \in Nat) /\ run.upto \in Nat
      BY <1>9
    <2>2. prompt' /\ readCursor # Unset => LateBehind(readCursor)' /\ LookedUpTo(readCursor)'
      <3> SUFFICES ASSUME prompt', readCursor # Unset
                   PROVE  LateBehind(readCursor)' /\ LookedUpTo(readCursor)'
        OBVIOUS
      <3>1. PICK n \in Nat : n = readCursor
        BY <2>1
      <3>2. LateBehind(n) /\ LookedUpTo(n)
        BY <1>24, <3>1 DEF IngestInv, WorkerKeepsUp
      <3> QED
        BY <1>1, <1>26, <3>1, <3>2 DEF LateBehind, LookedUpTo
    <2>3. prompt' /\ run # NoRun => LateBehind(run.upto)'
      <3> SUFFICES ASSUME prompt', run # NoRun PROVE LateBehind(run.upto)'
        OBVIOUS
      <3>1. PICK n \in Nat : n = run.upto
        BY <2>1
      <3>2. LateBehind(n)
        BY <1>24, <3>1 DEF IngestInv, WorkerKeepsUp
      <3> QED
        BY <1>1, <1>26, <3>1, <3>2 DEF LateBehind
    <2>4. prompt' /\ run.is = "placed" => LookedUpTo(run.upto)'
      <3> SUFFICES ASSUME prompt', run.is = "placed" PROVE LookedUpTo(run.upto)'
        OBVIOUS
      <3>1. PICK n \in Nat : n = run.upto
        BY <2>1
      <3>2. LateBehind(n) /\ LookedUpTo(n)
        BY <1>24, <3>1 DEF IngestInv, WorkerKeepsUp
      <3> QED
        BY <1>1, <1>26, <3>1, <3>2 DEF LookedUpTo
    <2> QED
      BY <1>1, <2>2, <2>3, <2>4 DEF IngestInv, WorkerKeepsUp, Unset
  <1> QED
    BY <1>14, <1>15, <1>16, <1>17, <1>19, <1>20, <1>21, <1>22, <1>25, <1>27 DEF IngestInv

-----------------------------------------------------------------------------
(* Time, people and the worker *)

LEMMA TimeKeeps == ASSUME IngestInv, TimePasses PROVE IngestInv'
  <1>1. /\ time < MaxClock /\ time' = time + 1
        /\ UNCHANGED <<batch, ids, position, filed, moves, byHand, readCursor, run, started, lookedAt, prompt>>
    BY DEF TimePasses, asset, worker
  <1>2. time \in 0 .. MaxClock /\ batch \in [Batch -> BatchRow]
    BY DEF IngestInv, IngestTyped
  <1>3. time' \in 0 .. MaxClock /\ \A n \in Nat : (n <= time => n <= time') /\ (n < time => n < time')
    BY <1>1, <1>2, IngestAssumption
  <1>4. IngestTyped' /\ IdsHandedOut' /\ LockedRowStands' /\ LatestStored' /\ MovesTracked'
        /\ MovesChain' /\ FiledAsRead' /\ IdsFollowReceipt'
    BY <1>1, <1>3 DEF IngestInv, IngestTyped, IdsHandedOut, LockedRowStands, LatestStored, MovesTracked,
       MovesChain, FiledAsRead, IdsFollowReceipt, Stored, Started, Numbered, Inserting
  <1>5. ReadsKnown'
    BY <1>1, <1>2, <1>3, FieldsOfBatches DEF IngestInv, ReadsKnown
  <1>6. \A c \in Inserting : batch[c].recv + PromptBy \in Nat
    BY <1>2, FieldsOfBatches, IngestAssumption DEF Inserting
  <1>7. WorkerKeepsUp'
    BY <1>1, <1>3, <1>6 DEF IngestInv, WorkerKeepsUp, LateBehind, LookedUpTo, Inserting, Stored
  <1> QED
    BY <1>4, <1>5, <1>7 DEF IngestInv

LEMMA HandKeeps == ASSUME IngestInv, FiledByHand PROVE IngestInv'
  <1>1. /\ ItemFree /\ filed' \in Zone /\ byHand' = TRUE
        /\ UNCHANGED <<time, batch, ids, position, moves, readCursor, run, started, lookedAt, prompt>>
    BY DEF FiledByHand, worker
  <1>2. IngestTyped' /\ IdsHandedOut' /\ LockedRowStands' /\ LatestStored' /\ MovesTracked'
        /\ MovesChain' /\ FiledAsRead' /\ IdsFollowReceipt' /\ ReadsKnown'
    BY <1>1 DEF IngestInv, IngestTyped, IdsHandedOut, LockedRowStands, LatestStored, MovesTracked, ReadsKnown,
       MovesChain, FiledAsRead, IdsFollowReceipt, Stored, Started, Numbered, Inserting, ItemFree
  <1>3. WorkerKeepsUp'
    BY <1>1 DEF IngestInv, WorkerKeepsUp, LateBehind, LookedUpTo, Inserting, Stored
  <1> QED
    BY <1>2, <1>3 DEF IngestInv

(* A step of the worker leaves the batches and the asset alone. *)
LEMMA OnlyWorker ==
    ASSUME IngestInv, UNCHANGED <<time, batch, ids, position, filed, moves, byHand, prompt>>,
           readCursor' \in 0 .. MaxBatches \/ readCursor' = Unset,
           started' \in 0 .. MaxBatches \/ started' = Unset,
           run' \in [is : {"none", "ranged", "placed"}, upto : 0 .. MaxBatches],
           readCursor' # Unset => readCursor' <= ids, run'.upto <= ids, lookedAt' \subseteq 1 .. ids,
           WorkerKeepsUp'
    PROVE  IngestInv'
  <1>1. IngestTyped' /\ IdsHandedOut' /\ LockedRowStands' /\ LatestStored' /\ MovesTracked'
        /\ MovesChain' /\ FiledAsRead' /\ IdsFollowReceipt' /\ ReadsKnown'
    BY DEF IngestInv, IngestTyped, IdsHandedOut, LockedRowStands, LatestStored, MovesTracked, ReadsKnown,
       MovesChain, FiledAsRead, IdsFollowReceipt, Stored, Started, Numbered, Inserting, Unset
  <1> QED
    BY <1>1 DEF IngestInv

(* The newest id of some stored reads is one that was handed out. *)
LEMMA NewestId ==
    ASSUME IngestInv, NEW S \in SUBSET Stored
    PROVE  /\ Newest(Ids(S)) \in 0 .. MaxBatches /\ Newest(Ids(S)) <= ids
           /\ S # {} => \E b \in S : batch[b].id = Newest(Ids(S))
           /\ \A b \in S : batch[b].id <= Newest(Ids(S))
  <1>1. /\ batch \in [Batch -> BatchRow] /\ ids \in Nat /\ \A b \in Batch : batch[b].id <= ids
    BY DEF IngestInv, IngestTyped, IdsHandedOut
  <1>2. \A b \in S : b \in Batch /\ batch[b].id \in 0 .. ids /\ batch[b].id \in 0 .. MaxBatches
    BY <1>1, FieldsOfBatches DEF Stored
  <1>3. Ids(S) \in SUBSET (0 .. ids) /\ Ids(S) \in SUBSET (0 .. MaxBatches)
    BY <1>2 DEF Ids
  <1>4. /\ Newest(Ids(S)) \in 0 .. ids /\ Newest(Ids(S)) \in 0 .. MaxBatches
        /\ Newest(Ids(S)) = 0 \/ Newest(Ids(S)) \in Ids(S)
        /\ \A i \in Ids(S) : i <= Newest(Ids(S))
    BY <1>1, <1>3, NewestOf, IngestAssumption
  <1>5. \A b \in S : batch[b].id <= Newest(Ids(S))
    BY <1>4 DEF Ids
  <1>6. S # {} => \E b \in S : batch[b].id = Newest(Ids(S))
    <2> SUFFICES ASSUME S # {} PROVE \E b \in S : batch[b].id = Newest(Ids(S))
      OBVIOUS
    <2>1. CASE Newest(Ids(S)) \in Ids(S)
      BY <2>1 DEF Ids
    <2>2. CASE Newest(Ids(S)) = 0
      <3>1. PICK b \in S : TRUE
        OBVIOUS
      <3>2. batch[b].id = 0
        BY <1>2, <1>5, <2>2
      <3> QED
        BY <2>2, <3>2
    <2> QED
      BY <1>4, <2>1, <2>2
  <1> QED
    BY <1>4, <1>5, <1>6

LEMMA FirstRunKeeps == ASSUME IngestInv, FirstRun PROVE IngestInv'
  <1>1. /\ run = NoRun /\ readCursor = Unset /\ readCursor' = Newest(Ids(Stored)) /\ started' = readCursor'
        /\ UNCHANGED <<time, batch, ids, position, filed, moves, byHand, run, lookedAt, prompt>>
    BY DEF FirstRun, asset
  <1>2. /\ Newest(Ids(Stored)) \in 0 .. MaxBatches /\ Newest(Ids(Stored)) <= ids
    BY NewestId
  <1>3. readCursor' # Unset /\ started' # Unset
    BY <1>1, <1>2, IngestAssumption DEF Unset
  <1>4. WorkerKeepsUp'
    <2>1. LateBehind(readCursor)' /\ LookedUpTo(readCursor)'
      <3>1. \A b \in Batch : batch[b].id \in Nat
        BY FieldsOfBatches DEF IngestInv, IngestTyped
      <3>2. PICK n \in Nat : n = Newest(Ids(Stored))
        BY <1>2
      <3>3. readCursor' = n /\ started' = n
        BY <1>1, <3>2
      <3>4. \A b \in Batch : ~(n < batch[b].id /\ batch[b].id <= n)
        BY <3>1
      <3> QED
        BY <1>1, <3>3, <3>4 DEF LateBehind, LookedUpTo, Inserting, Stored
    <2>2. run' = NoRun /\ NoRun.is = "none"
      BY <1>1, NoPositionYet
    <2>3. Unset' = Unset
      BY DEF Unset
    <2> QED
      BY <1>3, <2>1, <2>2, <2>3 DEF WorkerKeepsUp
  <1> QED
    BY <1>1, <1>2, <1>4, OnlyWorker DEF IngestInv, IngestTyped, IdsHandedOut

LEMMA ReadRangeKeeps == ASSUME IngestInv, ReadRange PROVE IngestInv'
  <1> DEFINE range == {b \in After : InRange(b)}
  <1>1. /\ run = NoRun /\ readCursor # Unset /\ range # {}
        /\ run' = [NoRun EXCEPT !.is = "ranged", !.upto = Newest(Ids(range))]
        /\ UNCHANGED <<time, batch, ids, position, filed, moves, byHand, readCursor, started, lookedAt, prompt>>
    BY DEF ReadRange, asset
  <1>2. range \in SUBSET Stored
    BY DEF After
  <1>3. /\ Newest(Ids(range)) \in 0 .. MaxBatches /\ Newest(Ids(range)) <= ids
        /\ \E b \in range : batch[b].id = Newest(Ids(range))
    BY <1>1, <1>2, NewestId
  <1>4. PICK d \in range : batch[d].id = Newest(Ids(range))
    BY <1>3
  <1>5. d \in Stored /\ d \in Batch /\ d \in After /\ InRange(d)
    BY <1>4 DEF After, Stored
  <1> HIDE DEF range
  <1>6. PICK n \in 0 .. MaxBatches : n = Newest(Ids(range))
    BY <1>3
  <1>7. run' \in [is : {"none", "ranged", "placed"}, upto : 0 .. MaxBatches] /\ run'.is = "ranged" /\ run'.upto = n
    BY <1>1, <1>6, NoPositionYet DEF NoRun
  <1>8. batch[d].recv + Settle <= time
    <2>1. batch[d].id \in Nat
      BY <1>5, FieldsOfBatches DEF IngestInv, IngestTyped
    <2>2. batch[d].id <= batch[d].id
      BY <2>1
    <2> QED
      BY <1>5, <2>2 DEF InRange, Settled
  <1>9. prompt => LateBehind(n)
    <2> SUFFICES ASSUME prompt, NEW b \in Inserting, batch[b].id <= n
                 PROVE  batch[b].recv + PromptBy < time
      BY DEF LateBehind
    <2>1. batch[b].recv <= batch[d].recv + PromptBy
      BY <1>4, <1>5, <1>6 DEF IngestInv, IdsFollowReceipt, Numbered
    <2>2. batch[b].recv \in Nat /\ batch[d].recv \in Nat /\ time \in Nat
      BY <1>5, FieldsOfBatches DEF IngestInv, IngestTyped, Inserting
    <2> QED
      BY <1>8, <2>1, <2>2, IngestAssumption
  <1>10. WorkerKeepsUp'
    <2>1. prompt' /\ run' # NoRun => LateBehind(run.upto)'
      BY <1>1, <1>7, <1>9 DEF LateBehind, Inserting
    <2>2. prompt' /\ readCursor' # Unset => LateBehind(readCursor)' /\ LookedUpTo(readCursor)'
      BY <1>1 DEF IngestInv, WorkerKeepsUp, LateBehind, LookedUpTo, Inserting, Stored
    <2>3. run' # NoRun /\ run'.is # "none" /\ run'.is # "placed" /\ readCursor' # Unset
      BY <1>1, <1>7, NoPositionYet
    <2>4. readCursor' = Unset <=> started' = Unset
      BY <1>1 DEF IngestInv, WorkerKeepsUp
    <2> QED
      BY <2>1, <2>2, <2>3, <2>4 DEF WorkerKeepsUp, NoRun, Unset
  <1> QED
    BY <1>1, <1>3, <1>6, <1>7, <1>10, OnlyWorker DEF IngestInv, IngestTyped, IdsHandedOut

LEMMA ApplyKeeps == ASSUME IngestInv, ApplyReads PROVE IngestInv'
  <1>1. /\ run.is = "ranged" /\ lookedAt' = lookedAt \cup {i \in Ids(After) : i <= run.upto}
        /\ run' = [run EXCEPT !.is = "placed"]
        /\ UNCHANGED <<time, batch, ids, position, filed, moves, byHand, readCursor, started, prompt>>
    BY DEF ApplyReads, asset
  <1>2. /\ run \in [is : {"none", "ranged", "placed"}, upto : 0 .. MaxBatches]
        /\ batch \in [Batch -> BatchRow] /\ ids \in Nat /\ lookedAt \subseteq 1 .. ids
        /\ \A b \in Batch : batch[b].id <= ids
    BY DEF IngestInv, IngestTyped, IdsHandedOut
  <1>3. /\ run' \in [is : {"none", "ranged", "placed"}, upto : 0 .. MaxBatches] /\ run'.is = "placed"
        /\ run'.upto = run.upto
    BY <1>1, <1>2
  <1>4. run # NoRun /\ readCursor # Unset /\ run' # NoRun
    BY <1>1, <1>3, NoPositionYet DEF IngestInv, WorkerKeepsUp
  <1>5. readCursor \in Nat
    BY <1>4 DEF IngestInv, IngestTyped
  <1>6. \A b \in After : b \in Batch /\ batch[b].id \in Nat /\ readCursor < batch[b].id
    BY <1>2, <1>5, FieldsOfBatches DEF After, Stored
  <1>7. lookedAt' \subseteq 1 .. ids
    <2>1. \A i \in Ids(After) : i \in 1 .. ids
      BY <1>2, <1>5, <1>6 DEF Ids
    <2> QED
      BY <1>1, <1>2, <2>1
  <1>8. WorkerKeepsUp'
    <2>1. prompt => LateBehind(readCursor) /\ LookedUpTo(readCursor) /\ LateBehind(run.upto)
      BY <1>4 DEF IngestInv, WorkerKeepsUp
    <2>2. prompt' => LateBehind(readCursor)' /\ LookedUpTo(readCursor)' /\ LateBehind(run.upto)'
      BY <1>1, <1>3, <2>1 DEF LateBehind, LookedUpTo, Inserting, Stored
    <2>3. prompt' => LookedUpTo(run.upto)'
      <3> SUFFICES ASSUME prompt, NEW b \in Stored, started < batch[b].id, batch[b].id <= run.upto
                   PROVE  batch[b].id \in lookedAt'
        BY <1>1, <1>3 DEF LookedUpTo, Stored
      <3>1. CASE batch[b].id > readCursor
        BY <1>1, <3>1 DEF After, Ids
      <3>2. CASE ~(batch[b].id > readCursor)
        <4>1. batch[b].id \in Nat /\ batch[b].id <= readCursor
          BY <1>2, <1>5, <3>2, FieldsOfBatches DEF Stored
        <4> QED
          BY <1>1, <2>1, <4>1 DEF LookedUpTo
      <3> QED
        BY <3>1, <3>2
    <2>4. (readCursor' = Unset <=> started' = Unset) /\ readCursor' # Unset
      BY <1>1, <1>4 DEF IngestInv, WorkerKeepsUp
    <2> QED
      BY <1>3, <1>4, <2>2, <2>3, <2>4 DEF WorkerKeepsUp, NoRun, Unset
  <1> QED
    BY <1>1, <1>2, <1>3, <1>7, <1>8, OnlyWorker DEF IngestInv, IngestTyped, IdsHandedOut

LEMMA CursorKeeps == ASSUME IngestInv, MoveCursor PROVE IngestInv'
  <1>1. /\ run.is = "placed" /\ readCursor' = run.upto /\ run' = NoRun
        /\ UNCHANGED <<time, batch, ids, position, filed, moves, byHand, started, lookedAt, prompt>>
    BY DEF MoveCursor, asset
  <1>2. run.upto \in 0 .. MaxBatches /\ run.upto <= ids /\ ids \in Nat
    BY DEF IngestInv, IngestTyped, IdsHandedOut
  <1>3. run # NoRun /\ readCursor # Unset /\ started # Unset /\ readCursor' # Unset
    BY <1>1, <1>2, NoPositionYet, IngestAssumption DEF IngestInv, WorkerKeepsUp, Unset
  <1>4. WorkerKeepsUp'
    <2>1. prompt => LateBehind(run.upto) /\ LookedUpTo(run.upto)
      BY <1>1, <1>3 DEF IngestInv, WorkerKeepsUp
    <2>2. prompt' => LateBehind(readCursor)' /\ LookedUpTo(readCursor)'
      BY <1>1, <2>1 DEF LateBehind, LookedUpTo, Inserting, Stored
    <2>3. Unset' = Unset /\ NoRun' = NoRun /\ run'.is = "none"
      BY <1>1, NoPositionYet DEF Unset, NoRun
    <2> QED
      BY <1>1, <1>3, <2>2, <2>3 DEF WorkerKeepsUp
  <1> QED
    BY <1>1, <1>2, <1>4, OnlyWorker, NoPositionYet DEF IngestInv, IngestTyped, IdsHandedOut

LEMMA StopKeeps == ASSUME IngestInv, RunStops PROVE IngestInv'
  <1>1. /\ run' = NoRun
        /\ UNCHANGED <<time, batch, ids, position, filed, moves, byHand, readCursor, started, lookedAt, prompt>>
    BY DEF RunStops, asset
  <1>2. WorkerKeepsUp'
    BY <1>1, NoPositionYet DEF IngestInv, WorkerKeepsUp, LateBehind, LookedUpTo, Inserting, Stored, Unset, NoRun
  <1>3. run'.upto <= ids
    BY <1>1, NoPositionYet DEF IngestInv, IngestTyped
  <1> QED
    BY <1>1, <1>2, <1>3, OnlyWorker, NoPositionYet DEF IngestInv, IngestTyped, IdsHandedOut

-----------------------------------------------------------------------------
LEMMA IngestStarts == ASSUME IngestInit PROVE IngestInv
  <1> USE DEF IngestInit
  <1>1. \A b \in Batch : batch[b].is = "unsent" /\ batch[b].recv = 0 /\ batch[b].id = 0
    BY DEF Unsent
  <1>2. Stored = {} /\ Inserting = {}
    BY <1>1 DEF Stored, Inserting
  <1>3. IngestTyped
    BY NoPositionYet, IngestAssumption DEF IngestTyped
  <1>4. IdsHandedOut
    BY <1>1, StartedFinite, NoPositionYet DEF IdsHandedOut
  <1>5. ReadsKnown /\ LockedRowStands
    BY <1>1 DEF ReadsKnown, LockedRowStands
  <1>6. LatestStored /\ IdsFollowReceipt
    BY <1>2 DEF LatestStored, IdsFollowReceipt, NoPosition
  <1>7. MovesTracked /\ MovesChain /\ FiledAsRead
    BY DEF MovesTracked, MovesChain, FiledAsRead
  <1>8. WorkerKeepsUp
    BY NoPositionYet DEF WorkerKeepsUp
  <1> QED
    BY <1>3, <1>4, <1>5, <1>6, <1>7, <1>8 DEF IngestInv

LEMMA IngestSteps == IngestInv /\ [IngestNext]_ivars => IngestInv'
  <1> SUFFICES ASSUME IngestInv, [IngestNext]_ivars PROVE IngestInv'
    OBVIOUS
  <1>1. CASE UNCHANGED ivars
    BY <1>1 DEF ivars, IngestInv, IngestTyped, IdsHandedOut, LockedRowStands, LatestStored, MovesTracked, ReadsKnown,
       MovesChain, FiledAsRead, IdsFollowReceipt, Stored, Started, Numbered, Inserting, Unset, WorkerKeepsUp,
       LateBehind, LookedUpTo, NoRun
  <1>2. CASE IngestNext
    BY <1>2, TimeKeeps, HandKeeps, ReceiveKeeps, InsertKeeps, LockKeeps, CommitKeeps, FailKeeps,
       FirstRunKeeps, ReadRangeKeeps, ApplyKeeps, CursorKeeps, StopKeeps DEF IngestNext
  <1> QED
    BY <1>1, <1>2

LEMMA InvariantIsSound == IngestInv => SightingsSound
  <1> SUFFICES ASSUME IngestInv PROVE SightingsSound
    OBVIOUS
  <1>1. batch \in [Batch -> BatchRow] /\ ids \in Nat /\ ids <= MaxBatches
    <2>1. ids \in Nat /\ ids <= Cardinality(Started)
      BY DEF IngestInv, IngestTyped, IdsHandedOut
    <2> QED
      BY <2>1, StartedFinite, IngestAssumption DEF IngestInv, IngestTyped
  <1>2. IngestTypeOK
    <2>1. \A b \in Batch :
             /\ batch[b].is \in {"unsent", "received", "inserted", "locked", "stored", "failed"}
             /\ batch[b].read \in Reads \cup {NotYet} /\ batch[b].recv \in 0 .. MaxClock
             /\ batch[b].id \in 0 .. ids
      BY <1>1, FieldsOfBatches DEF IngestInv, IdsHandedOut
    <2>2. run.is \in {"none", "ranged", "placed"} /\ run.upto \in 0 .. ids
          /\ run = [is |-> run.is, upto |-> run.upto]
      BY <1>1 DEF IngestInv, IngestTyped, IdsHandedOut
    <2>3. run \in [is : {"none", "ranged", "placed"}, upto : 0 .. ids]
      BY <2>2
    <2> QED
      BY <1>1, <2>1, <2>3, IngestAssumption DEF IngestTypeOK, IngestInv, IngestTyped, IdsHandedOut, Unset, PositionRow
  <1>3. PositionIsLatest
    <2> DEFINE ats == {batch[b].read.at : b \in Stored}
    <2>1. \A b \in Stored : batch[b].read.at \in 0 .. MaxAt
      BY IngestAssumption DEF IngestInv, ReadsKnown, Stored, Reads
    <2>2. ats \in SUBSET (0 .. MaxAt) /\ MaxAt \in Nat /\ position.at \in 0 .. MaxAt
      BY <2>1, IngestAssumption DEF IngestInv, IngestTyped, PositionRow
    <2>3. /\ Newest(ats) \in 0 .. MaxAt
          /\ Newest(ats) = 0 \/ Newest(ats) \in ats
          /\ \A x \in ats : x <= Newest(ats)
      BY <2>2, NewestOf
    <2>4. /\ \A x \in ats : x <= position.at
          /\ position.at = 0 \/ position.at \in ats
      BY DEF IngestInv, LatestStored
    <2> HIDE DEF ats
    <2>5. Newest(ats) <= position.at
      BY <2>2, <2>3, <2>4
    <2>6. position.at <= Newest(ats)
      BY <2>2, <2>3, <2>4
    <2>7. position.at = Newest(ats)
      BY <2>2, <2>3, <2>5, <2>6
    <2> QED
      BY <2>7 DEF PositionIsLatest, ats
  <1>4. NothingSlipsPast
    BY DEF IngestInv, WorkerKeepsUp, LookedUpTo, NothingSlipsPast, Ids
  <1> QED
    BY <1>2, <1>3, <1>4 DEF SightingsSound, IngestInv

(* tracking/ingest.ts, placement/readers.ts: ids follow the order of receipt as far as batches
   are prompt, the row's lock keeps what a batch read of the asset, and what the worker has not
   applied by its cursor cannot be stored promptly any more. *)
THEOREM IngestInvariant == IngestSpec => []IngestInv
PROOF
  <1> QED
    BY IngestStarts, IngestSteps, PTL DEF IngestSpec

(* tracking/ingest.ts, placement/readers.ts: for any number of batches, zones and moments, an
   asset is where the latest stored read put it, its moves chain, it is filed as a read said,
   and nothing slips past the placement worker's cursor while batches are prompt. *)
THEOREM SightingsStaySound == IngestSpec => []SightingsSound
PROOF
  <1> QED
    BY IngestInvariant, InvariantIsSound, PTL
=============================================================================
