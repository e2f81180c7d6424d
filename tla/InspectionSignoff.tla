--------------------------- MODULE InspectionSignoff ---------------------------
(* A post-move inspection (inspections/inspections.ts, pairing.ts, content.ts): its findings,
   how they are paired with those of the pre-move inspection, and the two signatures that
   cover both.  Every request looks first, and writes by id without looking again; only
   completing and the pairs of the model are written under a condition.

   A signature is the content it was made over.  One bit stands for the words, the photos
   and the site of the inspection, and one for those of the pre-move inspection, which has
   a life of its own: it is reopened and edited whatever compares with it. *)
EXTENDS Integers, SequencesExt

CONSTANTS
    Asker,       \* the requests that are under way at once
    PreFinding,  \* findings of the pre-move inspection
    LastFinding, \* the findings of this one are 1 .. LastFinding, in their order
    Closest,     \* pairs in one room and spot, the most similar first
    Blank,
    MaxRequests  \* bound: requests, of the pre-move inspection too

Finding == 1 .. LastFinding

ASSUME InspectionAssumption ==
    /\ LastFinding \in Nat /\ MaxRequests \in Nat
    /\ Closest \in Seq(Finding \X PreFinding)
    /\ Blank \notin PreFinding

VARIABLES
    status,     \* draft, completed, signed or deleted
    slots,      \* [SignRole -> the signature in it, or Blank]
    found,      \* [Finding -> its stored pairing; it is absent first, and gone last]
    compared,   \* the pre-move inspection is chosen
    earlier,    \* the findings it has, and their words
    words,      \* the words of this one
    asked,      \* requests so far
    client      \* [Asker -> its request]

inspVars == <<status, slots, found, compared, earlier, words, asked, client>>

SignRole == {"facility", "crew"}
Unpaired == [source |-> "none", with |-> Blank]
Unfound == [source |-> "absent", with |-> Blank]
Gone == [source |-> "gone", with |-> Blank]
NoRequest == [op |-> "none", late |-> FALSE, chief |-> FALSE, of |-> Blank, to |-> Blank,
              pairs |-> {}, over |-> Blank]

InspectionInit ==
    /\ status = "draft" /\ slots = [r \in SignRole |-> Blank]
    /\ found = [f \in Finding |-> IF f = 1 THEN Unpaired ELSE Unfound]
    /\ compared = TRUE
    /\ earlier = [there |-> PreFinding, words |-> 0]
    /\ words = 0 /\ asked = 0
    /\ client = [p \in Asker |-> NoRequest]

-----------------------------------------------------------------------------
(* The comparison, recomputed on every read *)

Found == {f \in Finding : found[f].source \notin {"absent", "gone"}}
RuledOut(f) == found[f].source = "manual" /\ found[f].with = Blank

(* What each finding, in its order, has stored: a person's choice or the model's. *)
StoredPairs(source) ==
    [f \in Finding |-> <<f, IF found[f].source = source THEN found[f].with ELSE Blank>>]

(* Who claims a finding that is there has it first. *)
Settle(pairs, offer) ==
    IF \/ offer[1] \notin Found \/ RuledOut(offer[1]) \/ pairs[offer[1]] # Blank
       \/ offer[2] \notin earlier.there \/ \E f \in Finding : pairs[f] = offer[2]
    THEN pairs ELSE [pairs EXCEPT ![offer[1]] = offer[2]]

(* A person's choices before the model's, and those before what lies nearest. *)
Pairing(stored) ==
    IF compared THEN FoldLeft(Settle, [f \in Finding |-> Blank], stored \o Closest)
    ELSE [f \in Finding |-> Blank]

compareFindings == Pairing(StoredPairs("manual") \o StoredPairs("ai"))

(* What the model is asked about: it pairs again what it paired before. *)
unmatched ==
    LET kept == Pairing(StoredPairs("manual"))
    IN {pair \in Found \X earlier.there :
          /\ kept[pair[1]] = Blank /\ ~RuledOut(pair[1])
          /\ \A g \in Finding : kept[g] # pair[2]}

(* How a pair came about is not signed. *)
Content == [words |-> words, on |-> Found, compared |-> compared,
            earlier |-> IF compared THEN earlier ELSE Blank, pairs |-> compareFindings]

-----------------------------------------------------------------------------
(* A request *)

Asking == asked < MaxRequests /\ asked' = asked + 1

StartsWith(p, request) ==
    /\ client[p] = NoRequest /\ Asking
    /\ client' = [client EXCEPT ![p] = request]

Asks(op, f, to) == [NoRequest EXCEPT !.op = op, !.of = f, !.to = to]

(* What the others read is not so any more. *)
Overtaking(p, next) ==
    client' = [q \in Asker |-> IF q = p THEN next
                               ELSE [client[q] EXCEPT !.late = client[q] # NoRequest]]

assertDraft == status = "draft"

LooksFirst(p) ==
    /\ assertDraft
    /\ \/ \E f \in Finding : found[f] = Unfound /\ StartsWith(p, Asks("add", f, Blank))
       \/ \E f \in Found : StartsWith(p, Asks("remove", f, Blank))
       \/ StartsWith(p, Asks("write", Blank, Blank))
       \/ StartsWith(p, Asks("compare", Blank, IF compared THEN "none" ELSE "earlier"))
       \/ /\ compared
          /\ \/ \E f \in Found, b \in earlier.there : StartsWith(p, Asks("free", f, b))
             \/ \E f \in Found, to \in {"out", "auto"} : StartsWith(p, Asks("pair", f, to))
             \/ \E few \in SUBSET unmatched :
                   /\ \A s, t \in few : s # t => s[1] # t[1] /\ s[2] # t[2]
                   /\ StartsWith(p, [NoRequest EXCEPT !.op = "match", !.pairs = few])
    /\ UNCHANGED <<status, slots, found, compared, earlier, words>>

(* Nothing is found by the id, or the server stopped. *)
GoesAway(p) ==
    /\ client[p] # NoRequest
    /\ client' = [client EXCEPT ![p] = NoRequest]
    /\ UNCHANGED <<status, slots, found, compared, earlier, words, asked>>

Acts(p, op) == client[p].op = op /\ status # "deleted"

addFinding(p) ==
    /\ Acts(p, "add")
    /\ found[client[p].of] = Unfound
    /\ found' = [found EXCEPT ![client[p].of] = Unpaired]
    /\ Overtaking(p, NoRequest)
    /\ UNCHANGED <<status, slots, compared, earlier, words, asked>>

removeFinding(p) ==
    /\ Acts(p, "remove")
    /\ found[client[p].of] # Gone
    /\ found' = [found EXCEPT ![client[p].of] = Gone]
    /\ Overtaking(p, NoRequest)
    /\ UNCHANGED <<status, slots, compared, earlier, words, asked>>

(* The words of the inspection, or of one of its findings. *)
updateFinding(p) ==
    /\ Acts(p, "write")
    /\ words' = 1 - words
    /\ Overtaking(p, NoRequest)
    /\ UNCHANGED <<status, slots, found, compared, earlier, asked>>

(* Pairs chosen against another inspection mean nothing against this one. *)
updateInspection(p) ==
    \/ /\ Acts(p, "compare")
       /\ found' = [f \in Finding |-> IF f \in Found THEN Unpaired ELSE found[f]]
       /\ Overtaking(p, [client[p] EXCEPT !.op = "choose"])
       /\ UNCHANGED <<status, slots, compared, earlier, words, asked>>
    \/ /\ Acts(p, "choose")
       /\ compared' = (client[p].to = "earlier")
       /\ Overtaking(p, NoRequest)
       /\ UNCHANGED <<status, slots, found, earlier, words, asked>>

(* A person's choice takes the other's finding from it, and then stands, in two steps. *)
Choice(to) == CASE to = "auto" -> Unpaired
                [] to = "out" -> [source |-> "manual", with |-> Blank]
                [] OTHER -> [source |-> "manual", with |-> to]

setPairing(p) ==
    \/ /\ Acts(p, "free")
       /\ found' = [f \in Finding |-> IF f # client[p].of /\ found[f].with = client[p].to
                                      THEN Unpaired ELSE found[f]]
       /\ Overtaking(p, [client[p] EXCEPT !.op = "pair"])
       /\ UNCHANGED <<status, slots, compared, earlier, words, asked>>
    \/ /\ Acts(p, "pair")
       /\ client[p].of \in Found
       /\ client[p].to \in earlier.there \cup {"out", "auto"}
       /\ found' = [found EXCEPT ![client[p].of] = Choice(client[p].to)]
       /\ Overtaking(p, NoRequest)
       /\ UNCHANGED <<status, slots, compared, earlier, words, asked>>

MayPair(f) == f \in Found /\ found[f].source \in {"none", "ai"}

storeAiPairs(p) ==
    /\ Acts(p, "match")
    /\ \A pair \in client[p].pairs : pair[2] \in earlier.there
    /\ LET cleared == [f \in Finding |-> IF found[f].source = "ai" THEN Unpaired ELSE found[f]]
           Paired(f) == {b \in PreFinding : <<f, b>> \in client[p].pairs}
       IN found' = [f \in Finding |->
             IF Paired(f) # {} /\ MayPair(f)
             THEN [source |-> "ai", with |-> CHOOSE b \in Paired(f) : TRUE] ELSE cleared[f]]
    /\ Overtaking(p, NoRequest)
    /\ UNCHANGED <<status, slots, compared, earlier, words, asked>>

-----------------------------------------------------------------------------
(* The pre-move inspection *)

(* It is not removed while a completed inspection stores a pair with it.  One that goes
   takes its place in the stored pairs with it, and leaves whose choice the pair was. *)
EarlierLoses(p) ==
    \/ /\ \E b \in earlier.there :
             /\ status \notin {"draft", "deleted"} => \A f \in Finding : found[f].with # b
             /\ StartsWith(p, Asks("lose", Blank, b))
       /\ UNCHANGED <<status, slots, found, compared, earlier, words>>
    \/ /\ client[p].op = "lose"
       /\ earlier' = [earlier EXCEPT !.there = @ \ {client[p].to}]
       /\ found' = [f \in Finding |-> IF found[f].with = client[p].to
                                      THEN [found[f] EXCEPT !.with = Blank] ELSE found[f]]
       /\ Overtaking(p, NoRequest)
       /\ UNCHANGED <<status, slots, compared, words, asked>>

EarlierEdited ==
    /\ Asking
    /\ earlier' = [earlier EXCEPT !.words = 1 - @]
    /\ Overtaking(Blank, NoRequest)
    /\ UNCHANGED <<status, slots, found, compared, words>>

-----------------------------------------------------------------------------
(* Its life *)

(* Mutant: the slots are filled, whatever with. *)
BothFilled(held, content) == \A r \in SignRole : held[r] # Blank

(* Both slots hold a signature over what was read. *)
bothSigned(held, content) == \A r \in SignRole : held[r] = content

(* The status changes under its condition; then the signatures that were there from
   before count, if they cover what there is. *)
completeInspection(p) ==
    \/ /\ assertDraft /\ client[p] = NoRequest /\ Asking
       /\ status' = "completed"
       /\ Overtaking(p, [NoRequest EXCEPT !.op = "reuse", !.over = slots])
       /\ UNCHANGED <<slots, found, compared, earlier, words>>
    \/ /\ Acts(p, "reuse")
       /\ client' = [client EXCEPT ![p] =
             IF bothSigned(client[p].over, Content) THEN [@ EXCEPT !.op = "sign", !.over = Blank]
             ELSE NoRequest]
       /\ UNCHANGED <<status, slots, found, compared, earlier, words, asked>>

(* A signed one is reopened, and deleted, by an administrator. *)
asksToUndo(p) ==
    /\ \E op \in {"reopen", "delete"}, chief \in BOOLEAN :
          /\ status # "deleted" /\ (op = "reopen" => status # "draft")
          /\ status = "signed" => chief
          /\ client[p] = NoRequest /\ Asking
          /\ client' = [client EXCEPT ![p].op = op, ![p].chief = chief]
    /\ UNCHANGED <<status, slots, found, compared, earlier, words>>

reopenInspection(p) ==
    /\ Acts(p, "reopen")
    /\ status' = "draft"
    /\ Overtaking(p, NoRequest)
    /\ UNCHANGED <<slots, found, compared, earlier, words, asked>>

deleteInspection(p) ==
    /\ Acts(p, "delete")
    /\ status' = "deleted"
    /\ Overtaking(p, NoRequest)
    /\ UNCHANGED <<slots, found, compared, earlier, words, asked>>

(* A signature that does not cover what is read is refused, whenever it was made.  Its slot
   is filled; with both, the inspection is signed. *)
recordSignoff(p) ==
    \/ /\ status \in {"completed", "signed"}
       /\ \E r \in SignRole :
             StartsWith(p, [NoRequest EXCEPT !.op = "fill", !.to = r, !.over = Content])
       /\ UNCHANGED <<status, slots, found, compared, earlier, words>>
    \/ /\ Acts(p, "fill")
       /\ slots' = [slots EXCEPT ![client[p].to] = client[p].over]
       /\ Overtaking(p, IF status # "signed" /\ bothSigned(slots', client[p].over)
                        THEN [client[p] EXCEPT !.op = "sign", !.over = Blank] ELSE NoRequest)
       /\ UNCHANGED <<status, found, compared, earlier, words, asked>>
    \/ /\ Acts(p, "sign")
       /\ status' = "signed"
       /\ Overtaking(p, NoRequest)
       /\ UNCHANGED <<slots, found, compared, earlier, words, asked>>

-----------------------------------------------------------------------------
InspectionNext ==
    \/ EarlierEdited
    \/ \E p \in Asker :
          \/ LooksFirst(p) \/ GoesAway(p) \/ EarlierLoses(p)
          \/ addFinding(p) \/ removeFinding(p) \/ updateFinding(p)
          \/ updateInspection(p) \/ setPairing(p) \/ storeAiPairs(p)
          \/ completeInspection(p) \/ asksToUndo(p) \/ reopenInspection(p)
          \/ deleteInspection(p) \/ recordSignoff(p)

InspectionSpec == InspectionInit /\ [][InspectionNext]_inspVars

-----------------------------------------------------------------------------
(* Properties *)

(* docs/inspections.md:57-59, 111-114, inspections.ts:867: it becomes signed when both
   signatures cover what there is then, also after it was reopened, edited and completed
   again, unless it changes under the request that signs. *)
SignedOverContent ==
    \A p \in Asker :
        client[p].op = "sign" /\ status # "signed" /\ status' = "signed"
        => client[p].late \/ \A r \in SignRole : slots[r] = Content

(* docs/inspections.md:66-68: what is signed stays so, unless an administrator undoes it
   or the request looked before it was signed. *)
EvidenceStays ==
    status = "signed" /\ status' # "signed" =>
        \E p \in Asker : /\ client[p].op \in {"reopen", "delete"} /\ client'[p] # client[p]
                         /\ client[p].chief \/ client[p].late

(* docs/inspections.md:88-95, inspections.ts:738: the model, however long it thinks, leaves
   a person's choices alone, and they come first in the comparison; two made at once for
   one finding are the exception. *)
ChoicesStand ==
    \A f \in Found : found[f].source = "manual" =>
        /\ \/ found'[f] = found[f] \/ earlier' # earlier
           \/ \E p \in Asker : client[p].op \in {"free", "pair", "remove", "compare"}
                                /\ client'[p] # client[p]
        /\ \/ ~compared \/ compareFindings[f] = found[f].with
           \/ \E g \in Found \ {f} : found[g] = found[f]

(* What was found, chosen and signed stays as people meant it, over every order of requests
   that look and then write. *)
SignoffsStand == [][SignedOverContent /\ EvidenceStays /\ ChoicesStand]_inspVars
=============================================================================
