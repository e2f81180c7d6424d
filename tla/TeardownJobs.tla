---------------------------- MODULE TeardownJobs ----------------------------
(***************************************************************************)
(* The job that reads a teardown guide from its video: queued in the       *)
(* guide's row, claimed by a server, taken through its stages under a      *)
(* token that every write asks for, and picked up by another server when   *)
(* its heartbeat stops; while people stop it, queue it again, change the   *)
(* video, write steps and edit parts.                                      *)
(*                                                                         *)
(* One guide, speech to text, a language model and ffmpeg at hand.         *)
(***************************************************************************)
EXTENDS Integers

CONSTANTS
    Server,      \* processes with a teardown worker
    Person,      \* people at the guide
    Chunks,      \* pieces of audio, each sent to be transcribed
    MaxTries,    \* MAX_ATTEMPTS
    MaxVideo,    \* bound: videos the guide has had
    MaxRequests, \* bound: what people ask for
    MaxLapses    \* bound: servers that die, and heartbeats that stop reaching the database

ASSUME TeardownAssumption ==
    /\ Chunks \in Nat \ {0} /\ MaxTries \in Nat \ {0} /\ MaxVideo \in Nat \ {0}
    /\ MaxRequests \in Nat /\ MaxLapses \in Nat

VARIABLES
    guide,     \* its row
    steps,     \* who wrote the steps there are: "person", "narration"
    picture,   \* of the narration's step: "none", "grabbed" or "picked"
    part,      \* the narration's part: "none", "heard", "edited" or "refined"
    jobOf,     \* [Server -> the job it runs]
    asking,    \* [Person -> the request that read the row]
    requests,  \* counts what MaxRequests bounds
    lapses,    \* counts what MaxLapses bounds
    paid,      \* audio transcribed, ever
    restarts,  \* times a person had what was transcribed thrown away
    crossed    \* a request that keeps or drops the transcript wrote over a row it had not seen

teardownVars == <<guide, steps, picture, part, jobOf, asking, requests, lapses, paid, restarts, crossed>>

(* A transcript: the audio pieces it holds, whether that is all, whether steps were read
   from it, and the video it is of. *)
NoTranscript == [done |-> 0, complete |-> FALSE, read |-> FALSE, of |-> 0]

Idle == [stage |-> "none"]
Quiet == [what |-> "none"]

TeardownInit ==
    /\ guide = [there |-> TRUE, status |-> "idle", token |-> 0, tokens |-> 0, tries |-> 0,
                beating |-> FALSE, video |-> 1, heard |-> NoTranscript, draft |-> "none",
                refined |-> FALSE]
    /\ steps = {} /\ picture = "none" /\ part = "none"
    /\ jobOf = [s \in Server |-> Idle]
    /\ asking = [p \in Person |-> Quiet]
    /\ requests = 0 /\ lapses = 0 /\ paid = 0 /\ restarts = 0 /\ crossed = FALSE

-----------------------------------------------------------------------------
(* People.  Each request reads the row, and then writes it, whatever it has become. *)

Asks == requests < MaxRequests /\ requests' = requests + 1

isRunning == guide.status = "running" /\ guide.beating

Seen == [heard |-> guide.heard, token |-> guide.token, video |-> guide.video]

(* What a request sees before it writes. *)
Ask(p) ==
    /\ asking[p] = Quiet /\ Asks /\ guide.there
    /\ \E what \in {"continue", "steps", "all", "stop", "video", "apply", "discard"} :
        /\ CASE what \in {"continue", "steps", "all"} -> ~isRunning
             [] what = "stop" -> guide.status \in {"queued", "running"}
             [] what = "video" -> guide.status # "running" /\ guide.video < MaxVideo
             [] what = "apply" -> guide.draft = "pending"
             [] what = "discard" -> guide.status # "running"
        /\ asking' = [asking EXCEPT ![p] = [what |-> what, seen |-> Seen]]
    /\ UNCHANGED <<guide, steps, picture, part, jobOf, lapses, paid, restarts, crossed>>

Answer(p) == asking' = [asking EXCEPT ![p] = Quiet]

enqueueGuide(p) ==
    /\ asking[p].what \in {"continue", "steps", "all"}
    /\ LET mode == asking[p].what
           kept == CASE mode = "all" -> NoTranscript
                     [] mode = "steps" /\ asking[p].seen.heard # NoTranscript ->
                            [asking[p].seen.heard EXCEPT !.read = FALSE]
                     [] OTHER -> guide.heard
       IN /\ guide' = [guide EXCEPT !.status = "queued", !.token = 0, !.tries = 0, !.beating = FALSE,
                          !.heard = kept, !.draft = IF mode = "continue" THEN @ ELSE "none",
                          !.refined = @ /\ mode = "continue"]
          /\ crossed' = (crossed \/ (mode = "steps" /\ asking[p].seen # Seen))
          /\ restarts' = IF kept.done < guide.heard.done THEN restarts + 1 ELSE restarts
    /\ Answer(p)
    /\ UNCHANGED <<steps, picture, part, jobOf, requests, lapses, paid>>

(* Mutant: a stopped job keeps its token. *)
cancelGuideJobKeepingToken(p) ==
    /\ asking[p].what = "stop"
    /\ guide' = [guide EXCEPT !.status = "idle"]
    /\ Answer(p)
    /\ UNCHANGED <<steps, picture, part, jobOf, requests, lapses, paid, restarts, crossed>>

cancelGuideJob(p) ==
    /\ asking[p].what = "stop"
    /\ guide' = [guide EXCEPT !.status = "idle", !.token = 0]
    /\ Answer(p)
    /\ UNCHANGED <<steps, picture, part, jobOf, requests, lapses, paid, restarts, crossed>>

updateGuide(p) ==
    /\ asking[p].what = "video" /\ guide.video < MaxVideo
    /\ guide' = [guide EXCEPT !.video = @ + 1, !.heard = NoTranscript, !.draft = "none", !.refined = FALSE]
    /\ restarts' = restarts + 1
    /\ crossed' = (crossed \/ asking[p].seen # Seen)
    /\ Answer(p)
    /\ UNCHANGED <<steps, picture, part, jobOf, requests, lapses, paid>>

(* The steps and parts become the narration's, pictures still to be grabbed. *)
writeDraft ==
    /\ steps' = {"narration"} /\ picture' = "none" /\ part' = "heard"
    /\ guide' = [guide EXCEPT !.draft = "none", !.refined = FALSE]

applyDraft(p) ==
    /\ asking[p].what = "apply"
    /\ writeDraft
    /\ Answer(p)
    /\ UNCHANGED <<jobOf, requests, lapses, paid, restarts, crossed>>

discardDraft(p) ==
    /\ asking[p].what = "discard"
    /\ guide' = [guide EXCEPT !.draft = "none"]
    /\ Answer(p)
    /\ UNCHANGED <<steps, picture, part, jobOf, requests, lapses, paid, restarts, crossed>>

(* addStep, deleteStep, updateStep and updatePart. *)
EditGuide ==
    /\ Asks /\ guide.there
    /\ \/ steps' = steps \cup {"person"} /\ UNCHANGED <<picture, part>>
       \/ \E who \in steps : /\ steps' = steps \ {who}
                             /\ picture' = IF who = "narration" THEN "none" ELSE picture
                             /\ UNCHANGED part
       \/ "narration" \in steps /\ picture' = "picked" /\ UNCHANGED <<steps, part>>
       \/ part # "none" /\ part' = "edited" /\ UNCHANGED <<steps, picture>>
    /\ UNCHANGED <<guide, jobOf, asking, lapses, paid, restarts, crossed>>

(* By a person, or by the sweep once its item is gone. *)
deleteGuide ==
    /\ Asks /\ guide.there
    /\ guide' = [guide EXCEPT !.there = FALSE, !.status = "idle", !.token = 0, !.beating = FALSE,
                    !.heard = NoTranscript, !.draft = "none", !.refined = FALSE]
    /\ steps' = {} /\ picture' = "none" /\ part' = "none"
    /\ asking' = [p \in Person |-> Quiet]
    /\ UNCHANGED <<jobOf, lapses, paid, restarts, crossed>>

-----------------------------------------------------------------------------
(* The worker *)

Working(s) == jobOf[s].stage # "none"
At(s, stage) == jobOf[s].stage = stage
GoTo(s, stage) == jobOf' = [jobOf EXCEPT ![s].stage = stage]
LetGo(s) == jobOf' = [jobOf EXCEPT ![s] = Idle]

(* Mutant: a job whose server died is left. *)
ClaimableQueued == guide.status = "queued"

Claimable == guide.status = "queued" \/ (guide.status = "running" /\ ~guide.beating)

claimNext(s) ==
    /\ ~Working(s)
    /\ Claimable
    /\ guide' = [guide EXCEPT !.status = "running", !.tokens = @ + 1, !.token = guide.tokens + 1,
                    !.tries = @ + 1, !.beating = TRUE]
    /\ jobOf' = [jobOf EXCEPT ![s] = [stage |-> "claimed", token |-> guide.tokens + 1,
                                      tries |-> guide.tries + 1, heard |-> NoTranscript, video |-> 0]]
    /\ UNCHANGED <<steps, picture, part, asking, requests, lapses, paid, restarts, crossed>>

Holds(s) == guide.there /\ guide.token = jobOf[s].token

(* Every write asks for the token, and shows the job alive; without it the job is
   somebody else's, or was stopped. *)
SaveTo(s, row, stage) ==
    IF Holds(s)
    THEN /\ guide' = [row EXCEPT !.beating = TRUE]
         /\ GoTo(s, stage)
    ELSE /\ UNCHANGED guide
         /\ LetGo(s)

Finish(s, status) ==
    /\ guide' = IF Holds(s) THEN [guide EXCEPT !.status = status, !.token = 0] ELSE guide
    /\ LetGo(s)

GivesUp(s) == jobOf[s].tries > MaxTries

runJob(s) ==
    /\ At(s, "claimed") /\ GivesUp(s)
    /\ Finish(s, "failed")
    /\ UNCHANGED <<steps, picture, part, asking, requests, lapses, paid, restarts, crossed>>

(* Mutant: a piece of a transcript that is not complete is not used. *)
PreviousUnused(heard) == IF heard.complete THEN heard ELSE NoTranscript

Previous(heard) == heard

processGuide(s) ==
    /\ At(s, "claimed") /\ ~GivesUp(s)
    /\ IF guide.there
       THEN jobOf' = [jobOf EXCEPT ![s].video = guide.video,
                         ![s].heard = [Previous(guide.heard) EXCEPT !.of = IF guide.heard.done = 0 THEN guide.video
                                                                   ELSE guide.heard.of],
                         ![s].stage = CASE guide.heard.read -> "pictures"
                                        [] guide.heard.complete /\ ~guide.heard.read -> "steps"
                                        [] OTHER -> "listen"]
       ELSE LetGo(s)
    /\ UNCHANGED <<guide, steps, picture, part, asking, requests, lapses, paid, restarts, crossed>>

(* The next piece is transcribed, and paid for; the service may fail. *)
transcribe(s) ==
    /\ At(s, "listen") /\ jobOf[s].heard.done < Chunks
    /\ paid' = paid + 1
    /\ jobOf' = [jobOf EXCEPT ![s].heard.done = @ + 1, ![s].stage = "store"]
    /\ UNCHANGED <<guide, steps, picture, part, asking, requests, lapses, restarts, crossed>>

transcribeFails(s) ==
    /\ At(s, "listen") /\ jobOf[s].heard.done < Chunks
    /\ Finish(s, "failed")
    /\ UNCHANGED <<steps, picture, part, asking, requests, lapses, paid, restarts, crossed>>

transcribeStage(s) ==
    /\ \/ /\ At(s, "store")
          /\ SaveTo(s, [guide EXCEPT !.heard = jobOf[s].heard], "listen")
       \/ /\ At(s, "listen") /\ jobOf[s].heard.done = Chunks
          /\ IF Holds(s)
             THEN /\ guide' = [guide EXCEPT !.heard = [jobOf[s].heard EXCEPT !.complete = TRUE], !.beating = TRUE]
                  /\ jobOf' = [jobOf EXCEPT ![s].heard.complete = TRUE, ![s].stage = "steps"]
             ELSE UNCHANGED guide /\ LetGo(s)
    /\ UNCHANGED <<steps, picture, part, asking, requests, lapses, paid, restarts, crossed>>

(* The model reads steps from the transcript, and what it read is kept; then the steps are
   listed, and only written if there are none.  Last, the transcript is marked as read. *)
stepsStage(s) ==
    /\ \/ /\ At(s, "steps")
          /\ IF guide.draft = "read" THEN GoTo(s, "list") /\ UNCHANGED guide
             ELSE SaveTo(s, [guide EXCEPT !.draft = "read"], "list")
          /\ UNCHANGED <<steps, picture, part>>
       \/ /\ At(s, "list")
          /\ GoTo(s, IF steps = {} /\ part = "none" THEN "write" ELSE "hold")
          /\ UNCHANGED <<guide, steps, picture, part>>
       \/ /\ At(s, "write")
          /\ IF Holds(s) THEN writeDraft /\ GoTo(s, "mark")
             ELSE LetGo(s) /\ UNCHANGED <<guide, steps, picture, part>>
       \/ /\ At(s, "hold")
          /\ SaveTo(s, [guide EXCEPT !.draft = "pending"], "mark")
          /\ UNCHANGED <<steps, picture, part>>
       \/ /\ At(s, "mark")
          /\ SaveTo(s, [guide EXCEPT !.heard = [jobOf[s].heard EXCEPT !.read = TRUE]], "pictures")
          /\ UNCHANGED <<steps, picture, part>>
    /\ UNCHANGED <<asking, requests, lapses, paid, restarts, crossed>>

(* A picture is grabbed for a step without one, and given to it if there still is none. *)
keyframesStage(s) ==
    /\ \/ /\ At(s, "pictures")
          /\ IF "narration" \in steps /\ picture = "none" THEN SaveTo(s, guide, "grabbed")
             ELSE GoTo(s, "refine") /\ UNCHANGED guide
          /\ UNCHANGED picture
       \/ /\ At(s, "grabbed")
          /\ picture' = IF "narration" \in steps /\ picture = "none" /\ Holds(s) THEN "grabbed" ELSE picture
          /\ GoTo(s, "refine")
          /\ UNCHANGED guide
    /\ UNCHANGED <<steps, part, asking, requests, lapses, paid, restarts, crossed>>

(* Only a part nobody has edited by then. *)
Renamed(name) == IF name = "heard" THEN "refined" ELSE name

(* The model names the part from the picture: the name is changed whoever has the job by
   then, and the job goes on. *)
refineStage(s) ==
    /\ \/ /\ At(s, "refine")
          /\ IF guide.refined THEN GoTo(s, "finish") /\ UNCHANGED guide
             ELSE IF part = "heard" /\ picture # "none" THEN SaveTo(s, guide, "name")
             ELSE SaveTo(s, [guide EXCEPT !.refined = TRUE], "finish")
          /\ UNCHANGED part
       \/ /\ At(s, "name")
          /\ part' = Renamed(part)
          /\ GoTo(s, "named")
          /\ UNCHANGED guide
       \/ /\ At(s, "named")
          /\ SaveTo(s, [guide EXCEPT !.refined = TRUE], "finish")
          /\ UNCHANGED part
       \/ /\ At(s, "name")              \* no answer
          /\ GoTo(s, "finish")
          /\ UNCHANGED <<guide, part>>
    /\ UNCHANGED <<steps, picture, asking, requests, lapses, paid, restarts, crossed>>

finish(s) ==
    /\ At(s, "finish")
    /\ Finish(s, "done")
    /\ UNCHANGED <<steps, picture, part, asking, requests, lapses, paid, restarts, crossed>>

Stages(s) ==
    \/ runJob(s) \/ processGuide(s) \/ transcribe(s) \/ transcribeFails(s) \/ transcribeStage(s)
    \/ stepsStage(s) \/ keyframesStage(s) \/ refineStage(s) \/ finish(s)

-----------------------------------------------------------------------------
(* Mishaps *)

ServerDies(s) ==
    /\ Working(s) /\ lapses < MaxLapses
    /\ lapses' = lapses + 1
    /\ LetGo(s)
    /\ UNCHANGED <<guide, steps, picture, part, asking, requests, paid, restarts, crossed>>

(* Its heartbeats do not get through for STALE_AFTER_MS, but it goes on. *)
Stalls(s) ==
    /\ Working(s) /\ Holds(s) /\ guide.beating /\ lapses < MaxLapses
    /\ lapses' = lapses + 1
    /\ guide' = [guide EXCEPT !.beating = FALSE]
    /\ UNCHANGED <<steps, picture, part, jobOf, asking, requests, paid, restarts, crossed>>

Beats(s) ==
    /\ Working(s) /\ Holds(s) /\ ~guide.beating
    /\ guide' = [guide EXCEPT !.beating = TRUE]
    /\ UNCHANGED <<steps, picture, part, jobOf, asking, requests, lapses, paid, restarts, crossed>>

(* Nobody has beaten for STALE_AFTER_MS. *)
GoesStale ==
    /\ guide.status = "running" /\ guide.beating
    /\ \A s \in Server : ~(Working(s) /\ Holds(s))
    /\ guide' = [guide EXCEPT !.beating = FALSE]
    /\ UNCHANGED <<steps, picture, part, jobOf, asking, requests, lapses, paid, restarts, crossed>>

TeardownNext ==
    \/ \E p \in Person : \/ Ask(p) \/ enqueueGuide(p) \/ cancelGuideJob(p) \/ updateGuide(p)
                         \/ applyDraft(p) \/ discardDraft(p)
    \/ EditGuide \/ deleteGuide
    \/ \E s \in Server : claimNext(s) \/ Stages(s) \/ ServerDies(s) \/ Stalls(s) \/ Beats(s)
    \/ GoesStale

TeardownSpec == TeardownInit /\ [][TeardownNext]_teardownVars

(* Servers poll, go on with what they do, and find a job whose heart stopped; a request
   that began is answered. *)
TeardownFairness ==
    /\ \A s \in Server : WF_teardownVars(claimNext(s)) /\ WF_teardownVars(Stages(s))
    /\ WF_teardownVars(GoesStale)

-----------------------------------------------------------------------------
(* Properties *)

TeardownTypeOK ==
    /\ guide.status \in {"idle", "queued", "running", "done", "failed"}
    /\ guide.token \in 0 .. guide.tokens
    /\ guide.token # 0 <=> guide.status = "running"
    /\ guide.heard.done \in 0 .. Chunks /\ guide.draft \in {"none", "read", "pending"}
    /\ steps \subseteq {"person", "narration"}
    /\ picture \in {"none", "grabbed", "picked"} /\ part \in {"none", "heard", "edited", "refined"}

(* pipeline.ts:53-55: a job that was interrupted picks up where it stopped and does not pay
   for the same transcription twice; each start loses at most the piece it was at. *)
PaidOnce == paid <= Chunks * (1 + restarts) + guide.tokens

(* worker.ts:15-22: a server that lost the job, by its own stall or a person's stop, takes
   nothing back from the one that has it: the transcript only grows under a job. *)
NarrationGrows ==
    \A s \in Server :
        jobOf'[s] # jobOf[s] /\ guide'.heard # guide.heard => guide'.heard.done >= guide.heard.done

(* worker.ts:75-77: once a person stopped the job nothing more comes of it, whatever stage
   it was in, until it is queued again; but for a part's name (pipeline.ts:473). *)
StoppedStays ==
    \A s \in Server :
        jobOf'[s] # jobOf[s] /\ guide.status = "idle" => UNCHANGED <<guide, steps, picture>>

(* pipeline.ts:473: what a person named is not renamed, even when they did so while the
   model looked at the picture. *)
EditKept == part = "edited" => part' # "refined"

(* What a job may do to a guide that another server, or a person, has changed meanwhile. *)
GuideStands == [][NarrationGrows /\ StoppedStays /\ EditKept]_teardownVars

(* guides.ts:481-482: what was read from the old video is not kept for the new one, also when
   the job that reads the old one was stopped and goes on somewhere; but for a change that
   crossed a claim, which the code does not see (guides.ts:476). *)
NarrationOfThisVideo == ~crossed /\ guide.heard.done > 0 => guide.heard.of = guide.video

(* A guide however its jobs died, were stopped and came back: the transcript is of the video
   it has, and no piece of it was paid for but what an interruption lost. *)
GuideSound == TeardownTypeOK /\ PaidOnce /\ NarrationOfThisVideo

(* worker.ts:15-22 and 130-137: a queued guide gets settled: processed, failed or stopped,
   however its servers die. *)
JobSettles == guide.status = "queued" ~> guide.status \notin {"queued", "running"}
=============================================================================
