--------------------------- MODULE CodeMatchQueue ---------------------------
(***************************************************************************)
(* The queue of feedback reports whose findings are searched for in the     *)
(* product's GitHub repository, and the workers that drain it.              *)
(*                                                                         *)
(* A worker claims a batch, remembers the rows and the repository as they   *)
(* were, and goes through the jobs in the order of their enqueueing.  Every *)
(* call to GitHub lies between two statements, and every statement names    *)
(* the claim token: it changes nothing once the claim was swept.  A verdict *)
(* on a candidate needs the file at one commit; work cut short is kept on   *)
(* the row for a later claim.                                               *)
(*                                                                         *)
(* One product and one installation.  When a job is due again is left open. *)
(***************************************************************************)
EXTENDS Integers, FiniteSets

CONSTANTS
    Repos,          \* repositories the product may be mapped to
    NoRepo,         \* no mapping, or its installation was removed
    Workers,        \* slots for workers; a slot names its claim token too
    NoWorker,       \* not claimed
    MaxReports,     \* bound: reports submitted
    ClaimBatch,     \* CODE_MATCH_BATCH_SIZE
    MaxAttempts,    \* CODE_MATCH_MAX_ATTEMPTS
    MaxRetries,     \* CODE_MATCH_MAX_VERIFICATION_RETRIES
    Events          \* what the environment may do, a subset of EventKinds

EventKinds ==
    {"dies",        \* a worker dies, or cannot reach the database any more
     "fails",       \* a drain panics or one of its statements fails
     "stalls",      \* a live worker outlasts the age of a stale claim
     "remap",       \* an editor maps the product to another repository
     "purge"}       \* retention deletes a report

ASSUME QueueAssumption ==
    /\ NoRepo \notin Repos
    /\ NoWorker \notin Workers
    /\ MaxReports \in Nat
    /\ ClaimBatch \in Nat \ {0}
    /\ MaxAttempts \in Nat \ {0}
    /\ MaxRetries \in Nat \ {0}
    /\ Events \subseteq EventKinds

Reports == 1 .. MaxReports      \* in the order of their creation

VARIABLES
    row,            \* code_match_queue, by report
    hints,          \* report_code_hints.outcome, by report
    born,           \* reports submitted so far
    stored,         \* reports that are there
    mapping,        \* product_github_repos
    workers

queueVars == <<row, hints, born, stored, mapping, workers>>

(* attempts: MaxAttempts stands for that many or more.  kind, repo, cands:   *)
(* the verification_retry columns; "pin" waits for the proof that a commit   *)
(* can be fetched, "budget" and "fetch" for the contents of files, with the  *)
(* candidates of a search that need them.                                    *)
Row ==
    [state : {"none", "queued", "claimed", "dead"}, token : Workers \cup {NoWorker},
     attempts : 0 .. MaxAttempts, retries : 0 .. MaxRetries - 1,
     kind : {"none", "pin", "budget", "fetch"}, repo : Repos \cup {NoRepo},
     cands : BOOLEAN]

NoRow ==
    [state |-> "none", token |-> NoWorker, attempts |-> 0, retries |-> 0,
     kind |-> "none", repo |-> NoRepo, cands |-> FALSE]

(* repo, seen: the mapping and the rows as the claim returned them; found:   *)
(* the repository the candidates were searched in; spent: an earlier job of  *)
(* the batch drew on the installation's budgets.                             *)
Worker ==
    [pc : {"idle", "batch", "notoken", "jobs", "verify", "backoff", "failed", "dead"},
     repo : Repos \cup {NoRepo}, todo : SUBSET Reports, seen : [Reports -> Row],
     found : Repos \cup {NoRepo}, spent : BOOLEAN]

IdleWorker ==
    [pc |-> "idle", repo |-> NoRepo, todo |-> {}, seen |-> [r \in Reports |-> NoRow],
     found |-> NoRepo, spent |-> FALSE]

(* With the CHECKs of code_match_queue.                                      *)
QueueTypeOK ==
    /\ row \in [Reports -> Row]
    /\ \A r \in Reports :
         /\ row[r].state = "claimed" <=> row[r].token # NoWorker
         /\ row[r].kind = "none" <=> row[r].repo = NoRepo
         /\ row[r].cands => row[r].kind \in {"budget", "fetch"}
         /\ row[r].kind = "fetch" => row[r].cands
    /\ hints \in [Reports -> {"none", "settled", "terminal_unverifiable"}]
    /\ born \in 0 .. MaxReports
    /\ stored \subseteq 1 .. born
    /\ mapping \in Repos \cup {NoRepo}
    /\ workers \in [Workers -> Worker]

QueueInit ==
    /\ row = [r \in Reports |-> NoRow]
    /\ hints = [r \in Reports |-> "none"]
    /\ born = 0
    /\ stored = {}
    /\ mapping \in Repos
    /\ workers = [w \in Workers |-> IdleWorker]

-----------------------------------------------------------------------------
(* Reports and the mapping.                                                  *)

(* A report of an unmapped product is never searched for.                    *)
SubmitReport ==
    /\ born < MaxReports
    /\ born' = born + 1
    /\ stored' = stored \cup {born'}
    /\ row' = IF mapping = NoRepo THEN row
              ELSE [row EXCEPT ![born'] = [NoRow EXCEPT !.state = "queued"]]
    /\ UNCHANGED <<hints, mapping, workers>>

Remap(repo) ==
    /\ "remap" \in Events
    /\ repo # mapping
    /\ mapping' = repo
    /\ UNCHANGED <<row, hints, born, stored, workers>>

(* The job and the hints go with the report.                                 *)
PurgeReport(r) ==
    /\ "purge" \in Events
    /\ r \in stored
    /\ stored' = stored \ {r}
    /\ row' = [row EXCEPT ![r] = NoRow]
    /\ hints' = [hints EXCEPT ![r] = "none"]
    /\ UNCHANGED <<born, mapping, workers>>

-----------------------------------------------------------------------------
(* Claims.                                                                   *)

Held(w) == {r \in Reports : row[r].token = w}

(* Two hours old: its worker is gone or stalled.                             *)
MayBeStale(w) == workers[w].pc = "dead" \/ "stalls" \in Events

Freed(r) == [row[r] EXCEPT !.state = "queued", !.token = NoWorker]

Claimed(w, r) ==
    [row[r] EXCEPT !.state = "claimed", !.token = w,
                   !.attempts = IF @ < MaxAttempts THEN @ + 1 ELSE @]

(* Stale claims are swept, then a batch of due jobs is taken.  The slot of a  *)
(* dead worker is taken by a new one, whose token is new, once the old token *)
(* is gone.                                                                  *)
Claim(w, stale, batch) ==
    LET swept == {r \in Reports : row[r].token \in stale}
    IN  /\ workers[w].pc \in {"idle", "dead"}
        /\ Held(w) # {} => w \in stale
        /\ \A v \in stale : MayBeStale(v) /\ Held(v) # {}
        /\ \A r \in batch : row[r].state = "queued" \/ r \in swept
        /\ Cardinality(batch) <= ClaimBatch
        /\ row' = [r \in Reports |->
                     IF r \in batch THEN Claimed(w, r)
                     ELSE IF r \in swept THEN Freed(r) ELSE row[r]]
        /\ workers' = [workers EXCEPT ![w] =
                         IF batch = {} THEN IdleWorker
                         ELSE [IdleWorker EXCEPT !.pc = "batch", !.todo = batch, !.repo = mapping,
                                 !.seen = [r \in Reports |-> IF r \in batch THEN row'[r] ELSE NoRow]]]
        /\ UNCHANGED <<hints, born, stored, mapping>>

-----------------------------------------------------------------------------
(* What every step on a job is made of.  The job of a worker is the first of  *)
(* its batch that is left; job(w) is the row as the claim returned it.       *)

IsJob(w, r) == r \in workers[w].todo /\ \A q \in workers[w].todo : r <= q

Job(w, r) == workers[w].seen[r]

Owns(w, r) == row[r].token = w

Write(w, r, new) == row' = IF Owns(w, r) THEN [row EXCEPT ![r] = new] ELSE row

(* The worker turns to the next job, or is done with the batch.              *)
GoOn(w, r, pc, spends) ==
    workers' = [workers EXCEPT ![w] =
        IF workers[w].todo = {r} THEN IdleWorker
        ELSE [workers[w] EXCEPT !.pc = pc, !.todo = @ \ {r},
                       !.seen[r] = NoRow, !.found = NoRepo, !.spent = @ \/ spends]]

Cleared(r) ==
    [row[r] EXCEPT !.kind = "none", !.repo = NoRepo, !.cands = FALSE]

(* What a dead row keeps of its retries is not read again.                   *)
DeadRow == [NoRow EXCEPT !.state = "dead"]

Release(w, r) == Write(w, r, Freed(r)) /\ UNCHANGED hints

DeadLetter(w, r) == Write(w, r, DeadRow) /\ UNCHANGED hints

(* A failed call: the job is tried again and the installation backed off,    *)
(* until its attempts are used up.                                           *)
RetryOrDeadLetter(w, r, pc) ==
    IF Job(w, r).attempts >= MaxAttempts
    THEN DeadLetter(w, r) /\ GoOn(w, r, IF pc = "backoff" THEN "jobs" ELSE pc, TRUE)
    ELSE Release(w, r) /\ GoOn(w, r, pc, TRUE)

(* Mutant: the ceiling is compared with the retries made before this one.    *)
ExhaustedLate(w, r, counts) == counts /\ Job(w, r).retries >= MaxRetries

Exhausted(w, r, counts) == counts /\ Job(w, r).retries + 1 >= MaxRetries

(* Gives the attempt back: of MaxAttempts or more at least one less is left.  *)
AttemptBack(a) == IF a = MaxAttempts THEN {a - 1, a} ELSE {IF a = 0 THEN 0 ELSE a - 1}

(* Hints that say so are stored with the end of an exhausted verification.   *)
EndUnverified(w, r) ==
    /\ Write(w, r, DeadRow)
    /\ hints' = IF Owns(w, r) THEN [hints EXCEPT ![r] = "terminal_unverifiable"] ELSE hints

(* The columns of one target are written, those of the other reset.          *)
KeepForLater(w, r, kind, repo, cands, counts) ==
    /\ \E a \in AttemptBack(row[r].attempts) :
          Write(w, r, [Freed(r) EXCEPT !.attempts = a, !.kind = kind, !.repo = repo,
                         !.cands = cands, !.retries = IF counts THEN @ + 1 ELSE @])
    /\ UNCHANGED hints

(* Unsettled verification is kept on the row without using up an attempt;    *)
(* at the ceiling the job ends.                                              *)
VerifyLater(w, r, kind, repo, cands, counts, pc) ==
    /\ IF Exhausted(w, r, counts) THEN EndUnverified(w, r)
       ELSE KeepForLater(w, r, kind, repo, cands, counts)
    /\ GoOn(w, r, IF pc = "backoff" /\ ~Owns(w, r) THEN "jobs" ELSE pc, TRUE)

(* Mutant: a budget that was used up before the search counts.               *)
EveryRetryCounts(kind, cands) == TRUE

RetryCounts(kind, cands) == kind # "budget" \/ cands

-----------------------------------------------------------------------------
(* Draining a batch.                                                         *)

UnmappedJob(w, r) ==
    /\ workers[w].pc = "batch" /\ IsJob(w, r)
    /\ workers[w].repo = NoRepo
    /\ DeadLetter(w, r)
    /\ GoOn(w, r, "batch", FALSE)
    /\ UNCHANGED <<born, stored, mapping>>

MintToken(w) ==
    /\ workers[w].pc = "batch"
    /\ workers[w].repo # NoRepo
    /\ \E pc \in {"jobs", "notoken"} : workers' = [workers EXCEPT ![w].pc = pc]
    /\ UNCHANGED <<row, hints, born, stored, mapping>>

Remapped(w, r) == Job(w, r).kind # "none" /\ Job(w, r).repo # workers[w].repo

(* The retry belongs to another repository: it starts afresh.                *)
ResetRetry(w, r) ==
    /\ workers[w].pc \in {"jobs", "notoken"} /\ IsJob(w, r)
    /\ Remapped(w, r)
    /\ Write(w, r, [Cleared(r) EXCEPT !.retries = 0])
    /\ IF Owns(w, r)
       THEN workers' = [workers EXCEPT ![w].seen[r] = row'[r]]
       ELSE GoOn(w, r, workers[w].pc, FALSE)
    /\ UNCHANGED <<hints, born, stored, mapping>>

(* Mutant: stored candidates are released like a job that has none.          *)
NoTokenReleased(w, r) ==
    /\ workers[w].pc = "notoken" /\ IsJob(w, r)
    /\ ~Remapped(w, r)
    /\ RetryOrDeadLetter(w, r, "notoken")
    /\ UNCHANGED <<born, stored, mapping>>

NoTokenJob(w, r) ==
    /\ workers[w].pc = "notoken" /\ IsJob(w, r)
    /\ ~Remapped(w, r)
    /\ LET job == Job(w, r)
       IN IF job.kind = "none" THEN RetryOrDeadLetter(w, r, "notoken")
          ELSE VerifyLater(w, r, job.kind, job.repo, job.cands,
                           job.kind # "pin" /\ RetryCounts(job.kind, job.cands), "notoken")
    /\ UNCHANGED <<born, stored, mapping>>

OnJob(w, r) == workers[w].pc = "jobs" /\ IsJob(w, r) /\ ~Remapped(w, r)

PinProven(w, r) ==
    /\ OnJob(w, r) /\ Job(w, r).kind = "pin"
    /\ Write(w, r, Cleared(r))
    /\ IF Owns(w, r)
       THEN workers' = [workers EXCEPT ![w].seen[r] = row'[r]]
       ELSE GoOn(w, r, "jobs", FALSE)
    /\ UNCHANGED <<hints, born, stored, mapping>>

(* Only a 404 of the commit counts.                                          *)
PinUnproven(w, r) ==
    /\ OnJob(w, r) /\ Job(w, r).kind = "pin"
    /\ \E counts \in BOOLEAN :
         VerifyLater(w, r, "pin", Job(w, r).repo, FALSE, counts, "backoff")
    /\ UNCHANGED <<born, stored, mapping>>

HeadFails(w, r) ==
    /\ OnJob(w, r) /\ Job(w, r).kind = "none"
    /\ RetryOrDeadLetter(w, r, "backoff")
    /\ UNCHANGED <<born, stored, mapping>>

(* The contents budget does not suffice to begin, or to go on.               *)
NoContentBudget(w, r) ==
    /\ OnJob(w, r) /\ Job(w, r).kind # "pin"
    /\ workers[w].spent
    /\ LET job == Job(w, r)
       IN IF job.kind = "none"
          THEN VerifyLater(w, r, "budget", workers[w].repo, FALSE,
                           RetryCounts("budget", FALSE), "backoff")
          ELSE VerifyLater(w, r, job.kind, job.repo, job.cands,
                           RetryCounts(job.kind, job.cands), "backoff")
    /\ UNCHANGED <<born, stored, mapping>>

RefetchFails(w, r) ==
    /\ OnJob(w, r) /\ Job(w, r).kind = "fetch"
    /\ VerifyLater(w, r, "fetch", Job(w, r).repo, Job(w, r).cands, TRUE, "backoff")
    /\ UNCHANGED <<born, stored, mapping>>

Verify(w, repo) ==
    /\ workers' = [workers EXCEPT ![w].pc = "verify", ![w].found = repo]
    /\ UNCHANGED <<row, hints, born, stored, mapping>>

Resume(w, r) ==
    /\ OnJob(w, r) /\ Job(w, r).kind \in {"budget", "fetch"} /\ Job(w, r).cands
    /\ Verify(w, Job(w, r).repo)

MustSearch(w, r) ==
    /\ OnJob(w, r)
    /\ Job(w, r).kind \in {"none", "budget"} /\ ~Job(w, r).cands

SearchSucceeds(w, r) ==
    /\ MustSearch(w, r)
    /\ Verify(w, workers[w].repo)

(* Every call is recorded for its report: if that is gone the drain fails.   *)
SearchUnrecorded(w, r) ==
    /\ MustSearch(w, r)
    /\ r \notin stored
    /\ workers' = [workers EXCEPT ![w].pc = "failed"]
    /\ UNCHANGED <<row, hints, born, stored, mapping>>

(* A rate limit backs the installation off, a used-up budget does not.       *)
SearchLimited(w, r) ==
    /\ MustSearch(w, r)
    /\ Release(w, r)
    /\ \/ GoOn(w, r, "backoff", TRUE)
       \/ workers[w].spent /\ GoOn(w, r, "jobs", TRUE)
    /\ UNCHANGED <<born, stored, mapping>>

(* Forbidden, or no query was valid.                                         *)
SearchRefused(w, r) ==
    /\ MustSearch(w, r)
    /\ DeadLetter(w, r)
    /\ GoOn(w, r, "jobs", TRUE)
    /\ UNCHANGED <<born, stored, mapping>>

SearchFails(w, r) ==
    /\ MustSearch(w, r)
    /\ RetryOrDeadLetter(w, r, "backoff")
    /\ UNCHANGED <<born, stored, mapping>>

Verifying(w, r) == workers[w].pc = "verify" /\ IsJob(w, r)

(* The budget ran out or a file could not be read.                           *)
VerifyIncomplete(w, r) ==
    /\ Verifying(w, r)
    /\ \E kind \in {"budget", "fetch"} :
         VerifyLater(w, r, kind, workers[w].repo, TRUE, RetryCounts(kind, TRUE), "backoff")
    /\ UNCHANGED <<born, stored, mapping>>

(* A file is absent, and whether its commit is there cannot be told.         *)
VerifyUnproven(w, r) ==
    /\ Verifying(w, r)
    /\ \E counts \in BOOLEAN :
         VerifyLater(w, r, "pin", workers[w].repo, FALSE, counts, "backoff")
    /\ UNCHANGED <<born, stored, mapping>>

Complete(w, r) ==
    /\ Verifying(w, r)
    /\ Write(w, r, NoRow)
    /\ hints' = IF Owns(w, r) THEN [hints EXCEPT ![r] = "settled"] ELSE hints
    /\ GoOn(w, r, "jobs", TRUE)
    /\ UNCHANGED <<born, stored, mapping>>

(* Mutant: a backed-off batch is dropped.                                    *)
DropRest(w, r) ==
    /\ workers[w].pc = "backoff" /\ IsJob(w, r)
    /\ GoOn(w, r, "backoff", FALSE)
    /\ UNCHANGED <<row, hints, born, stored, mapping>>

ReleaseRest(w, r) ==
    /\ workers[w].pc = "backoff" /\ IsJob(w, r)
    /\ Release(w, r)
    /\ GoOn(w, r, "backoff", FALSE)
    /\ UNCHANGED <<born, stored, mapping>>

Draining == {"batch", "notoken", "jobs", "verify", "backoff"}

DrainFails(w) ==
    /\ "fails" \in Events
    /\ workers[w].pc \in Draining
    /\ workers' = [workers EXCEPT ![w].pc = "failed"]
    /\ UNCHANGED <<row, hints, born, stored, mapping>>

ReleaseClaim(w) ==
    /\ workers[w].pc = "failed"
    /\ row' = [r \in Reports |-> IF row[r].token = w THEN Freed(r) ELSE row[r]]
    /\ workers' = [workers EXCEPT ![w] = IdleWorker]
    /\ UNCHANGED <<hints, born, stored, mapping>>

WorkerDies(w) ==
    /\ "dies" \in Events
    /\ workers[w].pc \in Draining \cup {"failed"}
    /\ workers' = [workers EXCEPT ![w] = [IdleWorker EXCEPT !.pc = "dead"]]
    /\ UNCHANGED <<row, hints, born, stored, mapping>>

-----------------------------------------------------------------------------
JobStep(w, r) ==
    \/ UnmappedJob(w, r)
    \/ ResetRetry(w, r)
    \/ NoTokenJob(w, r)
    \/ PinProven(w, r)
    \/ PinUnproven(w, r)
    \/ HeadFails(w, r)
    \/ NoContentBudget(w, r)
    \/ RefetchFails(w, r)
    \/ Resume(w, r)
    \/ SearchSucceeds(w, r)
    \/ SearchUnrecorded(w, r)
    \/ SearchLimited(w, r)
    \/ SearchRefused(w, r)
    \/ SearchFails(w, r)
    \/ VerifyIncomplete(w, r)
    \/ VerifyUnproven(w, r)
    \/ Complete(w, r)
    \/ ReleaseRest(w, r)

DrainStep(w) == MintToken(w) \/ ReleaseClaim(w) \/ \E r \in Reports : JobStep(w, r)

QueueNext ==
    \/ SubmitReport
    \/ \E repo \in Repos \cup {NoRepo} : Remap(repo)
    \/ \E r \in Reports : PurgeReport(r)
    \/ \E w \in Workers, stale \in SUBSET Workers, batch \in SUBSET Reports :
         Claim(w, stale, batch)
    \/ \E w \in Workers : DrainStep(w) \/ DrainFails(w) \/ WorkerDies(w)

QueueSpec == QueueInit /\ [][QueueNext]_queueVars

(* A drain goes on by itself.  A worker polls again and again, every job is   *)
(* due and claimed now and then, and now and then each call it needs         *)
(* succeeds.                                                                 *)
QueueFairness ==
    /\ \A w \in Workers : WF_queueVars(DrainStep(w))
    /\ \A r \in Reports :
         /\ SF_queueVars(\E w \in Workers, stale \in SUBSET Workers, batch \in SUBSET Reports :
                      r \in batch /\ Claim(w, stale, batch))
         /\ SF_queueVars(\E w \in Workers : r \in workers[w].todo /\ MintToken(w)
                                         /\ workers'[w].pc = "jobs")
         /\ SF_queueVars(\E w \in Workers : UnmappedJob(w, r) \/ ResetRetry(w, r))
         /\ SF_queueVars(\E w \in Workers : PinProven(w, r))
         /\ SF_queueVars(\E w \in Workers : SearchSucceeds(w, r) \/ Resume(w, r))
         /\ SF_queueVars(\E w \in Workers : Complete(w, r))

QueueFairSpec == QueueSpec /\ QueueFairness

-----------------------------------------------------------------------------
(* Safety.                                                                   *)

(* A worker that polls again has left no job claimed behind: none waits two   *)
(* hours for the sweep because a batch was cut short (drain_code_match_batch).*)
NoClaimLeaked == \A w \in Workers : workers[w].pc = "idle" => Held(w) = {}

(* Hints end their job: they are "terminal_unverifiable" exactly for a job    *)
(* dead-lettered with them, and a report with other hints is never queued    *)
(* again (terminally_dead_letter_code_match_verification).                   *)
HintsEndJob ==
    \A r \in Reports :
        /\ hints[r] = "settled" => row[r].state = "none"
        /\ hints[r] = "terminal_unverifiable" => row[r].state = "dead"

(* Candidates are verified in the repository they were searched in, whatever  *)
(* the product was mapped to when their retry was stored                     *)
(* (preflight_code_match_content_retry).                                     *)
VerifiesWhereSearched ==
    \A w \in Workers : workers[w].pc = "verify" => workers[w].found = workers[w].repo

(* A job with durable candidates leaves the queue with hints, unless its      *)
(* mapping was removed: the report is not stranded without a verdict          *)
(* (drain_code_match_batch, on a token that cannot be minted).               *)
VerdictNotStranded ==
    [][\A r \in Reports :
         row[r].cands /\ row[r].state # "dead" /\ row'[r].state = "dead" =>
            \/ hints'[r] = "terminal_unverifiable"
            \/ workers[row[r].token].repo = NoRepo]_queueVars

(* Hints are written once: no worker that lost its claim, and no later one,   *)
(* replaces them (complete_code_match_job).                                  *)
HintsAreFinal ==
    [][\A r \in Reports :
         hints[r] # "none" => hints'[r] = hints[r] \/ r \notin stored']_queueVars

(* No report is declared unverifiable before its product was searched for it: *)
(* waiting for a budget does not count as a retry, and candidates are at hand *)
(* or wait for the proof of their commit (CodeMatchVerificationRetry).        *)
NotJudgedUnsearched ==
    [][\A r \in Reports :
         hints'[r] = "terminal_unverifiable" /\ hints[r] = "none" =>
            \/ row[r].cands \/ row[r].kind = "pin"
            \/ workers[row[r].token].pc = "verify"]_queueVars

-----------------------------------------------------------------------------
(* Liveness, under QueueFairness.                                            *)

(* A job in the queue is settled, dead-lettered or purged in the end,         *)
(* whichever calls fail and workers die on the way.                          *)
JobSettles ==
    \A r \in Reports :
        row[r].state \in {"queued", "claimed"} ~> row[r].state \in {"none", "dead"}

(* Hints are the last word on a report: they end its job, stay, and are not   *)
(* given up on before a search.                                              *)
HintsSettleJobs == []HintsEndJob /\ HintsAreFinal /\ NotJudgedUnsearched

(* Every job ends, and candidates found before lead to a verdict, in the      *)
(* repository they are of.                                                   *)
JobsConclude == []VerifiesWhereSearched /\ VerdictNotStranded /\ JobSettles

=============================================================================
