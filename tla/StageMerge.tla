----------------------------- MODULE StageMerge -----------------------------
(***************************************************************************)
(* The DEV pipeline from the runs of a stage to dev/main                   *)
(* (application/services/dev_pipeline_service.py, api/routes.py).          *)
(*                                                                         *)
(* The event loop of the DEV backend serves one request after the other:   *)
(* it starts, pauses, resumes, retries, cancels and reports the runs of a  *)
(* stage, and queues and applies merges.  A request that starts or stops   *)
(* the job of a run records it afterwards, and may fail in between; jobs   *)
(* end at any time.  A merge takes up to minutes, in processes of git and  *)
(* of the SDD doctor; meanwhile agents and operators go on in their        *)
(* worktrees, and developers commit to dev/main.  What becomes of the      *)
(* state file when another process writes it meanwhile is the subject of   *)
(* DevBacklog, and left out here.                                          *)
(*                                                                         *)
(* A branch is the set of commits that its tip reaches.                    *)
(***************************************************************************)
EXTENDS Naturals

CONSTANTS
  Stage,
  Run, RunOf,       \* runs that may be started, and their stages
  Merge, MergeOf,   \* merge requests, and their stages
  NoRun, NoMerge,
  MaxCommits        \* bound on the commits

ASSUME RunAssumption == RunOf \in [Run -> Stage] /\ NoRun \notin Run
ASSUME MergeAssumption == MergeOf \in [Merge -> Stage] /\ NoMerge \notin Merge
ASSUME CommitAssumption == MaxCommits \in Nat

VARIABLES
  record,     \* the state file, as far as it is told apart here
  job,        \* the job that a run names
  fresh,      \* the job that the request has started and no run names yet
  strays,     \* runs for which a job works that no run will ever name
  follow,     \* stages in which an agent works on a follow-up of such a job
  head,       \* the branch of each stage
  main,       \* dev/main
  commits,    \* commits so far, at most MaxCommits
  pc,         \* how far the request has come that the event loop serves
  merge,      \* the merge that it applies, ...
  asked,      \* ... or the run that it is about
  target, source,   \* dev/main and the branch, when git resolved them
  tree,       \* what went into the tree of the merge commit
  outcome,    \* how it ended
  landed,     \* ghost: merges whose commit became dev/main
  gated,      \* ghost: commits that were there when a preflight passed
  smuggled,   \* ghost: commits in the tree of dev/main only
  raced,      \* ghost: the branch moved while its merge was applied
  raised      \* ghost: those of which a request failed after it had started it

branches == <<head, main, commits>>
jobs == <<job, fresh, strays>>
resolved == <<target, source, tree, outcome>>
applying == <<pc, merge, asked, resolved>>
marks == <<landed, gated, smuggled, raced>>
ghosts == <<marks, raised>>
vars == <<record, jobs, follow, branches, applying, ghosts>>

Commit == 1..MaxCommits

Jobs == {"none", "running", "completed", "failed", "cancelled"}
Active == {"planned", "active"}               \* active: queued or running
Held == {"paused", "resumed"}                 \* pause_requested, resume_requested
RunStatuses == {"unused", "completed", "failed", "cancelled"} \cup Active \cup Held
MergeStatuses == {"none", "queued", "blocked", "applying", "failed", "merged"}

Record == [run : [Run -> RunStatuses], item : [Merge -> MergeStatuses],
           integrated : SUBSET Stage]

\* Nothing was started or queued.
Fresh == [run |-> [r \in Run |-> "unused"], item |-> [m \in Merge |-> "none"],
          integrated |-> {}]

RunsOf(s) == {r \in Run : RunOf[r] = s}

\* An agent may change the worktree of the stage.
AtWork(s) ==
  \/ s \in follow
  \/ \E r \in RunsOf(s) : job[r] = "running" \/ r \in strays \/ (asked = r /\ fresh = "running")

\* The event loop is free for a request.
Free == pc = "idle"

-----------------------------------------------------------------------------
(* Runs.                                                                    *)

\* The request works on the state alone.
Saves(new) ==
  /\ record' = new
  /\ UNCHANGED <<follow, branches, applying, ghosts>>

WithRun(r, status) == [record EXCEPT !.run[r] = status]

\* What _project_stage_run makes of the job.
StatusOf(j) == IF j = "running" THEN "active" ELSE j

\* The request goes on to its next step.
Goes(r, step) ==
  /\ pc' = step /\ asked' = r
  /\ UNCHANGED <<follow, branches, merge, resolved, ghosts>>

\* The request is at an end.
Ends ==
  /\ pc' = "idle" /\ merge' = NoMerge /\ asked' = NoRun /\ fresh' = "none"
  /\ target' = {} /\ source' = {} /\ tree' = {} /\ outcome' = "none"

\* No run of the stage is active.
Startable(r) ==
  /\ record.run[r] = "unused"
  /\ \A q \in RunsOf(RunOf[r]) : record.run[q] \notin Active

\* The job must have ended; no other run is looked at.
Retriable(r) == record.run[r] # "unused" /\ job[r] # "running"

\* _start_dev_stage_chat_run: the message is submitted, ...
Submit(r) ==
  /\ Free /\ Startable(r)
  /\ fresh' = "running"
  /\ Goes(r, "submitted")
  /\ UNCHANGED <<record, job, strays>>

\* ... and a run recorded that names its job.
RecordStart ==
  /\ pc = "submitted"
  /\ record' = WithRun(asked, "active")
  /\ job' = [job EXCEPT ![asked] = fresh] /\ fresh' = "none"
  /\ Goes(asked, "project")
  /\ UNCHANGED strays

\* retry_dev_stage_run: another job is started, ...
Retry(r) ==
  /\ Free /\ Retriable(r)
  /\ fresh' = "running"
  /\ Goes(r, "retried")
  /\ UNCHANGED <<record, job, strays>>

\* ... the run is planned anew, ...
PlanRetry ==
  /\ pc = "retried"
  /\ record' = WithRun(asked, "planned")
  /\ Goes(asked, "planned")
  /\ UNCHANGED jobs

\* Faulty: ... and goes on to name the job that it had.
ForgetRetry ==
  /\ pc = "planned"
  /\ record' = WithRun(asked, "active")
  /\ strays' = strays \cup {r \in {asked} : fresh = "running"} /\ fresh' = "none"
  /\ Goes(asked, "project")
  /\ UNCHANGED job

\* ... and made to name the job.
NameRetry ==
  /\ pc = "planned"
  /\ record' = WithRun(asked, "active")
  /\ job' = [job EXCEPT ![asked] = fresh] /\ fresh' = "none"
  /\ Goes(asked, "project")
  /\ UNCHANGED strays

\* submit_message or retry_job raises after it has started the job: the turn
\* cannot be saved, or the job not be watched.
Raises(r) ==
  /\ Free /\ (Startable(r) \/ Retriable(r))
  /\ strays' = strays \cup {r} /\ raised' = raised \cup {r}
  /\ UNCHANGED <<record, job, fresh, follow, branches, applying, marks>>

\* cancel_dev_stage_run: the job is cancelled if it runs, ...
Cancel(r) ==
  /\ Free
  /\ record.run[r] # "unused"
  /\ job' = [job EXCEPT ![r] = IF @ = "running" THEN "cancelled" ELSE @]
  /\ Goes(r, "stopped")
  /\ UNCHANGED <<record, fresh, strays>>

\* ... and the run recorded as cancelled, but for one that was completed.
RecordCancel ==
  /\ pc = "stopped"
  /\ record' = IF record.run[asked] = "completed" THEN record ELSE WithRun(asked, "cancelled")
  /\ Goes(asked, "project")
  /\ UNCHANGED jobs

\* A run that no operator holds is reported as what its job has become.
Projected(r) == IF record.run[r] \in Held THEN record ELSE WithRun(r, StatusOf(job[r]))

\* So is the one that the request was about.
Project ==
  /\ pc = "project"
  /\ record' = Projected(asked)
  /\ Ends
  /\ UNCHANGED <<job, strays, follow, branches, ghosts>>

\* A run is looked at.
Report(r) ==
  /\ Free
  /\ record.run[r] # "unused" /\ record # Projected(r)
  /\ Saves(Projected(r))
  /\ UNCHANGED jobs

Pause(r) ==
  /\ Free
  /\ record.run[r] \in Active \cup {"resumed"}
  /\ Saves(WithRun(r, "paused"))
  /\ UNCHANGED jobs

\* What is queued or running counts as resumed.
Resume(r) ==
  /\ Free
  /\ record.run[r] \in {"paused", "planned"}
  /\ Saves(WithRun(r, "resumed"))
  /\ UNCHANGED jobs

-----------------------------------------------------------------------------
(* Agents, operators and developers.                                        *)

\* A job of a run ends; after a completed one, an agent may go on with a follow-up.
JobEnds(r) == \E end \in {"failed", "completed"} :
  /\ \/ job[r] = "running" /\ job' = [job EXCEPT ![r] = end] /\ UNCHANGED <<fresh, strays, raised>>
     \/ asked = r /\ fresh = "running" /\ fresh' = end /\ UNCHANGED <<job, strays, raised>>
     \/ r \in strays /\ strays' = strays \ {r} /\ raised' = raised \ {r} /\ UNCHANGED <<job, fresh>>
  /\ follow' \in {follow} \cup {follow \cup {RunOf[r]} : e \in {"completed"} \cap {end}}
  /\ UNCHANGED <<record, branches, applying, marks>>

FollowUpEnds(s) ==
  /\ s \in follow
  /\ follow' = follow \ {s}
  /\ UNCHANGED <<record, jobs, branches, applying, ghosts>>

\* The branch of a stage gets commits, of which the last is new.
Advances(s, new) ==
  /\ commits < MaxCommits
  /\ commits' = commits + 1
  /\ head' = [head EXCEPT ![s] = @ \cup new \cup {commits + 1}]
  /\ raced' = (raced \/ (merge # NoMerge /\ MergeOf[merge] = s))
  /\ UNCHANGED <<record, jobs, follow, main, applying, landed, gated, smuggled, raised>>

\* An agent commits to its branch; an operator, or it, merges dev/main into it.
AgentCommits(s) == AtWork(s) /\ Advances(s, {})

Updates(s) == ~(main \subseteq head[s]) /\ Advances(s, main)

DeveloperCommits ==
  /\ commits < MaxCommits
  /\ commits' = commits + 1
  /\ main' = main \cup {commits + 1}
  /\ gated' = gated \cup {commits + 1}
  /\ UNCHANGED <<record, jobs, follow, head, applying, landed, smuggled, raced, raised>>

-----------------------------------------------------------------------------
(* Merges.                                                                  *)

\* _running_merge
Running(state, m) == \E n \in Merge \ {m} : state.item[n] = "applying"

\* Faulty: two merges may be under way.
PreflightAlone(state, m) ==
  LET runs == {state.run[r] : r \in RunsOf(MergeOf[m])}
  IN  /\ runs \cap Active = {}
      /\ main \subseteq head[MergeOf[m]]

\* _merge_preflight, but for what is decided by the evidence of the request, the
\* cleanliness of the worktrees, the quality gate and conflicts: these may
\* always block.  Evidence that is marked validated stands in for a run.
Preflight(state, m) ==
  LET runs == {state.run[r] : r \in RunsOf(MergeOf[m])}
  IN  /\ ~Running(state, m)
      /\ runs \cap Active = {}
      /\ main \subseteq head[MergeOf[m]]

WithItem(state, m, status) == [state EXCEPT !.item[m] = status]

\* queue_merge
Queue(m) ==
  /\ Free
  /\ record.item[m] = "none"
  /\ \/ Preflight(record, m) /\ Saves(WithItem(record, m, "queued"))
     \/ Saves(WithItem(record, m, "blocked"))
  /\ UNCHANGED jobs

\* apply_merge reads the state, and something blocks.  The item may be of any
\* status, applying and merged too.
ApplyBlocked(m) ==
  /\ Free
  /\ record.item[m] # "none"
  /\ Saves(WithItem(record, m, "blocked"))
  /\ UNCHANGED jobs

\* Faulty: the preflight of the queue is taken to be good enough.
ApplyQueued(m) ==
  /\ Free
  /\ record.item[m] # "none" /\ ~Running(record, m)
  /\ pc' = "doctor" /\ merge' = m
  /\ UNCHANGED <<record, jobs, follow, branches, asked, resolved, ghosts>>

\* Nothing blocks; the doctor is started.
Apply(m) ==
  /\ Free
  /\ record.item[m] # "none"
  /\ Preflight(record, m)
  /\ pc' = "doctor" /\ merge' = m
  /\ gated' = gated \cup head[MergeOf[m]]
  /\ UNCHANGED <<record, jobs, follow, branches, asked, resolved,
                 landed, smuggled, raced, raised>>

DoctorFails ==
  /\ pc = "doctor"
  /\ record' = WithItem(record, merge, "blocked")
  /\ Ends
  /\ UNCHANGED <<job, strays, follow, branches, ghosts>>

DoctorPasses ==
  /\ pc = "doctor"
  /\ record' = WithItem(record, merge, "applying")
  /\ pc' = "resolve"
  /\ UNCHANGED <<jobs, follow, branches, merge, asked, resolved, ghosts>>

\* _apply_git_merge: git rev-parse of dev/main, ...
ResolveTarget ==
  /\ pc = "resolve"
  /\ target' = main
  /\ pc' = "branch"
  /\ UNCHANGED <<record, jobs, follow, branches, merge, asked, source, tree, outcome, ghosts>>

\* ... and of the branch.
ResolveSource ==
  /\ pc = "branch"
  /\ source' = head[MergeOf[merge]]
  /\ pc' = "merge"
  /\ UNCHANGED <<record, jobs, follow, branches, merge, asked, target, tree, outcome, ghosts>>

\* git merge-tree is given the names of the branches again, not what they were
\* resolved to.
MergeTree ==
  /\ pc = "merge"
  /\ tree' = main \cup head[MergeOf[merge]]
  /\ pc' = "update"
  /\ UNCHANGED <<record, jobs, follow, branches, merge, asked, target, source, outcome, ghosts>>

\* There is a conflict, or git fails, or refuses to update dev/main.
MergeFails ==
  /\ pc \in {"merge", "update"}
  /\ outcome' = "failed" /\ pc' = "record"
  /\ UNCHANGED <<record, jobs, follow, branches, merge, asked, target, source, tree, ghosts>>

\* The merge commit becomes dev/main.
Lands ==
  LET new == target \cup source \cup {commits + 1}
  IN  /\ commits < MaxCommits
      /\ commits' = commits + 1
      /\ main' = new
      /\ gated' = gated \cup {commits + 1}
      /\ smuggled' = smuggled \cup (tree \ new)
      /\ landed' = landed \cup {merge}
      /\ outcome' = "merged" /\ pc' = "record"
      /\ UNCHANGED <<record, jobs, follow, head, merge, asked, target, source, tree, raced, raised>>

\* Faulty: git update-ref without the value it expects.
UpdateRefBlindly == pc = "update" /\ Lands

\* git update-ref, which compares dev/main with what it was.
UpdateRef == pc = "update" /\ main = target /\ Lands

Integrated(state, m) ==
  [state EXCEPT !.item[m] = "merged", !.integrated = @ \cup {MergeOf[m]}]

\* Faulty: the outcome is not looked at.
RecordMerged ==
  /\ pc = "record"
  /\ record' = Integrated(record, merge)
  /\ Ends
  /\ UNCHANGED <<job, strays, follow, branches, ghosts>>

\* The state is read again, and the outcome recorded.
RecordOutcome ==
  /\ pc = "record"
  /\ record' = IF outcome = "merged" THEN Integrated(record, merge)
               ELSE WithItem(record, merge, "failed")
  /\ Ends
  /\ UNCHANGED <<job, strays, follow, branches, ghosts>>

-----------------------------------------------------------------------------
(* Failures.                                                                *)

\* The state cannot be written, or a job not be looked up after it was cancelled:
\* the request ends, and a job that it has started goes on.
RequestFails ==
  /\ pc \in {"submitted", "retried", "planned", "stopped", "project", "doctor", "record"}
  /\ strays' = strays \cup {r \in {asked} : fresh = "running"}
  /\ raised' = raised \cup {r \in {asked} : fresh = "running"}
  /\ Ends
  /\ UNCHANGED <<record, job, follow, branches, marks>>

\* The DEV backend stops.  A job that it ran is failed when it is asked for again.
Crash ==
  /\ ~Free \/ follow # {} \/ strays # {} \/ \E r \in Run : job[r] = "running"
  /\ job' = [r \in Run |-> IF job[r] = "running" THEN "failed" ELSE job[r]]
  /\ follow' = {} /\ strays' = {} /\ raised' = {}
  /\ Ends
  /\ UNCHANGED <<record, branches, marks>>

-----------------------------------------------------------------------------
Init ==
  /\ record = Fresh
  /\ job = [r \in Run |-> "none"] /\ fresh = "none" /\ strays = {} /\ follow = {}
  /\ head = [s \in Stage |-> {}] /\ main = {} /\ commits = 0
  /\ pc = "idle" /\ merge = NoMerge /\ asked = NoRun /\ outcome = "none"
  /\ target = {} /\ source = {} /\ tree = {}
  /\ landed = {} /\ gated = {} /\ smuggled = {} /\ raced = FALSE /\ raised = {}

RunRequest(r) ==
  \/ Submit(r) \/ Retry(r) \/ Raises(r) \/ Cancel(r)
  \/ Report(r) \/ Pause(r) \/ Resume(r)

RunStep == RecordStart \/ PlanRetry \/ NameRetry \/ RecordCancel \/ Project

MergeRequest(m) == Queue(m) \/ ApplyBlocked(m) \/ Apply(m)

ApplyStep ==
  \/ DoctorFails \/ DoctorPasses \/ ResolveTarget \/ ResolveSource \/ MergeTree \/ MergeFails
  \/ UpdateRef \/ RecordOutcome

Next ==
  \/ \E r \in Run : RunRequest(r) \/ JobEnds(r)
  \/ \E s \in Stage : FollowUpEnds(s) \/ AgentCommits(s) \/ Updates(s)
  \/ \E m \in Merge : MergeRequest(m)
  \/ RunStep \/ ApplyStep \/ DeveloperCommits
  \/ RequestFails \/ Crash

Spec == Init /\ [][Next]_vars

-----------------------------------------------------------------------------
(* Properties.                                                              *)

\* The steps of a request about a run, and of one that applies a merge.
OfRun == {"submitted", "retried", "planned", "stopped", "project"}
OfMerge == {"doctor", "resolve", "branch", "merge", "update", "record"}

\* Every variable has its type.
TypeOK ==
  /\ record \in Record
  /\ job \in [Run -> Jobs] /\ fresh \in Jobs /\ strays \subseteq Run /\ follow \subseteq Stage
  /\ head \in [Stage -> SUBSET Commit] /\ main \subseteq Commit
  /\ commits \in 0..MaxCommits
  /\ pc \in {"idle"} \cup OfRun \cup OfMerge
  /\ merge \in Merge \cup {NoMerge} /\ (pc \in OfMerge <=> merge # NoMerge)
  /\ asked \in Run \cup {NoRun} /\ (pc \in OfRun <=> asked # NoRun)
  /\ target \subseteq Commit /\ source \subseteq Commit /\ tree \subseteq Commit
  /\ outcome \in {"none", "failed", "merged"}
  /\ landed \subseteq Merge /\ gated \subseteq Commit /\ smuggled \subseteq Commit
  /\ raced \in BOOLEAN /\ raised \subseteq Run

\* dev/main is never moved back: whoever else commits to it while a merge is
\* applied, no commit that it reached is lost.
MainGrows == [][main \subseteq main']_main

\* What the state reports as merged is on dev/main, through crashes and second
\* attempts.
MergedLanded ==
  /\ \A m \in Merge : record.item[m] = "merged" => m \in landed
  /\ \A s \in record.integrated : \E m \in landed : MergeOf[m] = s

\* The queue is serialized: of the merges that the state reports to be applied,
\* crashed ones included, there is one at a time.
OneApplying ==
  \A m, n \in Merge : record.item[m] = "applying" /\ record.item[n] = "applying" => m = n

\* dev/main holds nothing of a stage that was not there when a preflight of its
\* merge passed, unless the branch moved while the merge was applied.
GatedOnly == raced \/ main \cup smuggled \subseteq gated

\* No run is reported as ended, or as never started, while a job works that it names,
\* or that no request will name any more, unless a request failed after it had
\* started one: neither a crash, nor a job that ends, nor a cancellation makes it so
\* between the steps of a start, a retry, a cancellation or a projection.
RunTold ==
  \A r \in Run : job[r] = "running" \/ r \in strays \ raised => record.run[r] \in Active \cup Held

\* Without the reservation such a run is reported as ended, or unknown.
EveryRunTold ==
  \A r \in Run : job[r] = "running" \/ r \in strays => record.run[r] \in Active \cup Held

\* "Reviewer reached complete" is among the required gates of a merge: no merge that
\* rests on a completed run is applied while an agent is at work in the stage.
ReviewerDone ==
  pc \in {"merge", "update"} /\ (\E r \in RunsOf(MergeOf[merge]) : record.run[r] = "completed")
    => ~AtWork(MergeOf[merge])

\* "A stage run is already active for this session and stage."
OneActiveRun ==
  \A q, r \in Run : q # r /\ RunOf[q] = RunOf[r] =>
    ~(record.run[q] \in Active /\ record.run[r] \in Active)
=============================================================================
