-------------------------- MODULE StageMergeProofs --------------------------
(***************************************************************************)
(* Proofs about StageMerge, for any stages, runs, merges and commits.      *)
(***************************************************************************)
EXTENDS StageMerge, TLAPS

InGit == pc \in {"resolve", "branch", "merge", "update", "record"}

\* A merge that was started is the only one recorded as applying, and it is so
\* recorded from the time that git is called.
QueueOK ==
  /\ OneApplying
  /\ pc = "doctor" => ~Running(record, merge)
  /\ InGit => record.item[merge] = "applying"

LandedOK ==
  /\ MergedLanded
  /\ pc = "record" /\ outcome = "merged" => merge \in landed

\* What git is given was there when the preflight passed, or the branch moved.
GateOK ==
  \/ raced
  \/ /\ main \cup smuggled \cup target \cup source \cup tree \subseteq gated
     /\ merge # NoMerge => head[MergeOf[merge]] \subseteq gated

\* What a run says of the job that it names, and of the one that is started for
\* it; a job that no run names was left behind by a request that failed.
RunsOK ==
  /\ \A r \in Run : /\ job[r] = "running" => record.run[r] \in Active \cup Held
                    /\ record.run[r] # "unused" => job[r] # "none"
  /\ strays \subseteq raised
  /\ fresh # "none" <=> pc \in {"submitted", "retried", "planned"}
  /\ pc \in OfRun \ {"submitted"} => record.run[asked] # "unused"
  /\ pc = "stopped" => job[asked] # "running"

MergeInv == TypeOK /\ QueueOK /\ LandedOK /\ GateOK /\ RunsOK

-----------------------------------------------------------------------------
LEMMA InitHolds == Init => MergeInv
<1> SUFFICES ASSUME Init PROVE MergeInv OBVIOUS
<1>a. record \in Record
  BY DEF Init, Record, Fresh, RunStatuses, MergeStatuses
<1>b. commits \in 0..MaxCommits BY CommitAssumption DEF Init
<1>1. TypeOK BY <1>a, <1>b DEF Init, TypeOK, Jobs, OfRun, OfMerge
<1>2. QueueOK BY DEF Init, QueueOK, OneApplying, InGit, Fresh
<1>3. LandedOK BY DEF Init, LandedOK, MergedLanded, Fresh
<1>4. GateOK BY DEF Init, GateOK
<1>5. RunsOK BY DEF Init, RunsOK, Fresh, OfRun
<1> QED BY <1>1, <1>2, <1>3, <1>4, <1>5 DEF MergeInv

\* A request changes the runs of the state, and nothing else of it.
LEMMA RunsOnly ==
  ASSUME MergeInv, NEW r \in Run, NEW status \in RunStatuses
  PROVE  LET new == WithRun(r, status)
         IN  /\ new \in Record /\ new.item = record.item /\ new.integrated = record.integrated
             /\ new.run = [record.run EXCEPT ![r] = status]
BY DEF MergeInv, TypeOK, WithRun, Record

LEMMA JobStatus ==
  ASSUME NEW j \in Jobs \ {"none"} PROVE StatusOf(j) \in RunStatuses
BY DEF StatusOf, Jobs, RunStatuses, Active

\* A step of a request about runs leaves merges alone.
LEMMA RunsAside ==
  ASSUME MergeInv, pc \notin OfMerge, pc' \in {"idle"} \cup OfRun,
         NEW q \in Run, NEW status \in RunStatuses, record' \in {record, WithRun(q, status)},
         asked' \in Run \cup {NoRun}, pc' \in OfRun <=> asked' # NoRun, merge' = NoMerge,
         job' \in [Run -> Jobs], fresh' \in Jobs, strays' \subseteq Run, raised' \subseteq Run,
         target' \subseteq target, source' \subseteq source, tree' \subseteq tree,
         outcome' \in {"none", outcome},
         UNCHANGED <<follow, branches, marks>>, RunsOK'
  PROVE  MergeInv'
<1>1. /\ record' \in Record /\ record'.item = record.item
      /\ record'.integrated = record.integrated
  <2>1. CASE record' = record BY <2>1 DEF MergeInv, TypeOK
  <2>2. CASE record' = WithRun(q, status) BY <2>2, RunsOnly
  <2> QED BY <2>1, <2>2
<1>2. pc \notin OfMerge /\ pc' \notin OfMerge BY DEF OfMerge, OfRun
<1>3. TypeOK' BY <1>1, <1>2 DEF MergeInv, TypeOK, branches, marks
<1>4. QueueOK' BY <1>1, <1>2 DEF MergeInv, QueueOK, OneApplying, InGit, OfMerge
<1>5. LandedOK' BY <1>1, <1>2 DEF MergeInv, LandedOK, MergedLanded, marks, OfMerge
<1>6. GateOK' BY DEF MergeInv, GateOK, branches, marks
<1> QED BY <1>3, <1>4, <1>5, <1>6 DEF MergeInv

\* What the proofs about such steps rest on.
LEMMA RunFacts ==
  ASSUME MergeInv, pc \notin OfMerge
  PROVE  /\ job \in [Run -> Jobs] /\ record.run \in [Run -> RunStatuses]
         /\ fresh \in Jobs /\ strays \subseteq Run /\ raised \subseteq Run
         /\ merge = NoMerge /\ (pc \in OfRun <=> asked \in Run)
         /\ asked \in Run \cup {NoRun} /\ (pc \in OfRun <=> asked # NoRun)
         /\ NoRun \notin Run /\ "idle" \notin OfRun \cup OfMerge /\ OfRun \cap OfMerge = {}
BY RunAssumption DEF MergeInv, TypeOK, Record, OfRun, OfMerge

\* A request starts a job, or stops it, or fails after it has started one.
LEMMA BeginsKeeps ==
  ASSUME MergeInv, NEW r \in Run, Submit(r) \/ Retry(r) \/ Raises(r) \/ Cancel(r)
  PROVE  MergeInv'
<1>0. pc = "idle" /\ pc \notin OfMerge
  BY DEF Submit, Retry, Raises, Cancel, Free, OfMerge
<1>1. "running" \in Jobs /\ "cancelled" \in Jobs /\ "active" \in RunStatuses
  BY DEF Jobs, RunStatuses, Active
<1>2. CASE Submit(r)
  <2>1. /\ fresh' = "running" /\ pc' = "submitted" /\ asked' = r
        /\ UNCHANGED <<record, job, strays, merge, raised, target, source, tree, outcome>>
        /\ UNCHANGED <<follow, branches, marks>>
    BY <1>2 DEF Submit, Goes, resolved, ghosts
  <2>2. RunsOK' BY <2>1 DEF MergeInv, RunsOK, OfRun
  <2>3. pc' \in OfRun BY <2>1 DEF OfRun
  <2> QED BY <1>0, <1>1, <2>1, <2>2, <2>3, RunFacts, RunsAside
<1>3. CASE Retry(r)
  <2>1. /\ fresh' = "running" /\ pc' = "retried" /\ asked' = r /\ record.run[r] # "unused"
        /\ UNCHANGED <<record, job, strays, merge, raised, target, source, tree, outcome>>
        /\ UNCHANGED <<follow, branches, marks>>
    BY <1>3 DEF Retry, Retriable, Goes, resolved, ghosts
  <2>2. RunsOK' BY <2>1 DEF MergeInv, RunsOK, OfRun
  <2>3. pc' \in OfRun BY <2>1 DEF OfRun
  <2> QED BY <1>0, <1>1, <2>1, <2>2, <2>3, RunFacts, RunsAside
<1>4. CASE Raises(r)
  <2>1. /\ strays' = strays \cup {r} /\ raised' = raised \cup {r}
        /\ UNCHANGED <<record, job, fresh, pc, asked, merge, target, source, tree, outcome>>
        /\ UNCHANGED <<follow, branches, marks>>
    BY <1>4 DEF Raises, applying, resolved
  <2>2. RunsOK' BY <1>0, <2>1 DEF MergeInv, RunsOK, OfRun
  <2> QED BY <1>0, <1>1, <2>1, <2>2, RunFacts, RunsAside
<1>5. CASE Cancel(r)
  <2>1. /\ job' = [job EXCEPT ![r] = IF @ = "running" THEN "cancelled" ELSE @]
        /\ pc' = "stopped" /\ asked' = r /\ record.run[r] # "unused"
        /\ UNCHANGED <<record, fresh, strays, merge, raised, target, source, tree, outcome>>
        /\ UNCHANGED <<follow, branches, marks>>
    BY <1>5 DEF Cancel, Goes, resolved, ghosts
  <2>2. job' \in [Run -> Jobs] BY <1>0, <1>1, <2>1, RunFacts
  <2>3. job'[r] # "running"
        /\ \A q \in Run : (job'[q] = "running" => job[q] = "running")
                          /\ (job'[q] = "none" => job[q] = "none")
    BY <1>0, <2>1, RunFacts
  <2>4. RunsOK' BY <1>0, <2>1, <2>3 DEF MergeInv, RunsOK, OfRun
  <2>5. pc' \in OfRun BY <2>1 DEF OfRun
  <2> QED BY <1>0, <1>1, <2>1, <2>2, <2>4, <2>5, RunFacts, RunsAside
<1> QED BY <1>2, <1>3, <1>4, <1>5

\* A run is projected, and stays what it is if it is held.
LEMMA Projects ==
  ASSUME MergeInv, NEW r \in Run, record.run[r] # "unused"
  PROVE  \E status \in RunStatuses \ {"unused"} :
           /\ Projected(r) \in {record, WithRun(r, status)}
           /\ job[r] = "running" => status \in Active
<1>1. job[r] \in Jobs \ {"none"} BY DEF MergeInv, TypeOK, RunsOK
<1>2. StatusOf(job[r]) \in RunStatuses \ {"unused"} /\ (job[r] = "running" => StatusOf(job[r]) \in Active)
  BY <1>1, JobStatus DEF StatusOf, Jobs, Active
<1> QED BY <1>2 DEF Projected

\* A request works on the state alone.
LEMMA SavesKeeps ==
  ASSUME MergeInv, NEW r \in Run, Report(r) \/ Pause(r) \/ Resume(r) PROVE MergeInv'
<1>0. pc = "idle" /\ pc \notin OfMerge BY DEF Report, Pause, Resume, Free, OfMerge
<1>1. PICK status \in RunStatuses \ {"unused"} :
        /\ record' \in {record, WithRun(r, status)}
        /\ job[r] = "running" => status \in Active \cup Held
        /\ record.run[r] # "unused"
  <2>1. CASE Report(r)
    <3>1. record.run[r] # "unused" /\ record' = Projected(r) BY <2>1 DEF Report, Saves
    <3> QED BY <3>1, Projects
  <2>2. CASE Pause(r) \/ Resume(r)
    BY <2>2 DEF Pause, Resume, Saves, RunStatuses, Active, Held
  <2> QED BY <2>1, <2>2
<1>2. /\ UNCHANGED <<job, fresh, strays, pc, asked, merge, raised, target, source, tree, outcome>>
      /\ UNCHANGED <<follow, branches, marks>>
  BY DEF Report, Pause, Resume, Saves, jobs, applying, resolved, ghosts
<1>3. record'.run \in {record.run, [record.run EXCEPT ![r] = status]}
  <2>1. WithRun(r, status).run = [record.run EXCEPT ![r] = status] BY <1>1, RunsOnly
  <2> QED BY <1>1, <2>1
<1>4. RunsOK' BY <1>0, <1>1, <1>2, <1>3, RunFacts DEF MergeInv, RunsOK, OfRun
<1> QED BY <1>0, <1>1, <1>2, <1>4, RunFacts, RunsAside

\* The request goes on to record what it has done.
LEMMA RunStepKeeps ==
  ASSUME MergeInv, RunStep PROVE MergeInv'
<1>0. pc \in OfRun /\ pc \notin OfMerge
  BY DEF RunStep, RecordStart, PlanRetry, NameRetry, RecordCancel, Project, OfRun, OfMerge
<1>1. asked \in Run BY <1>0, RunFacts
<1>2. {"active", "planned", "cancelled"} \subseteq RunStatuses \ {"unused"}
      /\ {"active", "planned"} = Active
  BY DEF RunStatuses, Active
<1>3. CASE RecordStart \/ NameRetry
  <2>1. /\ record' = WithRun(asked, "active") /\ job' = [job EXCEPT ![asked] = fresh]
        /\ fresh' = "none" /\ pc' = "project" /\ asked' = asked
        /\ pc \in {"submitted", "planned"}
        /\ UNCHANGED <<strays, merge, raised, target, source, tree, outcome>>
        /\ UNCHANGED <<follow, branches, marks>>
    BY <1>3 DEF RecordStart, NameRetry, Goes, resolved, ghosts
  <2>2. record'.run = [record.run EXCEPT ![asked] = "active"] BY <1>1, <1>2, <2>1, RunsOnly
  <2>3. fresh # "none" BY <2>1 DEF MergeInv, RunsOK
  <2>4. RunsOK'
    BY <1>0, <1>1, <1>2, <2>1, <2>2, <2>3, RunFacts DEF MergeInv, RunsOK, OfRun
  <2>5. pc' \in OfRun /\ job' \in [Run -> Jobs] /\ fresh' \in Jobs
    BY <1>0, <1>1, <2>1, RunFacts DEF OfRun, Jobs
  <2> QED BY <1>0, <1>1, <1>2, <2>1, <2>4, <2>5, RunFacts, RunsAside
<1>4. CASE PlanRetry
  <2>1. /\ record' = WithRun(asked, "planned") /\ pc' = "planned" /\ asked' = asked
        /\ pc = "retried"
        /\ UNCHANGED <<job, fresh, strays, merge, raised, target, source, tree, outcome>>
        /\ UNCHANGED <<follow, branches, marks>>
    BY <1>4 DEF PlanRetry, Goes, resolved, ghosts, jobs
  <2>2. record'.run = [record.run EXCEPT ![asked] = "planned"] BY <1>1, <1>2, <2>1, RunsOnly
  <2>3. RunsOK' BY <1>0, <1>1, <1>2, <2>1, <2>2, RunFacts DEF MergeInv, RunsOK, OfRun
  <2>4. pc' \in OfRun BY <2>1 DEF OfRun
  <2> QED BY <1>0, <1>1, <1>2, <2>1, <2>3, <2>4, RunFacts, RunsAside
<1>5. CASE RecordCancel
  <2>1. /\ record' \in {record, WithRun(asked, "cancelled")} /\ pc' = "project" /\ asked' = asked
        /\ pc = "stopped"
        /\ UNCHANGED <<job, fresh, strays, merge, raised, target, source, tree, outcome>>
        /\ UNCHANGED <<follow, branches, marks>>
    BY <1>5 DEF RecordCancel, Goes, resolved, ghosts, jobs
  <2>2. record'.run \in {record.run, [record.run EXCEPT ![asked] = "cancelled"]}
    <3>1. WithRun(asked, "cancelled").run = [record.run EXCEPT ![asked] = "cancelled"] BY <1>1, <1>2, <2>1, RunsOnly
    <3> QED BY <1>1, <1>2, <2>1, <3>1
  <2>3. RunsOK' BY <1>0, <1>1, <1>2, <2>1, <2>2, RunFacts DEF MergeInv, RunsOK, OfRun
  <2>4. pc' \in OfRun BY <2>1 DEF OfRun
  <2> QED BY <1>0, <1>1, <1>2, <2>1, <2>3, <2>4, RunFacts, RunsAside
<1>6. CASE Project
  <2>1. /\ record' = Projected(asked) /\ pc = "project" /\ pc' = "idle" /\ merge' = NoMerge
        /\ asked' = NoRun /\ fresh' = "none"
        /\ target' = {} /\ source' = {} /\ tree' = {} /\ outcome' = "none"
        /\ UNCHANGED <<job, strays, raised>> /\ UNCHANGED <<follow, branches, marks>>
    BY <1>6 DEF Project, Ends, ghosts
  <2>2. record.run[asked] # "unused" BY <2>1 DEF MergeInv, RunsOK, OfRun
  <2>3. PICK status \in RunStatuses \ {"unused"} :
          /\ record' \in {record, WithRun(asked, status)}
          /\ job[asked] = "running" => status \in Active
    BY <1>1, <2>1, <2>2, Projects
  <2>4. record'.run \in {record.run, [record.run EXCEPT ![asked] = status]}
    <3>1. WithRun(asked, status).run = [record.run EXCEPT ![asked] = status] BY <1>1, <2>3, RunsOnly
    <3> QED BY <1>1, <2>3, <3>1
  <2>5. RunsOK' BY <1>0, <1>1, <2>1, <2>2, <2>3, <2>4, RunFacts DEF MergeInv, RunsOK, OfRun
  <2>6. fresh' \in Jobs BY <2>1 DEF Jobs
  <2> QED BY <1>0, <1>1, <2>1, <2>3, <2>5, <2>6, RunFacts, RunsAside
<1> QED BY <1>3, <1>4, <1>5, <1>6 DEF RunStep

\* A job or a follow-up ends.
LEMMA OutsideKeeps ==
  ASSUME MergeInv,
         \/ \E r \in Run : JobEnds(r)
         \/ \E s \in Stage : FollowUpEnds(s)
  PROVE  MergeInv'
<1> DEFINE Harmless ==
      /\ UNCHANGED record /\ UNCHANGED branches /\ UNCHANGED applying /\ UNCHANGED marks
      /\ follow' \subseteq Stage
      /\ job' \in [Run -> Jobs] /\ fresh' \in Jobs /\ strays' \subseteq Run /\ raised' \subseteq Run
      /\ \A q \in Run : (job'[q] = "running" => job[q] = "running")
                        /\ (job'[q] = "none" => job[q] = "none")
      /\ (fresh' = "none" <=> fresh = "none")
      /\ strays' \subseteq raised'
<1>1. Harmless
  <2>1. ASSUME NEW s \in Stage, FollowUpEnds(s) PROVE Harmless
    BY <2>1 DEF FollowUpEnds, MergeInv, TypeOK, RunsOK, jobs, ghosts
  <2>2. ASSUME NEW r \in Run, JobEnds(r) PROVE Harmless
    <3>1. PICK end \in {"failed", "completed"} :
            /\ \/ job[r] = "running" /\ job' = [job EXCEPT ![r] = end] /\ UNCHANGED <<fresh, strays, raised>>
               \/ asked = r /\ fresh = "running" /\ fresh' = end /\ UNCHANGED <<job, strays, raised>>
               \/ r \in strays /\ strays' = strays \ {r} /\ raised' = raised \ {r} /\ UNCHANGED <<job, fresh>>
            /\ follow' \subseteq follow \cup {RunOf[r]}
            /\ UNCHANGED <<record, branches, applying, marks>>
      BY <2>2 DEF JobEnds
    <3>2. end \in Jobs BY DEF Jobs
    <3>3. follow' \subseteq Stage BY <3>1, RunAssumption DEF MergeInv, TypeOK
    <3> QED BY <3>1, <3>2, <3>3 DEF MergeInv, TypeOK, RunsOK
  <2> QED BY <2>1, <2>2
<1>2. TypeOK' BY <1>1 DEF MergeInv, TypeOK, branches, applying, resolved, marks
<1>3. QueueOK' BY <1>1 DEF MergeInv, QueueOK, OneApplying, Running, InGit, applying
<1>4. LandedOK' BY <1>1 DEF MergeInv, LandedOK, MergedLanded, applying, resolved, marks
<1>5. GateOK' BY <1>1 DEF MergeInv, GateOK, branches, applying, resolved, marks
<1>6. RunsOK'
  <2>1. pc' = pc /\ asked' = asked BY <1>1 DEF applying
  <2>2. pc = "stopped" => asked \in Run BY RunFacts DEF OfRun, OfMerge
  <2> QED BY <1>1, <2>1, <2>2 DEF MergeInv, RunsOK
<1> QED BY <1>2, <1>3, <1>4, <1>5, <1>6 DEF MergeInv

-----------------------------------------------------------------------------
(* Commits.                                                                 *)

\* The branch of a stage grows; dev/main, the state and the merge stay.
LEMMA AdvancesKeeps ==
  ASSUME MergeInv, NEW s \in Stage, NEW new \in SUBSET Commit, Advances(s, new)
  PROVE  MergeInv'
<1>1. /\ UNCHANGED <<record, jobs, follow, main>> /\ UNCHANGED applying
      /\ UNCHANGED <<landed, gated, smuggled, raised>>
      /\ commits' = commits + 1 /\ commits < MaxCommits
      /\ head' = [head EXCEPT ![s] = @ \cup new \cup {commits + 1}]
      /\ raced' = (raced \/ (merge # NoMerge /\ MergeOf[merge] = s))
  BY DEF Advances
<1>2. commits + 1 \in Commit /\ commits' \in 0..MaxCommits
  BY <1>1, CommitAssumption DEF MergeInv, TypeOK, Commit
<1>3. head' \in [Stage -> SUBSET Commit] BY <1>1, <1>2 DEF MergeInv, TypeOK
<1>4. raced' \in BOOLEAN BY <1>1 DEF MergeInv, TypeOK
<1>5. TypeOK' BY <1>1, <1>2, <1>3, <1>4 DEF MergeInv, TypeOK, jobs, applying, resolved
<1>6. QueueOK' BY <1>1 DEF MergeInv, QueueOK, OneApplying, Running, InGit, applying
<1>7. LandedOK' BY <1>1 DEF MergeInv, LandedOK, MergedLanded, applying, resolved
<1>8. GateOK'
  <2>1. CASE raced' BY <2>1 DEF GateOK
  <2>2. CASE ~raced'
    <3>1. ~raced /\ (merge # NoMerge => MergeOf[merge] # s) BY <1>1, <2>2 DEF MergeInv, TypeOK
    <3>2. merge # NoMerge => merge \in Merge BY DEF MergeInv, TypeOK
    <3>3. merge # NoMerge => MergeOf[merge] \in Stage BY <3>2, MergeAssumption
    <3>4. merge # NoMerge => head'[MergeOf[merge]] = head[MergeOf[merge]]
      BY <1>1, <3>1, <3>3 DEF MergeInv, TypeOK
    <3> QED BY <1>1, <3>1, <3>4 DEF MergeInv, GateOK, applying, resolved
  <2> QED BY <2>1, <2>2
<1>9. RunsOK' BY <1>1 DEF MergeInv, RunsOK, jobs, applying
<1> QED BY <1>5, <1>6, <1>7, <1>8, <1>9 DEF MergeInv

LEMMA DeveloperKeeps ==
  ASSUME MergeInv, DeveloperCommits PROVE MergeInv'
<1>1. /\ UNCHANGED <<record, jobs, follow, head>> /\ UNCHANGED applying
      /\ UNCHANGED <<landed, smuggled, raced, raised>>
      /\ commits' = commits + 1 /\ commits < MaxCommits
      /\ main' = main \cup {commits + 1} /\ gated' = gated \cup {commits + 1}
  BY DEF DeveloperCommits
<1>2. commits + 1 \in Commit /\ commits' \in 0..MaxCommits
  BY <1>1, CommitAssumption DEF MergeInv, TypeOK, Commit
<1>3. TypeOK' BY <1>1, <1>2 DEF MergeInv, TypeOK, jobs, applying, resolved
<1>4. QueueOK' BY <1>1 DEF MergeInv, QueueOK, OneApplying, Running, InGit, applying
<1>5. LandedOK' BY <1>1 DEF MergeInv, LandedOK, MergedLanded, applying, resolved
<1>6. GateOK' BY <1>1 DEF MergeInv, GateOK, applying, resolved
<1>7. RunsOK' BY <1>1 DEF MergeInv, RunsOK, jobs, applying
<1> QED BY <1>3, <1>4, <1>5, <1>6, <1>7 DEF MergeInv

-----------------------------------------------------------------------------
(* Merges.                                                                  *)

\* A merge request changes the status of its item, and nothing else of the state.
LEMMA ItemOnly ==
  ASSUME MergeInv, NEW m \in Merge, NEW status \in MergeStatuses
  PROVE  LET new == WithItem(record, m, status)
         IN  /\ new \in Record /\ new.run = record.run /\ new.integrated = record.integrated
             /\ new.item = [record.item EXCEPT ![m] = status]
BY DEF MergeInv, TypeOK, WithItem, Record

\* While no merge is under way, one that is queued or blocked is so recorded.
LEMMA AsideKeeps ==
  ASSUME MergeInv, NEW m \in Merge, NEW status \in {"queued", "blocked"},
         Free, Saves(WithItem(record, m, status)), UNCHANGED jobs
  PROVE  MergeInv'
<1>1. /\ record' \in Record /\ record'.run = record.run
      /\ record'.integrated = record.integrated
      /\ record'.item = [record.item EXCEPT ![m] = status]
  BY ItemOnly DEF Saves, MergeStatuses
<1>2. /\ UNCHANGED <<follow, branches>> /\ UNCHANGED applying /\ UNCHANGED marks
      /\ UNCHANGED raised
  BY DEF Saves, ghosts
<1>3. record.item \in [Merge -> MergeStatuses] BY DEF MergeInv, TypeOK, Record
<1>4. TypeOK' BY <1>1, <1>2 DEF MergeInv, TypeOK, branches, jobs, applying, resolved, marks
<1>5. \A n \in Merge : record'.item[n] \in {"applying", "merged"}
                         => record'.item[n] = record.item[n]
  BY <1>1, <1>3
<1>6. QueueOK'
  BY <1>2, <1>5 DEF MergeInv, QueueOK, OneApplying, InGit, applying, Free
<1>7. LandedOK' BY <1>1, <1>2, <1>5 DEF MergeInv, LandedOK, MergedLanded, applying, resolved, marks
<1>8. GateOK' BY <1>2 DEF MergeInv, GateOK, branches, applying, resolved, marks
<1>9. RunsOK' BY <1>1, <1>2 DEF MergeInv, RunsOK, jobs, applying
<1> QED BY <1>4, <1>6, <1>7, <1>8, <1>9 DEF MergeInv

LEMMA ApplyKeeps ==
  ASSUME MergeInv, NEW m \in Merge, Apply(m) PROVE MergeInv'
<1>1. /\ Free /\ Preflight(record, m) /\ pc' = "doctor" /\ merge' = m
      /\ gated' = gated \cup head[MergeOf[m]]
      /\ UNCHANGED <<record, jobs, follow>> /\ UNCHANGED branches /\ UNCHANGED <<asked, resolved>>
      /\ UNCHANGED <<landed, smuggled, raced, raised>>
  BY DEF Apply
<1>2. head[MergeOf[m]] \subseteq Commit BY MergeAssumption DEF MergeInv, TypeOK
<1>3. TypeOK'
  BY <1>1, <1>2, MergeAssumption DEF MergeInv, TypeOK, branches, jobs, resolved, Free, OfRun, OfMerge
<1>4. QueueOK' BY <1>1 DEF MergeInv, QueueOK, OneApplying, Running, InGit, Preflight
<1>5. LandedOK' BY <1>1 DEF MergeInv, LandedOK, MergedLanded
<1>6. GateOK' BY <1>1 DEF MergeInv, GateOK, branches, resolved
<1>7. RunsOK' BY <1>1 DEF MergeInv, RunsOK, jobs, Free, OfRun
<1> QED BY <1>3, <1>4, <1>5, <1>6, <1>7 DEF MergeInv

LEMMA MergeRequestKeeps ==
  ASSUME MergeInv, NEW m \in Merge, MergeRequest(m) PROVE MergeInv'
<1>1. CASE Queue(m) BY <1>1, AsideKeeps DEF Queue
<1>2. CASE ApplyBlocked(m) BY <1>2, AsideKeeps DEF ApplyBlocked
<1> QED BY <1>1, <1>2, ApplyKeeps DEF MergeRequest

\* The request ends, with the state new, in which its merge is not applying.
LEMMA EndsKeeps ==
  ASSUME MergeInv, pc \in OfMerge, Ends,
         UNCHANGED <<job, strays, follow>>, UNCHANGED branches, UNCHANGED ghosts,
         record' \in Record, record'.run = record.run,
         \A n \in Merge \ {merge} : record'.item[n] = record.item[n],
         record'.item[merge] # "applying", MergedLanded'
  PROVE  MergeInv'
<1>1. merge \in Merge BY DEF MergeInv, TypeOK
<1>2. TypeOK'
  BY MergeAssumption DEF MergeInv, TypeOK, branches, ghosts, marks, Ends, Jobs, OfRun, OfMerge
<1>3. QueueOK' BY <1>1 DEF MergeInv, QueueOK, OneApplying, InGit, Ends
<1>4. LandedOK' BY DEF LandedOK, Ends
<1>5. GateOK' BY DEF MergeInv, GateOK, Ends, branches, ghosts, marks
<1>6. RunsOK' BY DEF MergeInv, RunsOK, Ends, ghosts, OfRun
<1> QED BY <1>2, <1>3, <1>4, <1>5, <1>6 DEF MergeInv

LEMMA DoctorKeeps ==
  ASSUME MergeInv, DoctorFails \/ DoctorPasses PROVE MergeInv'
<1>1. merge \in Merge /\ pc \in OfMerge
  BY DEF DoctorFails, DoctorPasses, MergeInv, TypeOK, OfMerge
<1>2. record.item \in [Merge -> MergeStatuses] BY DEF MergeInv, TypeOK, Record
<1>3. CASE DoctorFails
  <2>1. /\ record' \in Record /\ record'.run = record.run
        /\ record'.integrated = record.integrated
        /\ record'.item = [record.item EXCEPT ![merge] = "blocked"]
    BY <1>1, <1>3, ItemOnly DEF DoctorFails, MergeStatuses
  <2>2. /\ Ends /\ UNCHANGED <<job, strays, follow>> /\ UNCHANGED branches /\ UNCHANGED ghosts
    BY <1>3 DEF DoctorFails
  <2>3. MergedLanded' BY <1>1, <1>2, <2>1, <2>2 DEF MergeInv, LandedOK, MergedLanded, ghosts, marks
  <2> QED BY <1>1, <1>2, <2>1, <2>2, <2>3, EndsKeeps
<1>4. CASE DoctorPasses
  <2>1. /\ record' \in Record /\ record'.run = record.run
        /\ record'.integrated = record.integrated
        /\ record'.item = [record.item EXCEPT ![merge] = "applying"]
    BY <1>1, <1>4, ItemOnly DEF DoctorPasses, MergeStatuses
  <2>2. /\ pc = "doctor" /\ pc' = "resolve"
        /\ UNCHANGED <<jobs, follow, merge, asked, target, source, tree, outcome>>
        /\ UNCHANGED branches /\ UNCHANGED ghosts
    BY <1>4 DEF DoctorPasses, resolved
  <2>3. TypeOK' BY <2>1, <2>2 DEF MergeInv, TypeOK, branches, jobs, ghosts, marks, OfRun, OfMerge
  <2>4. QueueOK'
    <3>1. \A n \in Merge \ {merge} : record'.item[n] # "applying"
      BY <1>1, <1>2, <2>1, <2>2 DEF MergeInv, QueueOK, Running
    <3> QED BY <1>1, <1>2, <2>1, <2>2, <3>1 DEF QueueOK, OneApplying, InGit
  <2>5. LandedOK'
    BY <1>1, <1>2, <2>1, <2>2 DEF MergeInv, LandedOK, MergedLanded, ghosts, marks
  <2>6. GateOK' BY <2>2 DEF MergeInv, GateOK, branches, ghosts, marks
  <2>7. RunsOK' BY <2>1, <2>2 DEF MergeInv, RunsOK, jobs, ghosts, OfRun
  <2> QED BY <2>3, <2>4, <2>5, <2>6, <2>7 DEF MergeInv
<1> QED BY <1>3, <1>4

\* git reads the branches, or fails.
LEMMA GitReadsKeeps ==
  ASSUME MergeInv, ResolveTarget \/ ResolveSource \/ MergeTree \/ MergeFails PROVE MergeInv'
<1>1. /\ pc \in OfMerge /\ InGit /\ merge \in Merge
      /\ pc' \in {"branch", "merge", "update", "record"}
      /\ UNCHANGED <<record, jobs, follow, merge, asked>> /\ UNCHANGED branches /\ UNCHANGED ghosts
      /\ (pc' = "record" => outcome' = "failed")
      /\ outcome' \in {"none", "failed", "merged"}
  BY DEF ResolveTarget, ResolveSource, MergeTree, MergeFails, MergeInv, TypeOK, InGit, OfMerge
<1>2. head[MergeOf[merge]] \subseteq Commit /\ main \subseteq Commit
  BY <1>1, MergeAssumption DEF MergeInv, TypeOK
<1>3. target' \cup source' \cup tree'
        \subseteq target \cup source \cup tree \cup main \cup head[MergeOf[merge]]
  BY DEF ResolveTarget, ResolveSource, MergeTree, MergeFails
<1>4. TypeOK'
  BY <1>1, <1>2, <1>3, MergeAssumption DEF MergeInv, TypeOK, branches, jobs, ghosts, marks, OfRun, OfMerge
<1>5. QueueOK' BY <1>1 DEF MergeInv, QueueOK, OneApplying, InGit
<1>6. LandedOK' BY <1>1 DEF MergeInv, LandedOK, MergedLanded, ghosts, marks
<1>7. GateOK' BY <1>1, <1>3, MergeAssumption DEF MergeInv, GateOK, branches, ghosts, marks
<1>8. RunsOK' BY <1>1 DEF MergeInv, RunsOK, jobs, ghosts, OfRun, OfMerge
<1> QED BY <1>4, <1>5, <1>6, <1>7, <1>8 DEF MergeInv

LEMMA UpdateRefKeeps ==
  ASSUME MergeInv, UpdateRef PROVE MergeInv'
<1> DEFINE new == target \cup source \cup {commits + 1}
<1>1. /\ pc = "update" /\ pc' = "record" /\ outcome' = "merged"
      /\ commits < MaxCommits /\ commits' = commits + 1 /\ main' = new
      /\ gated' = gated \cup {commits + 1}
      /\ smuggled' = smuggled \cup (tree \ new) /\ landed' = landed \cup {merge}
      /\ UNCHANGED <<record, jobs, follow, head, merge, asked, target, source, tree, raced, raised>>
  BY DEF UpdateRef, Lands
<1>2. commits + 1 \in Commit /\ commits' \in 0..MaxCommits
  BY <1>1, CommitAssumption DEF MergeInv, TypeOK, Commit
<1>3. merge \in Merge BY <1>1 DEF MergeInv, TypeOK, OfMerge
<1>4. TypeOK' BY <1>1, <1>2, <1>3 DEF MergeInv, TypeOK, jobs, OfRun, OfMerge
<1>5. QueueOK' BY <1>1 DEF MergeInv, QueueOK, OneApplying, InGit
<1>6. LandedOK' BY <1>1, <1>3 DEF MergeInv, LandedOK, MergedLanded
<1>7. GateOK' BY <1>1 DEF MergeInv, GateOK
<1>8. RunsOK' BY <1>1 DEF MergeInv, RunsOK, jobs, OfRun
<1> QED BY <1>4, <1>5, <1>6, <1>7, <1>8 DEF MergeInv

LEMMA RecordOutcomeKeeps ==
  ASSUME MergeInv, RecordOutcome PROVE MergeInv'
<1>1. merge \in Merge /\ pc \in OfMerge BY DEF RecordOutcome, MergeInv, TypeOK, OfMerge
<1>2. record \in Record BY DEF MergeInv, TypeOK
<1>3. /\ Ends /\ UNCHANGED <<job, strays, follow>> /\ UNCHANGED branches /\ UNCHANGED ghosts
  BY DEF RecordOutcome
<1>4. CASE outcome = "merged"
  <2>1. /\ record' \in Record /\ record'.run = record.run
        /\ record'.item = [record.item EXCEPT ![merge] = "merged"]
        /\ record'.integrated = record.integrated \cup {MergeOf[merge]}
    <3>1. record' = Integrated(record, merge) BY <1>4 DEF RecordOutcome
    <3>2. MergeOf[merge] \in Stage BY <1>1, MergeAssumption
    <3>3. [record.item EXCEPT ![merge] = "merged"] \in [Merge -> MergeStatuses]
      BY <1>1, <1>2 DEF Record, MergeStatuses
    <3>4. record.integrated \cup {MergeOf[merge]} \in SUBSET Stage BY <1>2, <3>2 DEF Record
    <3>5. record.run \in [Run -> RunStatuses] BY <1>2 DEF Record
    <3>6. record' = [run |-> record.run, item |-> [record.item EXCEPT ![merge] = "merged"],
                     integrated |-> record.integrated \cup {MergeOf[merge]}]
      BY <1>2, <3>1 DEF Integrated, Record
    <3> QED BY <3>3, <3>4, <3>5, <3>6 DEF Record
  <2>2. merge \in landed BY <1>4 DEF RecordOutcome, MergeInv, LandedOK
  <2>3. record.item \in [Merge -> MergeStatuses] BY <1>2 DEF Record
  <2>4. MergedLanded'
    BY <1>1, <1>3, <2>1, <2>2, <2>3 DEF MergeInv, LandedOK, MergedLanded, ghosts, marks
  <2> QED BY <1>1, <1>3, <2>1, <2>3, <2>4, EndsKeeps
<1>5. CASE outcome # "merged"
  <2>1. /\ record' \in Record /\ record'.run = record.run
        /\ record'.item = [record.item EXCEPT ![merge] = "failed"]
        /\ record'.integrated = record.integrated
    BY <1>1, <1>5, ItemOnly DEF RecordOutcome, MergeStatuses
  <2>2. record.item \in [Merge -> MergeStatuses] BY <1>2 DEF Record
  <2>3. MergedLanded' BY <1>1, <1>3, <2>1, <2>2 DEF MergeInv, LandedOK, MergedLanded, ghosts, marks
  <2> QED BY <1>1, <1>3, <2>1, <2>2, <2>3, EndsKeeps
<1> QED BY <1>4, <1>5

\* A request fails, or the backend stops.
LEMMA FailureKeeps ==
  ASSUME MergeInv, RequestFails \/ Crash PROVE MergeInv'
<1>1. /\ Ends /\ UNCHANGED record /\ UNCHANGED branches /\ UNCHANGED marks
      /\ follow' \subseteq follow
  BY DEF RequestFails, Crash
<1>2. /\ job' \in [Run -> Jobs] /\ \A r \in Run : (job'[r] = "running" => job[r] = "running")
                             /\ (job'[r] = "none" => job[r] = "none")
      /\ strays' \subseteq Run /\ raised' \subseteq Run /\ strays' \subseteq raised'
  <2>1. CASE RequestFails
    <3>1. /\ job' = job /\ strays' = strays \cup {r \in {asked} : fresh = "running"}
          /\ raised' = raised \cup {r \in {asked} : fresh = "running"}
      BY <2>1 DEF RequestFails
    <3>2. fresh = "running" => asked \in Run BY DEF MergeInv, TypeOK, RunsOK, OfRun
    <3> QED BY <3>1, <3>2 DEF MergeInv, TypeOK, RunsOK
  <2>2. CASE Crash
    <3>1. /\ job' = [r \in Run |-> IF job[r] = "running" THEN "failed" ELSE job[r]]
          /\ strays' = {} /\ raised' = {}
      BY <2>2 DEF Crash
    <3> QED BY <3>1 DEF MergeInv, TypeOK, Jobs
  <2> QED BY <2>1, <2>2
<1>3. TypeOK'
  BY <1>1, <1>2, MergeAssumption, RunAssumption
  DEF MergeInv, TypeOK, branches, marks, Ends, Jobs, OfRun, OfMerge
<1>4. QueueOK' BY <1>1 DEF MergeInv, QueueOK, OneApplying, InGit, Ends
<1>5. LandedOK' BY <1>1 DEF MergeInv, LandedOK, MergedLanded, Ends, marks
<1>6. GateOK' BY <1>1 DEF MergeInv, GateOK, Ends, branches, marks
<1>7. RunsOK' BY <1>1, <1>2 DEF MergeInv, RunsOK, Ends, OfRun
<1> QED BY <1>3, <1>4, <1>5, <1>6, <1>7 DEF MergeInv

-----------------------------------------------------------------------------
(* The theorems.                                                            *)

LEMMA StepHolds == MergeInv /\ [Next]_vars => MergeInv'
<1> SUFFICES ASSUME MergeInv, [Next]_vars PROVE MergeInv'
  OBVIOUS
<1>1. ASSUME NEW r \in Run, RunRequest(r) PROVE MergeInv'
  BY <1>1, BeginsKeeps, SavesKeeps DEF RunRequest
<1>2. CASE (\E r \in Run : JobEnds(r)) \/ (\E s \in Stage : FollowUpEnds(s))
  BY <1>2, OutsideKeeps
<1>3. ASSUME NEW s \in Stage, AgentCommits(s) \/ Updates(s) PROVE MergeInv'
  <2>1. main \in SUBSET Commit /\ {} \in SUBSET Commit BY DEF MergeInv, TypeOK
  <2> QED BY <1>3, <2>1, AdvancesKeeps DEF AgentCommits, Updates
<1>4. ASSUME NEW m \in Merge, MergeRequest(m) PROVE MergeInv'
  BY <1>4, MergeRequestKeeps
<1>5. CASE ApplyStep
  BY <1>5, DoctorKeeps, GitReadsKeeps, UpdateRefKeeps, RecordOutcomeKeeps DEF ApplyStep
<1>6. CASE UNCHANGED vars
  <2>1. /\ UNCHANGED <<record, jobs, follow>> /\ UNCHANGED branches
        /\ UNCHANGED applying /\ UNCHANGED marks /\ UNCHANGED raised
    BY <1>6 DEF vars, ghosts
  <2>2. TypeOK' BY <2>1 DEF MergeInv, TypeOK, branches, jobs, applying, resolved, marks
  <2>3. QueueOK' BY <2>1 DEF MergeInv, QueueOK, OneApplying, Running, InGit, applying
  <2>4. LandedOK' BY <2>1 DEF MergeInv, LandedOK, MergedLanded, applying, resolved, marks
  <2>5. GateOK' BY <2>1 DEF MergeInv, GateOK, branches, applying, resolved, marks
  <2>6. RunsOK' BY <2>1 DEF MergeInv, RunsOK, jobs, applying
  <2> QED BY <2>2, <2>3, <2>4, <2>5, <2>6 DEF MergeInv
<1> QED BY <1>1, <1>2, <1>3, <1>4, <1>5, <1>6, RunStepKeeps, DeveloperKeeps, FailureKeeps DEF Next

\* The strengthened invariant: a run that is recorded has a job, a job that no run
\* names was left behind by a request that failed, a merge that calls git is recorded
\* as applying and is alone, and what git is given was gated.
THEOREM Invariance == Spec => []MergeInv
<1> QED BY InitHolds, StepHolds, PTL DEF Spec

\* The variables of runs and merges have their types.
THEOREM WellTyped == Spec => []TypeOK
<1>1. MergeInv => TypeOK BY DEF MergeInv
<1> QED BY <1>1, Invariance, PTL

\* What is reported as merged became dev/main.
THEOREM ReportedLanded == Spec => []MergedLanded
<1>1. MergeInv => MergedLanded BY DEF MergeInv, LandedOK
<1> QED BY <1>1, Invariance, PTL

\* One merge at a time is reported to be applied, also after crashes.
THEOREM Serialized == Spec => []OneApplying
<1>1. MergeInv => OneApplying BY DEF MergeInv, QueueOK
<1> QED BY <1>1, Invariance, PTL

\* Nothing gets into dev/main past the preflight while branches stand still.
THEOREM OnlyGated == Spec => []GatedOnly
<1>1. MergeInv => GatedOnly BY DEF MergeInv, GateOK, GatedOnly
<1> QED BY <1>1, Invariance, PTL

\* A run of which a job works is reported as active or held, through crashes and
\* between the steps of a request, unless a request failed that had started the job.
THEOREM RunsTold == Spec => []RunTold
<1>1. MergeInv => RunTold BY DEF MergeInv, RunsOK, RunTold
<1> QED BY <1>1, Invariance, PTL

\* dev/main is never moved back, whoever commits to it during a merge.
THEOREM MainOnlyGrows == Spec => MainGrows
<1> DEFINE A == [main \subseteq main']_main
<1>1. [Next]_vars => A
  <2> SUFFICES ASSUME [Next]_vars, main' # main PROVE main \subseteq main' OBVIOUS
  <2>1. UpdateRef \/ DeveloperCommits
    BY DEF Next, vars, branches, applying, ghosts, RunRequest, Submit, Retry, Raises, Cancel,
           Report, Pause, Resume, Goes, Saves, RunStep, RecordStart, PlanRetry, NameRetry,
           RecordCancel, Project, JobEnds, FollowUpEnds, AgentCommits, Updates, Advances,
           MergeRequest, Queue, ApplyBlocked, Apply, ApplyStep, DoctorFails, DoctorPasses,
           ResolveTarget, ResolveSource, MergeTree, MergeFails, RecordOutcome, RequestFails, Crash
  <2> QED BY <2>1 DEF UpdateRef, Lands, DeveloperCommits
<1> QED BY <1>1, PTL DEF Spec, MainGrows
=============================================================================
