-------------------------------- MODULE GitRepo --------------------------------
(***************************************************************************)
(* The repository the agents work on (src/git/ops.rs): the user's own      *)
(* checkout of it, a branch and a worktree per task, and the merge of a    *)
(* task that is Done by the configured strategy.                           *)
(*                                                                         *)
(* A branch is a tip.  `past` is the set of commits reachable from it;     *)
(* `files` are those of them whose changes its files hold: a commit of     *)
(* files that lack the change of an earlier commit takes it back.          *)
(***************************************************************************)
EXTENDS Naturals, Sequences, FiniteSets

CONSTANTS
    Task,         \* a task stands for its branch, gitzi/<id>-<slug>, too
    Main,         \* main_branch
    Topic,        \* another branch of the user's
    Gitzi,        \* the branch "gitzi"
    Nothing,      \* no task, nowhere
    Strategies,   \* values of merge_strategy that occur
    MaxCommits    \* bounds the commits after the first one, 0

ASSUME RepoAssumption ==
    /\ IsFiniteSet(Task) /\ MaxCommits \in Nat
    /\ {Main, Topic, Gitzi, Nothing} \cap Task = {}
    /\ Main # Topic /\ Gitzi \notin {Main, Topic} /\ Nothing \notin {Main, Topic, Gitzi}

Commit == 0 .. MaxCommits
Branch == Task \cup {Main, Topic, Gitzi}
Tip == [past : SUBSET Commit, files : SUBSET Commit]

VARIABLES
    branch,     \* local branches: a tip for each there is
    head,       \* the branch of the user's checkout
    tree,       \* the commits whose changes its index and files hold
    conflict,   \* an unfinished merge in it
    remote,     \* origin's branches
    strategy,   \* merge_strategy of the repository
    place,      \* per task: no agent yet, its worktree, or the user's checkout
    done,       \* the tasks in Done
    reached,    \* history: those that have been in Done
    result,     \* per task: open, or how its merge ended
    merge,      \* the fast-forward in progress, between its check and its write
    landed,     \* history: where a task's commits went, by a merge that succeeded
    made        \* history: who made each commit, and where

repoVars == <<branch, head, tree, conflict, remote, strategy, place, done, reached, result, merge,
              landed, made>>

NoTip == [past |-> {}, files |-> {}]
NoMerge == [task |-> Nothing, tip |-> NoTip, seen |-> {}]
Unmerged == [into |-> Nothing, what |-> {}]

RepoInit ==
    /\ \E other \in {{Topic}, {Topic, Gitzi}} :
          branch = [b \in {Main} \cup other |-> [past |-> {0}, files |-> {0}]]
    /\ head \in {Main, Topic}
    /\ tree = {0}
    /\ conflict = FALSE
    /\ remote = <<>>
    /\ strategy \in Strategies
    /\ place = [t \in Task |-> "none"]
    /\ done = {} /\ reached = {}
    /\ result = [t \in Task |-> "open"]
    /\ merge = NoMerge
    /\ landed = [t \in Task |-> Unmerged]
    /\ made = << >>

-----------------------------------------------------------------------------
(* Checkouts and commits                                                   *)

Exists(b) == b \in DOMAIN branch
With(f, b, tip) == [x \in DOMAIN f \cup {b} |-> IF x = b THEN tip ELSE f[x]]

\* The branches of tasks lie below "gitzi/", so they and "gitzi" exclude each
\* other.
Creatable(b) ==
    IF b = Gitzi THEN ~\E t \in Task : Exists(t) ELSE b \notin Task \/ ~Exists(Gitzi)

\* TaskWorktree::create: a registered worktree is used again; else the branch is
\* created off HEAD, if need be, and the worktree added.  A failure may leave the
\* branch behind.
CreateWorktree(t, ok) ==
    \/ /\ ok /\ place[t] = "worktree"
       /\ UNCHANGED branch
    \/ /\ place[t] # "worktree"
       /\ Exists(t) \/ Creatable(t)
       /\ branch' = IF Exists(t) THEN branch ELSE With(branch, t, branch[head])
    \/ /\ ~ok /\ place[t] # "worktree"
       /\ UNCHANGED branch

\* setup_task_worktree: whatever goes wrong, the agent is put into the user's
\* checkout.
SetupWorktree(t) ==
    \E ok \in BOOLEAN :
        /\ CreateWorktree(t, ok)
        /\ place' = [place EXCEPT ![t] = IF ok THEN "worktree" ELSE "main"]

Fresh == Len(made) + 1

\* A new commit, made by whom, on a branch whose checkout holds those files.
CommitOn(b, by, where, files) ==
    /\ Len(made) < MaxCommits
    /\ made' = Append(made, [by |-> by, where |-> where])
    /\ branch' = With(branch, b, [past  |-> branch[b].past \cup {Fresh},
                                  files |-> files \cup {Fresh}])

\* An agent runs git commit in its checkout.
AgentCommits(t) ==
    \/ /\ place[t] = "worktree"
       /\ CommitOn(t, t, "worktree", branch[t].files)
       /\ UNCHANGED tree
    \/ /\ place[t] = "main"
       /\ ~conflict
       /\ CommitOn(head, t, "main", tree)
       /\ tree' = tree \cup {Fresh}

UserCommits ==
    /\ ~conflict
    /\ CommitOn(head, Nothing, "main", tree)
    /\ tree' = tree \cup {Fresh}

\* git checkout, of a clean tree.
UserSwitches ==
    /\ ~conflict
    /\ tree = branch[head].files
    /\ head' \in {Main, Topic}
    /\ tree' = branch[head'].files

\* git merge --abort.
UserAborts ==
    /\ conflict
    /\ conflict' = FALSE
    /\ tree' = branch[head].files

-----------------------------------------------------------------------------
(* The merge of a task that is Done                                        *)

rest == <<head, remote, strategy, place, done, reached>>
Ends(t, how) == result' = [result EXCEPT ![t] = how]
Lands(t, into, what) ==
    /\ Ends(t, "merged")
    /\ landed' = [landed EXCEPT ![t] = [into |-> into, what |-> what]]

\* Mutant: the arrival in any column is taken for the arrival in Done.
DueAnywhere(t) == result[t] = "open" /\ merge = NoMerge

\* run() learns that the task has reached Done and calls attempt_merge.
Due(t) == t \in done /\ result[t] = "open" /\ merge = NoMerge

\* Mutant: only the other direction is refused.
FfCheckLax(t) ==
    /\ Due(t) /\ strategy = "ff-only"
    /\ IF ~Exists(t) THEN Ends(t, "failed") /\ UNCHANGED merge
       ELSE IF ~(branch[t].past \subseteq branch[Main].past)
       THEN /\ merge' = [task |-> t, tip |-> branch[t], seen |-> branch[Main].past]
            /\ UNCHANGED result
       ELSE Ends(t, "question") /\ UNCHANGED merge
    /\ UNCHANGED <<rest, branch, tree, conflict, landed, made>>

\* merge_ff_only looks whether the task's tip is a descendant of main's, ...
FfCheck(t) ==
    /\ Due(t) /\ strategy = "ff-only"
    /\ IF ~Exists(t) THEN Ends(t, "failed") /\ UNCHANGED merge
       ELSE IF branch[Main].past \subseteq branch[t].past /\ branch[t].past # branch[Main].past
       THEN /\ merge' = [task |-> t, tip |-> branch[t], seen |-> branch[Main].past]
            /\ UNCHANGED result
       ELSE Ends(t, "question") /\ UNCHANGED merge
    /\ UNCHANGED <<rest, branch, tree, conflict, landed, made>>

\* ... and moves main there by force, whatever main is by then.
FfWrite ==
    /\ merge # NoMerge
    /\ branch' = With(branch, Main, merge.tip)
    /\ Lands(merge.task, Main, merge.tip.past)
    /\ merge' = NoMerge
    /\ UNCHANGED <<rest, tree, conflict, made>>

\* merge_with_commit runs git merge in the user's checkout.
MergeCommit(t) ==
    /\ Due(t) /\ strategy = "merge-commit"
    /\ \/ /\ ~Exists(t) \/ conflict
          /\ Ends(t, "question")
          /\ UNCHANGED <<branch, tree, conflict, landed, made>>
       \/ /\ Exists(t) /\ ~conflict
          /\ branch[t].past \subseteq branch[head].past
          /\ Lands(t, head, branch[t].past)
          /\ UNCHANGED <<branch, tree, conflict, made>>
       \/ /\ Exists(t) /\ ~conflict
          /\ ~(branch[t].past \subseteq branch[head].past)
          /\ Len(made) < MaxCommits
          /\ made' = Append(made, [by |-> Nothing, where |-> "main"])
          /\ branch' = With(branch, head,
                 [past  |-> branch[head].past \cup branch[t].past \cup {Fresh},
                  files |-> tree \cup branch[t].files \cup {Fresh}])
          /\ tree' = branch'[head].files
          /\ Lands(t, head, branch[t].past)
          /\ UNCHANGED conflict
       \/ /\ Exists(t) /\ ~conflict
          /\ ~(branch[t].past \subseteq branch[head].past)
          /\ Ends(t, "question")
          /\ conflict' = TRUE
          /\ UNCHANGED <<branch, tree, landed, made>>
    /\ UNCHANGED <<rest, merge>>

\* git push of the task's branch.
Pushed(t) ==
    \/ /\ Exists(t)
       /\ remote' = With(remote, t, branch[t])
       /\ Lands(t, t, branch[t].past)
    \/ /\ Ends(t, "question")
       /\ UNCHANGED <<remote, landed>>

\* push_to_remote.
Push(t) ==
    /\ Due(t) /\ strategy = "push-to-remote"
    /\ Pushed(t)
    /\ UNCHANGED <<branch, head, tree, conflict, strategy, place, done, reached, merge, made>>

\* create_pull_request: what was pushed counts as merged, whether gh or glab
\* then opens a request or neither does.
PullRequest(t) ==
    /\ Due(t) /\ strategy = "pull-request"
    /\ Pushed(t)
    /\ UNCHANGED <<branch, head, tree, conflict, strategy, place, done, reached, merge, made>>

\* merge_into_gitzi_branch: "gitzi" is created at the task's tip, if it can be.
\* What the code goes on to do when both branches exist is never reached.
MergeIntoGitzi(t) ==
    /\ Due(t) /\ strategy = "gitzi-branch"
    /\ IF Exists(t) /\ Creatable(Gitzi)
       THEN branch' = With(branch, Gitzi, branch[t]) /\ Lands(t, Gitzi, branch[t].past)
       ELSE Ends(t, "failed") /\ UNCHANGED <<branch, landed>>
    /\ UNCHANGED <<rest, tree, conflict, merge, made>>

\* attempt_merge, by the strategy of the repository.
MergeStep ==
    \/ FfWrite
    \/ \E t \in Task : \/ FfCheck(t) \/ MergeCommit(t) \/ MergeIntoGitzi(t)
                       \/ PullRequest(t) \/ Push(t)

-----------------------------------------------------------------------------
(* Properties                                                              *)

RepoTypeOK ==
    /\ DOMAIN branch \subseteq Branch /\ \A b \in DOMAIN branch : branch[b] \in Tip
    /\ DOMAIN remote \subseteq Task /\ \A b \in DOMAIN remote : remote[b] \in Tip
    /\ head \in {Main, Topic} /\ Exists(head)
    /\ tree \subseteq Commit
    /\ conflict \in BOOLEAN
    /\ strategy \in Strategies
    /\ done \subseteq Task /\ reached \subseteq Task
    /\ place \in [Task -> {"none", "worktree", "main"}]
    /\ result \in [Task -> {"open", "merged", "question", "failed"}]
    /\ merge.task \in Task \cup {Nothing} /\ merge.tip \in Tip /\ merge.seen \subseteq Commit
    /\ landed \in [Task -> [into : Branch \cup {Nothing}, what : SUBSET Commit]]

\* No branch loses a commit, whoever else commits, checks out or merges, except
\* that a forced fast-forward of main may lose what came to main after it had
\* been checked (merge_ff_only).
HistoryKept ==
    [][\A b \in DOMAIN branch :
          /\ b \in DOMAIN branch'
          /\ branch[b].past \subseteq branch'[b].past
             \/ (b = Main /\ merge # NoMerge /\ merge.seen \subseteq branch'[b].past)]_repoVars

\* A task reported as merged is merged, and stays so: its commits are in the
\* history of the branch they went to, or in origin's branch of the task,
\* whatever is merged and committed later (attempt_merge).
Landed ==
    \A t \in Task : landed[t] # Unmerged =>
        LET where == IF landed[t].into \in Task THEN remote ELSE branch
        IN  /\ landed[t].into \in DOMAIN where
            /\ landed[t].what \subseteq where[landed[t].into].past

\* Code reaches the user's branches through Done only: a commit an agent made
\* in its worktree is neither in main nor in another branch of the user's until
\* its task has been in Done, although branches fork off the user's and off each other
\* through it (setup_task_worktree, attempt_merge).
OnlyDoneWork ==
    \A b \in DOMAIN branch \ Task : \A c \in branch[b].past \ {0} :
        made[c].by # Nothing /\ made[c].where = "worktree" => made[c].by \in reached

\* Moving main is safe as it is a strict fast-forward: the work that has been
\* merged into main remains in main's files when the user goes on committing.
FfSafe ==
    \A t \in Task : landed[t].into = Main => landed[t].what \subseteq branch[Main].files
================================================================================
