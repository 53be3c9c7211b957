---------------------------- MODULE AgentWorkProofs ----------------------------
(***************************************************************************)
(* Theorems about agents at work on a repository: what the merge and the   *)
(* user's own commits may never do to it, and what a coding agent sends to *)
(* its model.                                                              *)
(***************************************************************************)
EXTENDS AgentWork, FiniteSetTheorems, SequenceTheorems, TLAPS

-----------------------------------------------------------------------------
(* The shape of the repository.                                            *)

Author == [by : Task \cup {Nothing}, where : {"main", "worktree"}]

\* Main and the user's other branch are always there, a worktree has its
\* branch, and branches hold commits that were made.
RepoShape ==
    /\ RepoTypeOK
    /\ Main \in DOMAIN branch /\ Topic \in DOMAIN branch
    /\ \A t \in Task : place[t] = "worktree" => Exists(t)
    /\ made \in Seq(Author) /\ Len(made) <= MaxCommits
    /\ \A b \in DOMAIN branch : branch[b].past \subseteq 0 .. Len(made)
    /\ merge.tip.past \subseteq 0 .. Len(made)
    /\ done \subseteq reached
    /\ merge # NoMerge => merge.task \in reached

\* An agent's work outside Done is in no branch but its own, and not in what
\* main is about to be moved to.
Unfinished(c) ==
    made[c].by # Nothing /\ made[c].where = "worktree" /\ made[c].by \notin reached

OwnWork ==
    /\ \A b \in DOMAIN branch : \A c \in branch[b].past \ {0} : Unfinished(c) => made[c].by = b
    /\ merge # NoMerge => \A c \in merge.tip.past \ {0} : ~Unfinished(c)

\* What has landed in main was seen by the check of the fast-forward in
\* progress, and is in what main is moved to; what was pushed went to the
\* task's own branch.
Ahead ==
    /\ merge # NoMerge =>
          /\ merge.seen \subseteq merge.tip.past
          /\ \A t \in Task : landed[t].into = Main => landed[t].what \subseteq merge.seen
    /\ \A t \in Task : landed[t].into \in Task => landed[t].into = t

RepoInv == RepoShape /\ OwnWork /\ Landed /\ Ahead

LEMMA RepoFacts ==
    /\ \A t \in Task : t \notin {Main, Topic, Gitzi, Nothing}
    /\ Main # Topic /\ Gitzi \notin {Main, Topic} /\ Nothing \notin {Main, Topic, Gitzi}
    /\ MaxCommits \in Nat
BY RepoAssumption

\* The body of HistoryKept.
Kept ==
    \A b \in DOMAIN branch :
        /\ b \in DOMAIN branch'
        /\ \/ branch[b].past \subseteq branch'[b].past
           \/ b = Main /\ merge # NoMerge /\ merge.seen \subseteq branch'[b].past

-----------------------------------------------------------------------------
(* Steps of the repository.                                                *)

\* A commit on a branch there is, by the branch's own agent if it is one in a
\* worktree.
LEMMA CommitStep ==
    ASSUME RepoInv, NEW b \in DOMAIN branch, NEW by \in Task \cup {Nothing},
           NEW where \in {"main", "worktree"}, NEW files \in SUBSET Commit,
           CommitOn(b, by, where, files), where = "worktree" => by = b,
           tree' \subseteq Commit, conflict' \in BOOLEAN,
           UNCHANGED <<head, remote, strategy, place, done, reached, result, merge, landed>>
    PROVE  RepoInv' /\ Kept
<1> DEFINE new == [past |-> branch[b].past \cup {Fresh}, files |-> files \cup {Fresh}]
<1>1. /\ made \in Seq(Author) /\ Len(made) \in Nat /\ Fresh = Len(made) + 1
      /\ Fresh \in Commit /\ MaxCommits \in Nat
      /\ \A d \in DOMAIN branch : branch[d] \in Tip /\ branch[d].past \subseteq 0 .. Len(made)
  BY RepoFacts DEF RepoInv, RepoShape, RepoTypeOK, Commit, CommitOn, Fresh
<1>0. PICK n \in Nat : n = Fresh
  BY <1>1
<1>2. /\ DOMAIN branch' = DOMAIN branch
      /\ branch'[b] = new
      /\ \A d \in DOMAIN branch \ {b} : branch'[d] = branch[d]
  <2>1. branch' = With(branch, b, new)
    BY DEF CommitOn
  <2> HIDE DEF new
  <2>2. DOMAIN branch' = DOMAIN branch \cup {b} /\ branch'[b] = new
    BY <2>1 DEF With
  <2>3. \A x \in DOMAIN branch \ {b} : branch'[x] = branch[x]
    BY <2>1 DEF With
  <2> QED BY <2>2, <2>3
<1>3. /\ made' = Append(made, [by |-> by, where |-> where])
      /\ made' \in Seq(Author) /\ Len(made') = Len(made) + 1 /\ Len(made') <= MaxCommits
      /\ \A c \in 1 .. Len(made) : made'[c] = made[c]
      /\ made'[Fresh] = [by |-> by, where |-> where]
  BY <1>1 DEF CommitOn, Author
<1>4. new \in Tip /\ new.past = branch[b].past \cup {Fresh}
  BY <1>1 DEF Tip, Commit
<1> HIDE DEF new
<1>5. RepoTypeOK'
  <2>1. \A d \in DOMAIN branch' : branch'[d] \in Tip
    BY <1>1, <1>2, <1>4
  <2> QED BY <2>1, <1>2 DEF RepoInv, RepoShape, RepoTypeOK, Exists
<1>6. /\ \A d \in DOMAIN branch' : branch'[d].past \subseteq 0 .. Len(made')
      /\ merge.tip.past \subseteq 0 .. Len(made')
  BY <1>1, <1>2, <1>3, <1>4 DEF RepoInv, RepoShape
<1>7. RepoShape'
  BY <1>2, <1>3, <1>5, <1>6 DEF RepoInv, RepoShape, Exists
<1>8. OwnWork'
  <2>1. \A c \in 1 .. Len(made) : Unfinished(c)' = Unfinished(c)
    BY <1>3 DEF Unfinished
  <2>2. Unfinished(n)' => made'[n].by = b
    <3>1. made'[n] = [by |-> by, where |-> where]
      BY <1>0, <1>3
    <3>2. made'[n].by = by /\ made'[n].where = where
      BY <3>1
    <3> QED BY <3>2 DEF Unfinished
  <2>3. \A d \in DOMAIN branch : \A c \in branch[d].past \ {0} : c \in 1 .. Len(made)
    BY <1>1
  <2>4. \A c \in merge.tip.past \ {0} : c \in 1 .. Len(made)
    BY <1>1 DEF RepoInv, RepoShape
  <2>5. ASSUME NEW d \in DOMAIN branch', NEW c \in branch'[d].past \ {0}, Unfinished(c)'
        PROVE  made'[c].by = d
    <3>1. CASE c = n
      <4>1. d = b
        BY <1>0, <1>1, <1>2, <3>1
      <4> QED BY <2>2, <2>5, <3>1, <4>1
    <3>2. CASE c # n
      <4>1. c \in branch[d].past \ {0} /\ d \in DOMAIN branch
        BY <1>0, <1>2, <1>4, <2>5, <3>2
      <4> QED BY <2>1, <2>3, <2>5, <4>1, <1>3 DEF RepoInv, OwnWork
    <3> QED BY <3>1, <3>2
  <2> QED BY <2>1, <2>4, <2>5 DEF RepoInv, OwnWork
<1>9. Landed' /\ Ahead' /\ Kept
  BY <1>2, <1>4 DEF RepoInv, Landed, Ahead, Kept
<1> QED BY <1>7, <1>8, <1>9 DEF RepoInv

\* An agent's checkout is made: its branch is new and starts where the user is,
\* on a branch without unfinished work.
LEMMA SetupStep ==
    ASSUME RepoInv, NEW t \in Task, SetupWorktree(t),
           UNCHANGED <<head, tree, conflict, remote, strategy, done, reached, result, merge,
                       landed, made>>
    PROVE  RepoInv' /\ Kept
<1>1. PICK ok \in BOOLEAN :
         /\ CreateWorktree(t, ok)
         /\ place' = [place EXCEPT ![t] = IF ok THEN "worktree" ELSE "main"]
  BY DEF SetupWorktree
<1>2. head \in DOMAIN branch /\ head \notin Task /\ branch[head] \in Tip
  BY RepoFacts DEF RepoInv, RepoShape, RepoTypeOK, Exists
<1>3. /\ DOMAIN branch \subseteq DOMAIN branch' /\ DOMAIN branch' \subseteq DOMAIN branch \cup {t}
      /\ \A b \in DOMAIN branch : branch'[b] = branch[b]
      /\ t \in DOMAIN branch' \ DOMAIN branch => branch'[t] = branch[head]
      /\ ok => t \in DOMAIN branch'
  BY <1>1 DEF CreateWorktree, With, Exists, RepoInv, RepoShape
<1>4. \A b \in DOMAIN branch' :
         \/ b \in DOMAIN branch /\ branch'[b] = branch[b]
         \/ b = t /\ branch'[b] = branch[head]
  BY <1>3
<1>5. RepoTypeOK'
  <2>1. place' \in [Task -> {"none", "worktree", "main"}]
    BY <1>1 DEF RepoInv, RepoShape, RepoTypeOK
  <2>2. DOMAIN branch' \subseteq Branch /\ \A b \in DOMAIN branch' : branch'[b] \in Tip
    BY <1>2, <1>4 DEF RepoInv, RepoShape, RepoTypeOK, Branch
  <2> QED BY <1>2, <1>3, <2>1, <2>2 DEF RepoInv, RepoShape, RepoTypeOK, Exists
<1>6. RepoShape'
  <2>1. \A u \in Task : place'[u] = "worktree" => u \in DOMAIN branch'
    BY <1>1, <1>3 DEF RepoInv, RepoShape, RepoTypeOK, Exists
  <2>2. \A b \in DOMAIN branch' : branch'[b].past \subseteq 0 .. Len(made)
    BY <1>2, <1>4 DEF RepoInv, RepoShape
  <2> QED BY <1>3, <1>5, <2>1, <2>2 DEF RepoInv, RepoShape, Exists
<1>7. OwnWork'
  <2>1. \A c \in branch[head].past \ {0} : ~Unfinished(c)
    <3>1. SUFFICES ASSUME NEW c \in branch[head].past \ {0}, Unfinished(c)
                   PROVE  FALSE
      OBVIOUS
    <3>2. made[c].by = head
      BY <1>2, <3>1 DEF RepoInv, OwnWork
    <3>3. c \in 1 .. Len(made) /\ made \in Seq(Author)
      BY <1>2, <3>1 DEF RepoInv, RepoShape
    <3>4. made[c] \in Author
      BY <3>3
    <3> QED BY <1>2, <3>1, <3>2, <3>4 DEF Unfinished, Author
  <2>2. \A c : Unfinished(c)' <=> Unfinished(c)
    BY DEF Unfinished
  <2> QED BY <1>4, <2>1, <2>2 DEF RepoInv, OwnWork
<1>8. Landed' /\ Ahead' /\ Kept
  BY <1>3 DEF RepoInv, Landed, Ahead, Kept
<1> QED BY <1>6, <1>7, <1>8 DEF RepoInv

\* Steps that leave branches and commits alone, and may end a merge.
LEMMA QuietRepo ==
    ASSUME RepoInv, RepoTypeOK', done' \subseteq reached', reached \subseteq reached',
           merge' \in {merge, NoMerge},
           UNCHANGED <<branch, remote, place, made, landed>>
    PROVE  RepoInv' /\ Kept
<1>1. NoMerge.tip.past = {}
  BY DEF NoMerge, NoTip
<1>2. \A c : Unfinished(c)' => Unfinished(c)
  BY DEF Unfinished
<1>3. RepoShape'
  BY <1>1 DEF RepoInv, RepoShape, Exists
<1>4. OwnWork'
  BY <1>2 DEF RepoInv, OwnWork
<1>5. Landed' /\ Ahead' /\ Kept
  BY DEF RepoInv, Landed, Ahead, Kept
<1> QED BY <1>3, <1>4, <1>5 DEF RepoInv

\* A task that is Done has no unfinished work on its branch.
LEMMA DoneWork ==
    ASSUME RepoInv, NEW t \in reached, t \in DOMAIN branch
    PROVE  \A c \in branch[t].past \ {0} : ~Unfinished(c)
BY DEF RepoInv, OwnWork, Unfinished

-----------------------------------------------------------------------------
(* Merges.                                                                 *)

LEMMA FfCheckStep ==
    ASSUME RepoInv, NEW t \in Task, FfCheck(t)
    PROVE  RepoInv' /\ Kept
<1>1. /\ UNCHANGED <<head, remote, strategy, place, done, reached, branch, tree, conflict, landed,
                     made>>
      /\ t \in done /\ merge = NoMerge /\ t \in reached
      /\ result' \in [Task -> {"open", "merged", "question", "failed"}]
  BY DEF FfCheck, rest, Due, Ends, RepoInv, RepoShape, RepoTypeOK
<1>2. CASE merge' = merge
  BY <1>1, <1>2, QuietRepo DEF RepoInv, RepoShape, RepoTypeOK, Exists
<1>3. CASE /\ t \in DOMAIN branch
           /\ branch[Main].past \subseteq branch[t].past
           /\ merge' = [task |-> t, tip |-> branch[t], seen |-> branch[Main].past]
  <2>1. /\ merge'.task = t /\ merge'.tip = branch[t] /\ merge'.seen = branch[Main].past
        /\ branch[t] \in Tip /\ branch[Main] \in Tip
    BY <1>3 DEF RepoInv, RepoShape, RepoTypeOK
  <2>2. RepoTypeOK'
    BY <1>1, <2>1 DEF RepoInv, RepoShape, RepoTypeOK, Exists, Tip
  <2>3. RepoShape'
    BY <1>1, <1>3, <2>1, <2>2 DEF RepoInv, RepoShape, Exists
  <2>4. OwnWork'
    <3>1. \A c : Unfinished(c)' <=> Unfinished(c)
      BY <1>1 DEF Unfinished
    <3> QED BY <1>1, <1>3, <2>1, <3>1, DoneWork DEF RepoInv, OwnWork
  <2>5. \A u \in Task : landed[u].into = Main => landed[u].what \subseteq branch[Main].past
    BY RepoFacts DEF RepoInv, Landed, Unmerged
  <2>6. Landed' /\ Ahead' /\ Kept
    BY <1>1, <1>3, <2>1, <2>5 DEF RepoInv, Landed, Ahead, Kept
  <2> QED BY <2>3, <2>4, <2>6 DEF RepoInv
<1> QED BY <1>1, <1>2, <1>3 DEF FfCheck, Exists

\* Main is moved by force: what had landed there is in the task's tip.
LEMMA FfWriteStep ==
    ASSUME RepoInv, FfWrite
    PROVE  RepoInv' /\ Kept
<1> DEFINE t == merge.task
<1>1. /\ branch' = With(branch, Main, merge.tip)
      /\ merge # NoMerge /\ merge' = NoMerge
      /\ result' = [result EXCEPT ![t] = "merged"]
      /\ landed' = [landed EXCEPT ![t] = [into |-> Main, what |-> merge.tip.past]]
      /\ UNCHANGED <<head, remote, strategy, place, done, reached, tree, conflict, made>>
      /\ t \in Task /\ merge.tip \in Tip /\ Main \in DOMAIN branch
  BY DEF FfWrite, rest, Lands, Ends, RepoInv, RepoShape, RepoTypeOK
<1>2. /\ DOMAIN branch' = DOMAIN branch
      /\ branch'[Main] = merge.tip
      /\ \A b \in DOMAIN branch \ {Main} : branch'[b] = branch[b]
  BY <1>1 DEF With
<1>3. NoMerge.tip.past = {} /\ NoMerge.tip \in Tip /\ NoMerge.task = Nothing /\ NoMerge.seen = {}
  BY DEF NoMerge, NoTip, Tip
<1>4. /\ landed'[t] = [into |-> Main, what |-> merge.tip.past]
      /\ \A u \in Task \ {t} : landed'[u] = landed[u]
      /\ landed' \in [Task -> [into : Branch \cup {Nothing}, what : SUBSET Commit]]
  BY <1>1 DEF RepoInv, RepoShape, RepoTypeOK, Branch, Tip
<1>5. RepoTypeOK'
  <2>1. \A b \in DOMAIN branch' : branch'[b] \in Tip
    BY <1>1, <1>2 DEF RepoInv, RepoShape, RepoTypeOK
  <2>2. result' \in [Task -> {"open", "merged", "question", "failed"}]
    BY <1>1 DEF RepoInv, RepoShape, RepoTypeOK
  <2> QED BY <1>1, <1>2, <1>3, <1>4, <2>1, <2>2 DEF RepoInv, RepoShape, RepoTypeOK, Exists
<1>6. RepoShape'
  <2>1. \A b \in DOMAIN branch' : branch'[b].past \subseteq 0 .. Len(made)
    BY <1>1, <1>2 DEF RepoInv, RepoShape
  <2> QED BY <1>1, <1>2, <1>3, <1>5, <2>1 DEF RepoInv, RepoShape, Exists
<1>7. OwnWork'
  <2>1. \A c : Unfinished(c)' <=> Unfinished(c)
    BY <1>1 DEF Unfinished
  <2> QED BY <1>1, <1>2, <2>1 DEF RepoInv, OwnWork
<1>8. Ahead' /\ Kept
  <2>1. t # Main /\ Main \notin Task
    BY <1>1, RepoFacts
  <2> QED BY <1>1, <1>2, <1>4, <2>1 DEF RepoInv, Ahead, Kept
<1>9. Landed'
  <2> SUFFICES ASSUME NEW u \in Task, landed'[u] # Unmerged
               PROVE  \/ /\ landed'[u].into \in Task
                         /\ landed'[u].into \in DOMAIN remote
                         /\ landed'[u].what \subseteq remote[landed'[u].into].past
                      \/ /\ landed'[u].into \notin Task
                         /\ landed'[u].into \in DOMAIN branch'
                         /\ landed'[u].what \subseteq branch'[landed'[u].into].past
    BY <1>1 DEF Landed
  <2>1. CASE u = t
    BY <1>1, <1>2, <1>4, <2>1, RepoFacts
  <2>2. CASE u # t /\ landed[u].into = Main
    BY <1>1, <1>2, <1>4, <2>2, RepoFacts DEF RepoInv, Ahead
  <2>3. CASE u # t /\ landed[u].into # Main
    BY <1>2, <1>4, <2>3 DEF RepoInv, Landed
  <2> QED BY <2>1, <2>2, <2>3
<1> QED BY <1>6, <1>7, <1>8, <1>9 DEF RepoInv

\* A task ends otherwise than merged.
LEMMA EndsStep ==
    ASSUME RepoInv, NEW t \in Task, NEW how \in {"question", "failed"}, Ends(t, how),
           conflict' \in BOOLEAN,
           UNCHANGED <<branch, head, tree, remote, strategy, place, done, reached, merge, landed,
                       made>>
    PROVE  RepoInv' /\ Kept
<1>1. RepoTypeOK'
  BY DEF Ends, RepoInv, RepoShape, RepoTypeOK, Exists
<1>2. done' \subseteq reached'
  BY DEF RepoInv, RepoShape
<1> QED BY <1>1, <1>2, QuietRepo

\* It is merged into the branch the user is on: into can be head alone.
LEMMA MergedStep ==
    ASSUME RepoInv, NEW t \in Task, Lands(t, head, branch[t].past), t \in DOMAIN branch,
           merge = NoMerge,
           DOMAIN branch' = DOMAIN branch,
           \A b \in DOMAIN branch : branch[b].past \subseteq branch'[b].past,
           branch[t].past \subseteq branch'[head].past,
           RepoShape', OwnWork',
           UNCHANGED <<head, remote, merge>>
    PROVE  RepoInv' /\ Kept
<1>1. /\ landed' = [landed EXCEPT ![t] = [into |-> head, what |-> branch[t].past]]
      /\ head \in DOMAIN branch /\ head \notin Task /\ branch[t] \in Tip
      /\ landed \in [Task -> [into : Branch \cup {Nothing}, what : SUBSET Commit]]
  BY RepoFacts DEF Lands, RepoInv, RepoShape, RepoTypeOK, Exists
<1>2. /\ landed'[t].into = head /\ landed'[t].what = branch[t].past
      /\ \A u \in Task \ {t} : landed'[u] = landed[u]
  BY <1>1
<1>3. Landed'
  <2> SUFFICES ASSUME NEW u \in Task, landed'[u] # Unmerged
               PROVE  \/ /\ landed'[u].into \in Task
                         /\ landed'[u].into \in DOMAIN remote
                         /\ landed'[u].what \subseteq remote[landed'[u].into].past
                      \/ /\ landed'[u].into \notin Task
                         /\ landed'[u].into \in DOMAIN branch'
                         /\ landed'[u].what \subseteq branch'[landed'[u].into].past
    BY DEF Landed
  <2>1. CASE u = t
    BY <1>1, <1>2, <2>1
  <2>2. CASE u # t
    BY <1>2, <2>2 DEF RepoInv, Landed
  <2> QED BY <2>1, <2>2
<1>4. Ahead' /\ Kept
  BY <1>1, <1>2 DEF RepoInv, Ahead, Kept
<1> QED BY <1>3, <1>4 DEF RepoInv

LEMMA MergeCommitStep ==
    ASSUME RepoInv, NEW t \in Task, MergeCommit(t)
    PROVE  RepoInv' /\ Kept
<1>1. /\ UNCHANGED <<head, remote, strategy, place, done, reached, merge>>
      /\ merge = NoMerge /\ t \in done /\ t \in reached
      /\ head \in DOMAIN branch /\ head \notin Task /\ branch[head] \in Tip
  BY RepoFacts DEF MergeCommit, rest, Due, RepoInv, RepoShape, RepoTypeOK, Exists
<1>2. CASE Ends(t, "question") /\ conflict' \in BOOLEAN /\ UNCHANGED <<branch, tree, landed, made>>
  BY <1>1, <1>2, EndsStep
<1>3. CASE /\ t \in DOMAIN branch /\ branch[t].past \subseteq branch[head].past
           /\ Lands(t, head, branch[t].past)
           /\ UNCHANGED <<branch, tree, conflict, made>>
  <2>1. /\ result' \in [Task -> {"open", "merged", "question", "failed"}]
        /\ landed' \in [Task -> [into : Branch \cup {Nothing}, what : SUBSET Commit]]
    BY <1>1, <1>3 DEF Lands, Ends, RepoInv, RepoShape, RepoTypeOK, Tip
  <2>2. RepoTypeOK'
    BY <1>1, <1>3, <2>1 DEF RepoInv, RepoShape, RepoTypeOK, Exists
  <2>3. RepoShape'
    BY <1>1, <1>3, <2>2 DEF RepoInv, RepoShape, Exists
  <2>4. OwnWork'
    <3>1. \A c : Unfinished(c)' <=> Unfinished(c)
      BY <1>1, <1>3 DEF Unfinished
    <3> QED BY <1>1, <1>3, <3>1 DEF RepoInv, OwnWork
  <2> QED BY <1>1, <1>3, <2>3, <2>4, MergedStep
<1> DEFINE new == [past  |-> branch[head].past \cup branch[t].past \cup {Fresh},
                   files |-> tree \cup branch[t].files \cup {Fresh}]
<1>4. CASE /\ t \in DOMAIN branch
           /\ Len(made) < MaxCommits
           /\ made' = Append(made, [by |-> Nothing, where |-> "main"])
           /\ branch' = With(branch, head, new)
           /\ tree' = branch'[head].files
           /\ Lands(t, head, branch[t].past)
           /\ UNCHANGED conflict
  <2>1. PICK n \in Nat : n = Fresh
    BY DEF Fresh, RepoInv, RepoShape
  <2>2. /\ made \in Seq(Author) /\ n = Len(made) + 1 /\ n \in Commit /\ MaxCommits \in Nat
        /\ \A b \in DOMAIN branch : branch[b] \in Tip /\ branch[b].past \subseteq 0 .. Len(made)
    BY <1>4, <2>1, RepoFacts DEF Fresh, RepoInv, RepoShape, RepoTypeOK, Commit
  <2>3. /\ new \in Tip /\ new.past = branch[head].past \cup branch[t].past \cup {n}
    <3>1. branch[head] \in Tip /\ branch[t] \in Tip /\ tree \subseteq Commit
      BY <1>1, <1>4, <2>2 DEF RepoInv, RepoShape, RepoTypeOK
    <3>2. new = [past  |-> branch[head].past \cup branch[t].past \cup {n},
                 files |-> tree \cup branch[t].files \cup {n}]
      BY <2>1
    <3> QED BY <2>2, <3>1, <3>2 DEF Tip
  <2>4. /\ DOMAIN branch' = DOMAIN branch
        /\ branch'[head] = new
        /\ \A b \in DOMAIN branch \ {head} : branch'[b] = branch[b]
    <3> HIDE DEF new
    <3> QED BY <1>1, <1>4 DEF With
  <2> HIDE DEF new
  <2>5. [by |-> Nothing, where |-> "main"] \in Author
    BY DEF Author
  <2>6. /\ made' \in Seq(Author) /\ Len(made') = n /\ n <= MaxCommits
        /\ \A c \in 1 .. Len(made) : made'[c] = made[c]
        /\ made'[n] = [by |-> Nothing, where |-> "main"]
    BY <1>4, <2>2, <2>5
  <2>7. RepoTypeOK'
    <3>1. /\ result' \in [Task -> {"open", "merged", "question", "failed"}]
          /\ landed' \in [Task -> [into : Branch \cup {Nothing}, what : SUBSET Commit]]
      BY <1>1, <1>4 DEF Lands, Ends, RepoInv, RepoShape, RepoTypeOK, Tip
    <3>2. \A b \in DOMAIN branch' : branch'[b] \in Tip
      BY <2>2, <2>3, <2>4
    <3>3. tree' \subseteq Commit
      BY <1>4, <2>3, <2>4 DEF Tip
    <3> QED BY <1>1, <1>4, <2>4, <3>1, <3>2, <3>3 DEF RepoInv, RepoShape, RepoTypeOK, Exists
  <2>8. RepoShape'
    <3>1. \A b \in DOMAIN branch' : branch'[b].past \subseteq 0 .. Len(made')
      BY <1>1, <1>4, <2>2, <2>3, <2>4, <2>6
    <3>2. merge.tip.past \subseteq 0 .. Len(made')
      BY <2>2, <2>6 DEF RepoInv, RepoShape
    <3> QED BY <1>1, <2>4, <2>6, <2>7, <3>1, <3>2 DEF RepoInv, RepoShape, Exists
  <2>9. OwnWork'
    <3>1. \A c \in 1 .. Len(made) : Unfinished(c)' = Unfinished(c)
      BY <1>1, <2>6 DEF Unfinished
    <3>2. ~Unfinished(n)'
      <4>1. made'[n].where = "main"
        BY <2>6
      <4> QED BY <4>1 DEF Unfinished
    <3>3. ASSUME NEW b \in DOMAIN branch', NEW c \in branch'[b].past \ {0}, Unfinished(c)'
          PROVE  made'[c].by = b
      <4>1. c # n
        BY <3>2, <3>3
      <4>2. CASE c \in branch[b].past
        BY <2>2, <2>4, <2>6, <3>1, <3>3, <4>2 DEF RepoInv, OwnWork
      <4>3. CASE c \notin branch[b].past
        <5>1. c \in branch[t].past \ {0}
          BY <2>3, <2>4, <3>3, <4>1, <4>3
        <5>2. c \in 1 .. Len(made)
          BY <1>4, <2>2, <5>1
        <5> QED BY <1>1, <1>4, <3>1, <3>3, <5>1, <5>2, DoneWork
      <4> QED BY <4>2, <4>3
    <3> QED BY <1>1, <3>3 DEF OwnWork
  <2>10. /\ \A b \in DOMAIN branch : branch[b].past \subseteq branch'[b].past
         /\ branch[t].past \subseteq branch'[head].past
    BY <2>3, <2>4
  <2> QED BY <1>1, <1>4, <2>4, <2>8, <2>9, <2>10, MergedStep
<1>5. conflict \in BOOLEAN
  BY DEF RepoInv, RepoShape, RepoTypeOK
<1> QED BY <1>2, <1>3, <1>4, <1>5 DEF MergeCommit, Exists

\* What is pushed is the task's branch, which only grows.
LEMMA PushStep ==
    ASSUME RepoInv, NEW t \in Task, Push(t) \/ PullRequest(t)
    PROVE  RepoInv' /\ Kept
<1>1. /\ UNCHANGED <<branch, head, tree, conflict, strategy, place, done, reached, merge, made>>
      /\ merge = NoMerge /\ Pushed(t)
  BY DEF Push, PullRequest, Due
<1>2. CASE Ends(t, "question") /\ UNCHANGED <<remote, landed>>
  BY <1>1, <1>2, EndsStep DEF RepoInv, RepoShape, RepoTypeOK
<1>3. CASE /\ t \in DOMAIN branch
           /\ remote' = With(remote, t, branch[t])
           /\ Lands(t, t, branch[t].past)
  <2>1. /\ DOMAIN remote' = DOMAIN remote \cup {t} /\ remote'[t] = branch[t]
        /\ \A u \in DOMAIN remote \ {t} : remote'[u] = remote[u]
    BY <1>3 DEF With
  <2>2. /\ landed' = [landed EXCEPT ![t] = [into |-> t, what |-> branch[t].past]]
        /\ branch[t] \in Tip
        /\ landed \in [Task -> [into : Branch \cup {Nothing}, what : SUBSET Commit]]
    BY <1>3 DEF Lands, RepoInv, RepoShape, RepoTypeOK
  <2>3. /\ landed'[t].into = t /\ landed'[t].what = branch[t].past
        /\ \A u \in Task \ {t} : landed'[u] = landed[u]
        /\ landed' \in [Task -> [into : Branch \cup {Nothing}, what : SUBSET Commit]]
    BY <2>2 DEF Branch, Tip
  <2>4. RepoTypeOK'
    <3>1. result' \in [Task -> {"open", "merged", "question", "failed"}]
      BY <1>3 DEF Lands, Ends, RepoInv, RepoShape, RepoTypeOK
    <3>2. DOMAIN remote' \subseteq Task /\ \A u \in DOMAIN remote' : remote'[u] \in Tip
      BY <2>1, <2>2 DEF RepoInv, RepoShape, RepoTypeOK
    <3> QED BY <1>1, <2>3, <3>1, <3>2 DEF RepoInv, RepoShape, RepoTypeOK, Exists
  <2>5. RepoShape'
    BY <1>1, <2>4 DEF RepoInv, RepoShape, Exists
  <2>6. OwnWork'
    <3>1. \A c : Unfinished(c)' <=> Unfinished(c)
      BY <1>1 DEF Unfinished
    <3> QED BY <1>1, <3>1 DEF RepoInv, OwnWork
  <2>7. Landed'
    <3> SUFFICES ASSUME NEW u \in Task, landed'[u] # Unmerged
                 PROVE  \/ /\ landed'[u].into \in Task
                           /\ landed'[u].into \in DOMAIN remote'
                           /\ landed'[u].what \subseteq remote'[landed'[u].into].past
                        \/ /\ landed'[u].into \notin Task
                           /\ landed'[u].into \in DOMAIN branch
                           /\ landed'[u].what \subseteq branch[landed'[u].into].past
      BY <1>1 DEF Landed
    <3>1. CASE u = t
      BY <2>1, <2>3, <3>1
    <3>2. CASE u # t
      <4>1. landed[u].into \in Task => landed[u].into = u
        BY DEF RepoInv, Ahead
      <4> QED BY <2>1, <2>3, <3>2, <4>1 DEF RepoInv, Landed
    <3> QED BY <3>1, <3>2
  <2>8. Ahead' /\ Kept
    BY <1>1, <2>3 DEF RepoInv, Ahead, Kept
  <2> QED BY <2>5, <2>6, <2>7, <2>8 DEF RepoInv
<1> QED BY <1>1, <1>2, <1>3 DEF Pushed, Exists

\* A task that has a branch keeps "gitzi" from being created.
LEMMA GitziStep ==
    ASSUME RepoInv, NEW t \in Task, MergeIntoGitzi(t)
    PROVE  RepoInv' /\ Kept
<1>1. ~(Exists(t) /\ Creatable(Gitzi))
  BY DEF Creatable
<1>2. conflict \in BOOLEAN
  BY DEF RepoInv, RepoShape, RepoTypeOK
<1>3. /\ Ends(t, "failed")
      /\ UNCHANGED <<branch, head, tree, conflict, remote, strategy, place, done, reached, merge,
                     landed, made>>
  BY <1>1 DEF MergeIntoGitzi, rest
<1> QED BY <1>2, <1>3, EndsStep

-----------------------------------------------------------------------------
(* Conversations.                                                          *)

IsStart(m, i) == i \in 3 .. Len(m) /\ m[i].role = "assistant"

\* A reply has its answer before it.
HasCall(m, i) ==
    /\ m[i].n >= 1
    /\ IsStart(m, i - m[i].n)
    /\ m[i - m[i].n].round = m[i].round
    /\ m[i].n <= m[i - m[i].n].n

\* After an answer come the replies to its calls, in their order, and nothing
\* between them.
HasReplies(m, j) ==
    /\ m[j].n \in 1 .. MaxCalls
    /\ \A k \in 1 .. m[j].n : j + k <= Len(m) =>
          m[j + k] = [role |-> "tool", round |-> m[j].round, n |-> k]

\* After the preamble, answers with tool calls and replies; the answers are of
\* later and later rounds.
Told(m) ==
    /\ m \in Seq(Message) /\ Len(m) >= 2
    /\ m[1] = Preamble[1] /\ m[2] = Preamble[2]
    /\ \A i \in 3 .. Len(m) : m[i].role \in {"assistant", "tool"}
    /\ \A i \in 3 .. Len(m) : m[i].role = "tool" => HasCall(m, i)
    /\ \A j \in 3 .. Len(m) : m[j].role = "assistant" => HasReplies(m, j)
    /\ \A j, k \in 3 .. Len(m) :
          m[j].role = "assistant" /\ m[k].role = "assistant" /\ j < k => m[j].round < m[k].round

\* The answer at j has all its replies, and is of an earlier round.
Answered(m, j, round) == j + m[j].n <= Len(m) /\ m[j].round < round

\* The replies to the answer at c are being added, next by next.
Replying(m, round, next) ==
    LET c == Len(m) + 1 - next
    IN  /\ IsStart(m, c)
        /\ m[c].round = round
        /\ next <= m[c].n
        /\ \A j \in 3 .. Len(m) : j # c /\ m[j].role = "assistant" => Answered(m, j, round)

AllAnswered(m, round) ==
    \A j \in 3 .. Len(m) : m[j].role = "assistant" => Answered(m, j, round)

Talk(l) ==
    /\ l.pc \notin {"idle", "done", "failed"} => Told(l.messages)
    /\ l.pc \in {"ask", "start", "again"} => AllAnswered(l.messages, l.round)
    /\ l.pc = "tools" => Replying(l.messages, l.round, l.next)

TalkInv == \A t \in Session : Talk(loop[t])

\* p is m with e at its end.
Longer(p, m, e) ==
    /\ p \in Seq(Message) /\ Len(p) = Len(m) + 1 /\ p[Len(m) + 1] = e
    /\ \A i \in 1 .. Len(m) : p[i] = m[i]

LEMMA AppendLonger ==
    ASSUME NEW m \in Seq(Message), NEW e \in Message
    PROVE  Append(m, e) \in Seq(Message) /\ Longer(Append(m, e), m, e)
BY DEF Longer

LEMMA LoopConstants ==
    /\ MaxRounds \in Nat /\ MaxRounds > 0
    /\ MaxExchanges \in Nat /\ MaxExchanges > 0
    /\ MaxCalls \in Nat /\ MaxCalls > 0
BY LoopAssumption

LEMMA MessageFacts ==
    ASSUME NEW m \in Seq(Message)
    PROVE  /\ Len(m) \in Nat
           /\ \A i \in 1 .. Len(m) : m[i] \in Message /\ m[i].n \in Nat /\ m[i].round \in Nat
<1>1. \A i \in 1 .. Len(m) : m[i] \in Message
  OBVIOUS
<1>2. \A x \in Message : x.n \in Nat /\ x.round \in Nat
  BY LoopConstants DEF Message
<1> QED BY <1>1, <1>2

LEMMA AnswerTold ==
    ASSUME NEW m, NEW p, NEW round \in 0 .. MaxRounds - 1, NEW n \in 1 .. MaxCalls,
           Told(m), AllAnswered(m, round),
           Longer(p, m, [role |-> "assistant", round |-> round, n |-> n])
    PROVE  Told(p) /\ Replying(p, round, 1)
<1> DEFINE e == [role |-> "assistant", round |-> round, n |-> n]
<1>1. /\ m \in Seq(Message) /\ p \in Seq(Message) /\ Len(m) \in Nat /\ Len(m) >= 2
      /\ Len(p) = Len(m) + 1
      /\ \A i \in 1 .. Len(m) : p[i] = m[i] /\ m[i].n \in Nat /\ m[i].round \in Nat
      /\ p[Len(p)] = e /\ e.role = "assistant" /\ e.round = round /\ e.n = n
  BY MessageFacts DEF Told, Longer
<1> HIDE DEF e
<1>2. Told(p)
  <2>1. p[1] = Preamble[1] /\ p[2] = Preamble[2]
    BY <1>1 DEF Told
  <2>2. \A i \in 3 .. Len(p) : p[i].role \in {"assistant", "tool"}
    BY <1>1, SMTT(30) DEF Told
  <2>3. ASSUME NEW i \in 3 .. Len(p), p[i].role = "tool"
        PROVE  HasCall(p, i)
    <3>1. i \in 3 .. Len(m) /\ p[i] = m[i] /\ HasCall(m, i)
      BY <1>1, <2>3 DEF Told
    <3>2. i - m[i].n \in 3 .. Len(m) /\ p[i - m[i].n] = m[i - m[i].n]
      BY <1>1, <3>1 DEF HasCall, IsStart
    <3> QED BY <1>1, <3>1, <3>2 DEF HasCall, IsStart
  <2>4. ASSUME NEW j \in 3 .. Len(p), p[j].role = "assistant"
        PROVE  HasReplies(p, j)
    <3>1. CASE j = Len(p)
      BY <1>1, <3>1 DEF HasReplies
    <3>2. CASE j # Len(p)
      <4>1. j \in 3 .. Len(m) /\ p[j] = m[j] /\ j + m[j].n <= Len(m) /\ HasReplies(m, j)
        BY <1>1, <2>4, <3>2 DEF AllAnswered, Answered, Told
      <4>2. \A k \in 1 .. m[j].n : j + k \in 1 .. Len(m) /\ p[j + k] = m[j + k]
        BY <1>1, <4>1, SMTT(30)
      <4>3. ASSUME NEW k \in 1 .. m[j].n
            PROVE  m[j + k] = [role |-> "tool", round |-> m[j].round, n |-> k]
        <5>1. j + k <= Len(m)
          BY <1>1, <4>2
        <5> QED BY <4>1, <5>1 DEF HasReplies
      <4> QED BY <4>1, <4>2, <4>3 DEF HasReplies
    <3> QED BY <3>1, <3>2
  <2>5. ASSUME NEW j \in 3 .. Len(p), NEW k \in 3 .. Len(p),
               p[j].role = "assistant", p[k].role = "assistant", j < k
        PROVE  p[j].round < p[k].round
    <3>1. j \in 3 .. Len(m) /\ p[j] = m[j]
      BY <1>1, <2>5
    <3>2. CASE k = Len(p)
      BY <1>1, <2>5, <3>1, <3>2 DEF AllAnswered, Answered
    <3>3. CASE k # Len(p)
      <4>1. k \in 3 .. Len(m) /\ p[k] = m[k]
        <5>1. Len(m) \in Nat /\ Len(p) = Len(m) + 1
          BY <1>1
        <5>2. k \in 3 .. Len(m) /\ k \in 1 .. Len(m)
          BY <3>3, <5>1
        <5> QED BY <1>1, <5>2
      <4> QED BY <2>5, <3>1, <4>1 DEF Told
    <3> QED BY <3>2, <3>3
  <2> QED BY <1>1, <2>1, <2>2, <2>3, <2>4, <2>5 DEF Told
<1>3. Replying(p, round, 1)
  <2>1. IsStart(p, Len(p)) /\ Len(p) + 1 - 1 = Len(p) /\ p[Len(p)].round = round /\ 1 <= p[Len(p)].n
    BY <1>1 DEF IsStart
  <2>2. ASSUME NEW j \in 3 .. Len(p), j # Len(p), p[j].role = "assistant"
        PROVE  Answered(p, j, round)
    BY <1>1, <2>2, SMTT(30) DEF AllAnswered, Answered
  <2> QED BY <2>1, <2>2 DEF Replying
<1> QED BY <1>2, <1>3

LEMMA StartFacts ==
    ASSUME NEW m, Told(m)
    PROVE  /\ Starts(m) = {i \in 3 .. Len(m) : m[i].role = "assistant"}
           /\ \A i : IsStart(m, i) <=> i \in Starts(m)
           /\ \A i \in 1 .. Len(m) : m[i].role = "tool" => i >= 3
<1>1. m \in Seq(Message) /\ DOMAIN m = 1 .. Len(m) /\ Len(m) \in Nat
  BY DEF Told
<1>2. m[1].role = "system" /\ m[2].role = "user"
  BY DEF Told, Preamble
<1>3. \A i \in 1 .. Len(m) : i = 1 \/ i = 2 \/ i \in 3 .. Len(m)
  BY <1>1
<1>4. \A i \in 3 .. Len(m) : i \in 1 .. Len(m)
  BY <1>1
<1>5. Starts(m) = {i \in 3 .. Len(m) : m[i].role = "assistant"}
  BY <1>1, <1>2, <1>3, <1>4 DEF Starts
<1>6. \A i \in 1 .. Len(m) : m[i].role = "tool" => i >= 3
  BY <1>2, <1>3
<1> QED BY <1>5, <1>6 DEF IsStart

\* Calls reads the answer whose replies are being added.
LEMMA LatestStart ==
    ASSUME NEW m, NEW round, NEW next \in Nat \ {0}, Told(m), Replying(m, round, next)
    PROVE  Max(Starts(m)) = Len(m) + 1 - next
<1> DEFINE c == Len(m) + 1 - next
<1>1. m \in Seq(Message) /\ Len(m) \in Nat
  BY DEF Told
<1>2. c \in 3 .. Len(m) /\ m[c].role = "assistant" /\ next <= m[c].n /\ m[c].n \in Nat
  BY <1>1, MessageFacts DEF Replying, IsStart
<1>3. c \in Starts(m)
  BY <1>2, StartFacts
<1>4. ASSUME NEW j \in Starts(m)
      PROVE  j <= c
  <2>1. j \in 3 .. Len(m) /\ m[j].role = "assistant"
    BY <1>4, StartFacts
  <2>2. CASE j > c
    <3>1. j - c \in 1 .. m[c].n /\ c + (j - c) = j
      BY <1>1, <1>2, <2>1, <2>2
    <3>2. m[c + (j - c)].role = "tool"
      <4>1. HasReplies(m, c)
        BY <1>2 DEF Told
      <4>2. c + (j - c) <= Len(m)
        BY <2>1, <3>1
      <4> HIDE DEF c
      <4>3. m[c + (j - c)] = [role |-> "tool", round |-> m[c].round, n |-> j - c]
        BY <3>1, <4>1, <4>2 DEF HasReplies
      <4> QED BY <4>3
    <3> QED BY <2>1, <3>1, <3>2
  <2> QED BY <1>1, <1>2, <2>1, <2>2
<1>5. \A i \in Starts(m) : (\A j \in Starts(m) : i >= j) => i = c
  BY <1>1, <1>2, <1>3, <1>4, StartFacts
<1> HIDE DEF c
<1>6. \A j \in Starts(m) : c >= j
  BY <1>1, <1>4, StartFacts DEF c
<1>7. Max(Starts(m)) = c
  BY <1>3, <1>5, <1>6 DEF Max
<1> QED BY <1>7 DEF c

LEMMA ReplyTold ==
    ASSUME NEW m, NEW p, NEW round \in 0 .. MaxRounds - 1, NEW next \in Nat \ {0},
           Told(m), Replying(m, round, next),
           Longer(p, m, [role |-> "tool", round |-> round, n |-> next])
    PROVE  /\ Told(p)
           /\ next < m[Len(m) + 1 - next].n => Replying(p, round, next + 1)
           /\ next = m[Len(m) + 1 - next].n => AllAnswered(p, round + 1)
<1> DEFINE e == [role |-> "tool", round |-> round, n |-> next]
           c == Len(m) + 1 - next
<1>1. /\ m \in Seq(Message) /\ p \in Seq(Message) /\ Len(m) \in Nat /\ Len(m) >= 2
      /\ Len(p) = Len(m) + 1
      /\ \A i \in 1 .. Len(m) : p[i] = m[i] /\ m[i].n \in Nat /\ m[i].round \in Nat
      /\ p[Len(p)] = e /\ e.role = "tool" /\ e.round = round /\ e.n = next
  BY MessageFacts DEF Told, Longer
<1> HIDE DEF e
<1>2. /\ c \in 3 .. Len(m) /\ m[c].role = "assistant" /\ m[c].round = round
      /\ next <= m[c].n /\ p[c] = m[c] /\ Len(p) - next = c /\ c + next = Len(p)
  BY <1>1 DEF Replying, IsStart
<1>3. \A j \in 3 .. Len(m) : j # c /\ m[j].role = "assistant" => Answered(m, j, round)
  BY DEF Replying
<1> HIDE DEF c
<1>4. Told(p)
  <2>1. p[1] = Preamble[1] /\ p[2] = Preamble[2]
    BY <1>1 DEF Told
  <2>2. \A i \in 3 .. Len(p) : p[i].role \in {"assistant", "tool"}
    BY <1>1 DEF Told
  <2>3. ASSUME NEW i \in 3 .. Len(p), p[i].role = "tool"
        PROVE  HasCall(p, i)
    <3>1. CASE i = Len(p)
      <4>1. IsStart(p, c) /\ i - p[i].n = c
        BY <1>1, <1>2, <3>1 DEF IsStart
      <4>2. /\ c \in Nat /\ c >= 3 /\ p[c].role = "assistant" /\ p[c].round = p[i].round
            /\ p[i].n <= p[c].n
        BY <1>1, <1>2, <3>1
      <4> QED BY <1>1, <1>2, <3>1, <4>1, <4>2 DEF HasCall
    <3>2. CASE i # Len(p)
      <4>1. i \in 3 .. Len(m) /\ p[i] = m[i] /\ HasCall(m, i)
        BY <1>1, <2>3, <3>2 DEF Told
      <4>2. i - m[i].n \in 3 .. Len(m) /\ p[i - m[i].n] = m[i - m[i].n]
        BY <1>1, <4>1 DEF HasCall, IsStart
      <4> QED BY <1>1, <4>1, <4>2 DEF HasCall, IsStart
    <3> QED BY <3>1, <3>2
  <2>4. ASSUME NEW j \in 3 .. Len(p), p[j].role = "assistant"
        PROVE  HasReplies(p, j)
    <3>1. j \in 3 .. Len(m) /\ p[j] = m[j] /\ m[j].role = "assistant"
      BY <1>1, <2>4
    <3>2. HasReplies(m, j)
      BY <3>1 DEF Told
    <3>3. ASSUME NEW k \in 1 .. m[j].n, j + k <= Len(p)
          PROVE  p[j + k] = [role |-> "tool", round |-> m[j].round, n |-> k]
      <4>1. CASE j + k <= Len(m)
        <5>1. m[j + k] = [role |-> "tool", round |-> m[j].round, n |-> k]
          BY <3>2, <3>3, <4>1 DEF HasReplies
        <5>2. j + k \in 1 .. Len(m)
          BY <1>1, <3>1, <3>3, <4>1
        <5> QED BY <1>1, <5>1, <5>2
      <4>2. CASE j + k = Len(p)
        <5>1. j = c
          BY <1>1, <1>3, <3>1, <3>3, <4>2, SMTT(30) DEF Answered
        <5>2. k = next
          BY <1>1, <1>2, <3>3, <4>2, <5>1
        <5> QED BY <1>1, <1>2, <4>2, <5>1, <5>2 DEF e
      <4> QED BY <1>1, <3>1, <3>3, <4>1, <4>2, SMTT(30)
    <3> QED BY <3>1, <3>2, <3>3 DEF HasReplies
  <2>5. ASSUME NEW j \in 3 .. Len(p), NEW k \in 3 .. Len(p),
               p[j].role = "assistant", p[k].role = "assistant", j < k
        PROVE  p[j].round < p[k].round
    <3>1. j \in 3 .. Len(m) /\ k \in 3 .. Len(m) /\ p[j] = m[j] /\ p[k] = m[k]
      BY <1>1, <2>5
    <3> QED BY <2>5, <3>1 DEF Told
  <2> QED BY <1>1, <2>1, <2>2, <2>3, <2>4, <2>5 DEF Told
<1>5. \A j \in 3 .. Len(p) : p[j].role = "assistant" => j \in 3 .. Len(m) /\ p[j] = m[j]
  BY <1>1
<1>6. ASSUME next < m[c].n
      PROVE  Replying(p, round, next + 1)
  <2>1. Len(p) + 1 - (next + 1) = c /\ IsStart(p, c)
    BY <1>1, <1>2 DEF IsStart
  <2>2. next + 1 <= p[c].n
    BY <1>1, <1>2, <1>6
  <2>3. \A j \in 3 .. Len(p) : j # c /\ p[j].role = "assistant" => Answered(p, j, round)
    BY <1>1, <1>3, <1>5 DEF Answered
  <2> QED BY <1>2, <2>1, <2>2, <2>3 DEF Replying
<1>7. ASSUME next = m[c].n
      PROVE  AllAnswered(p, round + 1)
  <2>1. ASSUME NEW j \in 3 .. Len(p), p[j].role = "assistant"
        PROVE  Answered(p, j, round + 1)
    <3>1. j \in 3 .. Len(m) /\ p[j] = m[j] /\ m[j].n \in Nat /\ m[j].round \in Nat
      BY <1>1, <1>5, <2>1
    <3>2. CASE j = c
      BY <1>1, <1>2, <1>7, <3>1, <3>2, SMTT(30) DEF Answered
    <3>3. CASE j # c
      <4>1. Answered(m, j, round)
        BY <1>3, <2>1, <3>1, <3>3
      <4>2. Len(m) \in Nat /\ Len(p) = Len(m) + 1
        BY <1>1
      <4>3. j + p[j].n <= Len(p) /\ p[j].round < round + 1
        BY <3>1, <4>1, <4>2 DEF Answered
      <4> QED BY <4>3 DEF Answered
    <3> QED BY <3>2, <3>3
  <2> QED BY <2>1 DEF AllAnswered
<1> QED BY <1>4, <1>6, <1>7 DEF c

-----------------------------------------------------------------------------
(* The window.                                                             *)

From(S, i) == {j \in S : j >= i}

LEMMA FromFacts ==
    ASSUME NEW S, IsFiniteSet(S), NEW i
    PROVE  /\ IsFiniteSet(From(S, i)) /\ Cardinality(From(S, i)) \in Nat
           /\ Cardinality(From(S, i)) <= Cardinality(S) /\ Cardinality(S) \in Nat
<1>1. From(S, i) \in SUBSET S
  BY DEF From
<1> QED BY <1>1, FS_Subset, FS_CardinalityType

\* Of a finite set of numbers, some element is the last but k - 1: counting from
\* the end is one to one, and so onto.
LEMMA LastOnes ==
    ASSUME NEW S \in SUBSET Nat, IsFiniteSet(S), NEW k \in Nat, k > 0, k <= Cardinality(S)
    PROVE  \E i \in S : Cardinality(From(S, i)) = k
<1> DEFINE T == 1 .. Cardinality(S)
           r == [i \in S |-> Cardinality(From(S, i))]
<1>1. Cardinality(S) \in Nat
  BY FS_CardinalityType
<1>2. \A i \in S : r[i] \in T
  <2> SUFFICES ASSUME NEW i \in S
               PROVE  Cardinality(From(S, i)) \in T
    OBVIOUS
  <2>1. From(S, i) # {}
    <3>1. i \in Nat
      OBVIOUS
    <3> QED BY <3>1 DEF From
  <2>2. Cardinality(From(S, i)) # 0
    BY <2>1, FromFacts, FS_EmptySet
  <2> QED BY <2>2, FromFacts
<1>3. ASSUME NEW i \in S, NEW j \in S, i < j
      PROVE  r[i] # r[j]
  <2>1. From(S, j) \in SUBSET (From(S, i) \ {i})
    <3>1. i \in Nat /\ j \in Nat
      OBVIOUS
    <3>2. \A x \in S : x \in Nat
      OBVIOUS
    <3>3. \A x \in S : x >= j => x >= i /\ x # i
      BY <1>3, <3>1, <3>2
    <3> QED BY <3>3 DEF From
  <2>2. i \in From(S, i)
    <3>1. i \in Nat
      OBVIOUS
    <3> QED BY <3>1 DEF From
  <2>3. /\ IsFiniteSet(From(S, i) \ {i})
        /\ Cardinality(From(S, i) \ {i}) = Cardinality(From(S, i)) - 1
    BY <2>2, FromFacts, FS_RemoveElement
  <2>4. Cardinality(From(S, j)) <= Cardinality(From(S, i) \ {i})
    BY <2>1, <2>3, FS_Subset
  <2>5. Cardinality(From(S, i)) \in Nat /\ Cardinality(From(S, j)) \in Nat
    BY FromFacts
  <2> QED BY <2>3, <2>4, <2>5
<1>4. r \in Injection(S, T)
  <2>1. r \in [S -> T]
    BY <1>2
  <2>2. \A i, j \in S : r[i] = r[j] => i = j
    <3>1. \A i, j \in S : i < j \/ j < i \/ i = j
      <4>1. \A i \in S : i \in Nat
        OBVIOUS
      <4> QED BY <4>1
    <3> HIDE DEF r
    <3> QED BY <1>3, <3>1
  <2> HIDE DEF r, T
  <2> QED BY <2>1, <2>2 DEF Injection, IsInjective
<1>5. IsFiniteSet(T) /\ Cardinality(T) = Cardinality(S)
  BY <1>1, FS_Interval
<1>6. r \in Surjection(S, T)
  <2> HIDE DEF r, T
  <2> QED BY <1>4, <1>5, FS_Injection
<1>7. k \in T
  BY <1>1
<1>8. PICK i \in S : r[i] = k
  <2> HIDE DEF r, T
  <2> QED BY <1>6, <1>7 DEF Surjection
<1> QED BY <1>8

\* w is the preamble and the messages of m from d + 3 on, where an answer is.
IsWindow(w, m, d) ==
    /\ d \in Nat /\ w \in Seq(Message) /\ Len(w) = Len(m) - d /\ Len(w) >= 2
    /\ w[1] = Preamble[1] /\ w[2] = Preamble[2]
    /\ \A i \in 3 .. Len(w) : w[i] = m[i + d]
    /\ d = 0 \/ IsStart(m, d + 3)

\* The answer a reply belongs to.
CallOf(m, i, j, n) ==
    /\ j \in 3 .. Len(m) /\ n \in Nat \ {0} /\ i = j + n
    /\ m[i].n = n /\ m[j].role = "assistant" /\ m[j].round = m[i].round
    /\ n <= m[j].n /\ m[j].n \in Nat

LEMMA ReplyHasCall ==
    ASSUME NEW m, Told(m), NEW i \in 3 .. Len(m), m[i].role = "tool"
    PROVE  \E j, n \in Nat : CallOf(m, i, j, n)
<1>1. m \in Seq(Message) /\ Len(m) \in Nat
  BY DEF Told
<1>2. HasCall(m, i)
  BY DEF Told
<1>3. PICK n \in Nat : n = m[i].n /\ n >= 1
  BY <1>1, <1>2, MessageFacts DEF HasCall
<1>4. /\ IsStart(m, i - n) /\ m[i - n].round = m[i].round /\ n <= m[i - n].n
  BY <1>2, <1>3 DEF HasCall
<1>7. PICK j \in 3 .. Len(m) : j = i - n /\ m[j].role = "assistant" /\ m[j].round = m[i].round
                               /\ n <= m[j].n /\ m[j].n \in Nat
  BY <1>1, <1>4, MessageFacts DEF IsStart
<1>5. CallOf(m, i, j, n)
  BY <1>1, <1>3, <1>7 DEF CallOf
<1>6. j \in Nat
  BY <1>7
<1> QED BY <1>3, <1>5, <1>6

\* No reply in the window has its answer outside it.
LEMMA WindowKeepsCalls ==
    ASSUME NEW m, Told(m), NEW d \in Nat, d = 0 \/ IsStart(m, d + 3),
           NEW i \in Nat, i >= d + 3, NEW j \in Nat, NEW n \in Nat, CallOf(m, i, j, n), i <= Len(m)
    PROVE  j >= d + 3
<1>1. m \in Seq(Message) /\ Len(m) \in Nat
  BY DEF Told
<1>2. /\ j \in 3 .. Len(m) /\ n \in Nat \ {0} /\ i = j + n
      /\ m[j].role = "assistant" /\ n <= m[j].n /\ m[j].n \in Nat
  BY DEF CallOf
<1>3. CASE d # 0 /\ j < d + 3
  <2>1. HasReplies(m, j) /\ m[d + 3].role = "assistant" /\ d + 3 <= Len(m)
    BY <1>2, <1>3 DEF Told, IsStart
  <2>2. d + 3 - j \in 1 .. m[j].n /\ j + (d + 3 - j) = d + 3
    BY <1>1, <1>2, <1>3, SMTT(30)
  <2>3. m[j + (d + 3 - j)] = [role |-> "tool", round |-> m[j].round, n |-> d + 3 - j]
    BY <2>1, <2>2 DEF HasReplies
  <2> QED BY <2>1, <2>2, <2>3
<1> QED BY <1>1, <1>2, <1>3

LEMMA WindowIsPaired ==
    ASSUME NEW m, NEW w, NEW d, NEW round, Told(m), AllAnswered(m, round), IsWindow(w, m, d)
    PROVE  Paired(w)
<1>1. /\ m \in Seq(Message) /\ Len(m) \in Nat /\ d \in Nat /\ Len(w) = Len(m) - d /\ Len(w) \in Nat
      /\ DOMAIN w = 1 .. Len(w)
      /\ \A i \in 3 .. Len(w) : w[i] = m[i + d] /\ i + d \in 3 .. Len(m)
      /\ w[1].role = "system" /\ w[2].role = "user"
  BY DEF Told, IsWindow, Preamble
<1>2. \A i \in 1 .. Len(w) : w[i].role \in {"tool", "assistant"} => i \in 3 .. Len(w)
  <2>1. \A i \in 1 .. Len(w) : i = 1 \/ i = 2 \/ i \in 3 .. Len(w)
    BY <1>1
  <2> QED BY <1>1, <2>1
<1>3. ASSUME NEW i \in DOMAIN w, w[i].role = "tool"
      PROVE  \E j \in Starts(w) : /\ j < i /\ w[j].round = w[i].round
                                  /\ w[i].n \in 1 .. w[j].n
  <2>1. i \in 3 .. Len(w) /\ w[i] = m[i + d] /\ i + d \in 3 .. Len(m)
    BY <1>1, <1>2, <1>3
  <2>2. PICK k \in Nat, n \in Nat : CallOf(m, i + d, k, n)
    BY <1>3, <2>1, ReplyHasCall
  <2>9. d = 0 \/ IsStart(m, d + 3)
    BY DEF IsWindow
  <2>10. i + d \in Nat /\ i + d >= d + 3 /\ i + d <= Len(m) /\ d \in Nat
    BY <1>1, <2>1
  <2>3. k >= d + 3
    BY <2>2, <2>9, <2>10, WindowKeepsCalls
  <2>4. PICK j \in Int : j = k - d
    BY <1>1
  <2>5. /\ k \in 3 .. Len(m) /\ n \in Nat \ {0} /\ i + d = k + n
        /\ m[i + d].n = n /\ m[k].role = "assistant" /\ m[k].round = m[i + d].round
        /\ n <= m[k].n /\ m[k].n \in Nat
    BY <2>2 DEF CallOf
  <2>6. j \in 3 .. Len(w) /\ j + d = k /\ j < i
    BY <1>1, <2>1, <2>3, <2>4, <2>5, SMTT(30)
  <2>8. w[j] = m[k] /\ w[i] = m[i + d]
    BY <1>1, <2>1, <2>6
  <2>7. j \in Starts(w)
    BY <1>1, <2>5, <2>6, <2>8 DEF Starts
  <2> QED BY <2>5, <2>6, <2>7, <2>8, SMTT(30)
<1>4. ASSUME NEW j \in Starts(w), NEW n \in 1 .. MaxCalls, n <= w[j].n
      PROVE  Cardinality({i \in DOMAIN w :
                w[i] = [role |-> "tool", round |-> w[j].round, n |-> n]}) = 1
  <2> DEFINE e == [role |-> "tool", round |-> w[j].round, n |-> n]
  <2>9. j \in DOMAIN w /\ w[j].role = "assistant" /\ n \in Nat /\ n >= 1
    BY <1>4, LoopConstants DEF Starts
  <2>1. /\ j \in 3 .. Len(w) /\ w[j] = m[j + d] /\ j + d \in 3 .. Len(m)
        /\ m[j + d].role = "assistant" /\ n \in 1 .. m[j + d].n
    BY <1>1, <1>2, <1>4, <2>9, MessageFacts
  <2>2. j + d + m[j + d].n <= Len(m) /\ HasReplies(m, j + d) /\ m[j + d].n \in Nat
    BY <1>1, <2>1, MessageFacts DEF AllAnswered, Answered, Told
  <2>3. j + n \in 3 .. Len(w) /\ j + n + d = j + d + n /\ j + d + n <= Len(m)
    BY <1>1, <2>1, <2>2, SMTT(30)
  <2>4. m[j + d + n] = e
    BY <2>1, <2>3, <2>2 DEF HasReplies
  <2>5. w[j + n] = e /\ j + n \in DOMAIN w
    BY <1>1, <2>3, <2>4
  <2>6. ASSUME NEW i \in DOMAIN w, w[i] = e
        PROVE  i = j + n
    <3>1. w[i].role = "tool" /\ w[i].n = n /\ w[i].round = m[j + d].round
      BY <2>1, <2>6
    <3>2. i \in 3 .. Len(w) /\ w[i] = m[i + d] /\ i + d \in 3 .. Len(m)
      BY <1>1, <1>2, <3>1
    <3>3. PICK k \in Nat, h \in Nat : CallOf(m, i + d, k, h)
      BY <3>1, <3>2, ReplyHasCall
    <3>4. /\ k \in 3 .. Len(m) /\ m[k].role = "assistant" /\ m[k].round = m[j + d].round
          /\ h = n /\ i + d = k + n
      BY <3>1, <3>2, <3>3 DEF CallOf
    <3>5. m[k].round \in Nat
      BY <1>1, <3>4, MessageFacts, SMTT(30)
    <3>6. ~(k < j + d) /\ ~(j + d < k)
      <4>1. PICK c \in 3 .. Len(m) : c = j + d
        BY <2>1
      <4>2. m[c].role = "assistant" /\ m[c].round = m[k].round
        BY <2>1, <3>4, <4>1
      <4>3. ~(m[k].round < m[c].round) /\ ~(m[c].round < m[k].round)
        BY <3>5, <4>2
      <4>4. ~(k < c) /\ ~(c < k)
        BY <3>4, <4>2, <4>3 DEF Told
      <4> QED BY <4>1, <4>4
    <3>7. i \in Int /\ j \in Int /\ d \in Int /\ n \in Int /\ k \in Int
      BY <1>1, <1>4, <2>1, <3>2, <3>4, LoopConstants
    <3> QED BY <3>4, <3>6, <3>7
  <2> HIDE DEF e
  <2>7. {i \in DOMAIN w : w[i] = e} = {j + n}
    BY <2>5, <2>6
  <2>8. Cardinality({i \in DOMAIN w : w[i] = e}) = 1
    BY <2>7, FS_Singleton
  <2> QED BY <2>8 DEF e
<1> QED BY <1>3, <1>4 DEF Paired

LEMMA StartsFinite ==
    ASSUME NEW m, Told(m)
    PROVE  Starts(m) \in SUBSET Nat /\ IsFiniteSet(Starts(m))
<1>1. Starts(m) \in SUBSET (3 .. Len(m)) /\ Len(m) \in Nat
  BY StartFacts DEF Told
<1>2. IsFiniteSet(3 .. Len(m))
  BY <1>1, FS_Interval
<1>3. Starts(m) \in SUBSET Nat
  <2>1. \A i \in 3 .. Len(m) : i \in Nat
    BY <1>1
  <2> QED BY <1>1, <2>1
<1> QED BY <1>1, <1>2, <1>3, FS_Subset

LEMMA Times ==
    ASSUME NEW a \in Nat, NEW b \in Nat, NEW c \in Nat, a <= b
    PROVE  a * c <= b * c
<1>1. b * c = a * c + (b - a) * c
  OBVIOUS
<1>2. (b - a) * c >= 0 /\ a * c \in Int /\ (b - a) * c \in Int
  OBVIOUS
<1> QED BY <1>1, <1>2

\* A message of the window is told by its answer and its place after that: so a
\* window is no longer than its answers with all the replies they may have.
LEMMA WindowIsBounded ==
    ASSUME NEW m, NEW w, NEW d, Told(m), IsWindow(w, m, d), NEW k \in Nat,
           Cardinality(From(Starts(m), d + 3)) <= k
    PROVE  Len(w) <= 2 + k * (1 + MaxCalls)
<1> DEFINE P == 3 .. Len(w)
           A == From(Starts(m), d + 3)
           off(i) == IF m[i + d].role = "assistant" THEN 0 ELSE m[i + d].n
           f == [i \in P |-> <<i + d - off(i), off(i)>>]
<1>1. /\ m \in Seq(Message) /\ Len(m) \in Nat /\ d \in Nat /\ Len(w) = Len(m) - d /\ Len(w) \in Nat
      /\ Len(w) >= 2
      /\ \A i \in P : i \in Nat /\ i + d \in 3 .. Len(m) /\ i + d >= d + 3
  BY DEF Told, IsWindow
<1>2. MaxCalls \in Nat
  BY LoopConstants
<1>3. ASSUME NEW i \in P
      PROVE  off(i) \in 0 .. MaxCalls /\ i + d - off(i) \in A /\ i \in Nat
  <2>1. /\ i \in Nat /\ i + d \in 3 .. Len(m) /\ i + d >= d + 3
        /\ i + d \in Nat /\ i + d <= Len(m)
    BY <1>1
  <2>2. CASE m[i + d].role = "assistant"
    <3>1. i + d \in Starts(m)
      BY <2>1, <2>2, StartFacts
    <3>2. i + d \in A
      BY <2>1, <3>1 DEF From
    <3> QED BY <1>1, <1>2, <2>1, <2>2, <3>2
  <2>3. CASE m[i + d].role # "assistant"
    <3>1. m[i + d].role = "tool"
      BY <2>1, <2>3 DEF Told
    <3>2. PICK j \in Nat, n \in Nat : CallOf(m, i + d, j, n)
      BY <2>1, <3>1, ReplyHasCall
    <3>0. d \in Nat /\ (d = 0 \/ IsStart(m, d + 3))
      BY <1>1 DEF IsWindow
    <3>3. j >= d + 3
      BY <2>1, <3>2, <3>0, WindowKeepsCalls
    <3>4. /\ j \in 3 .. Len(m) /\ n \in Nat \ {0} /\ i + d = j + n
          /\ m[i + d].n = n /\ m[j].role = "assistant" /\ n <= m[j].n
      BY <3>2 DEF CallOf
    <3>5. n \in 0 .. MaxCalls
      <4>1. m[j].n \in 1 .. MaxCalls
        BY <3>4 DEF Told, HasReplies
      <4> QED BY <1>2, <3>4, <4>1
    <3>6. j \in A
      BY <3>3, <3>4, StartFacts DEF From
    <3>7. off(i) = n
      BY <2>3, <3>4
    <3> HIDE DEF off
    <3>8. i + d - off(i) = j
      <4>1. i + d - n = j
        <5>1. i + d = j + n /\ i \in Nat /\ d \in Nat /\ j \in Nat /\ n \in Nat
          BY <2>1, <3>0, <3>2, <3>4
        <5> QED BY <5>1
      <4> QED BY <3>7, <4>1
    <3> QED BY <2>1, <3>5, <3>6, <3>7, <3>8
  <2> QED BY <2>2, <2>3
<1> HIDE DEF off, A
<1>4. f \in Injection(P, A \X (0 .. MaxCalls))
  <2>1. f \in [P -> A \X (0 .. MaxCalls)]
    BY <1>3
  <2>2. ASSUME NEW i \in P, NEW j \in P, f[i] = f[j]
        PROVE  i = j
    <3>1. off(i) = off(j) /\ i + d - off(i) = j + d - off(j)
      BY <2>2
    <3> QED BY <1>1, <1>3, <3>1
  <2> HIDE DEF f, P
  <2> QED BY <2>1, <2>2 DEF Injection, IsInjective
<1>5. IsFiniteSet(A) /\ Cardinality(A) \in Nat
  BY StartsFinite, FromFacts DEF A
<1>6. IsFiniteSet(0 .. MaxCalls) /\ Cardinality(0 .. MaxCalls) = 1 + MaxCalls
  BY <1>2, FS_Interval, SMTT(30)
<1>7. /\ IsFiniteSet(A \X (0 .. MaxCalls))
      /\ Cardinality(A \X (0 .. MaxCalls)) = Cardinality(A) * (1 + MaxCalls)
  BY <1>5, <1>6, FS_Product
<1>8. Cardinality(P) <= Cardinality(A) * (1 + MaxCalls)
  <2> HIDE DEF f, P
  <2> QED BY <1>4, <1>7, FS_Injection
<1>9. Cardinality(P) = Len(w) - 2
  <2>1. Len(w) \in Int /\ 3 \in Int
    BY <1>1
  <2>2. Cardinality(3 .. Len(w)) = IF 3 > Len(w) THEN 0 ELSE Len(w) - 3 + 1
    BY <2>1, FS_Interval
  <2> QED BY <1>1, <2>2
<1>10. Cardinality(A) * (1 + MaxCalls) <= k * (1 + MaxCalls)
  BY <1>2, <1>5, Times DEF A
<1>11. Cardinality(A) * (1 + MaxCalls) \in Nat /\ k * (1 + MaxCalls) \in Nat
  BY <1>2, <1>5
<1> HIDE DEF P
<1> QED BY <1>1, <1>8, <1>9, <1>10, <1>11

\* window_messages, of a conversation whose answers all have their replies.
LEMMA WindowFacts ==
    ASSUME NEW m, NEW round, Told(m), AllAnswered(m, round)
    PROVE  /\ Paired(Window(m))
           /\ IsPrefix(Preamble, Window(m))
           /\ Last(Window(m)) = Last(m)
           /\ Len(Window(m)) <= 2 + MaxExchanges * (1 + MaxCalls)
<1> DEFINE S == Starts(m)
<1>1. m \in Seq(Message) /\ Len(m) \in Nat /\ Len(m) >= 2 /\ m[1] = Preamble[1] /\ m[2] = Preamble[2]
  BY DEF Told
<1>2. S \in SUBSET Nat /\ IsFiniteSet(S) /\ Cardinality(S) \in Nat
  BY StartsFinite, FS_CardinalityType
<1>3. \A i \in S : IsStart(m, i) /\ i \in 3 .. Len(m)
  BY StartFacts DEF IsStart
<1>4. Preamble[1] \in Message /\ Preamble[2] \in Message /\ Len(Preamble) = 2
      /\ Preamble \in Seq(Message)
  BY LoopConstants DEF Preamble, Message
<1> HIDE DEF S
<1>5. \E d \in Nat : /\ IsWindow(Window(m), m, d)
                     /\ Cardinality(From(S, d + 3)) <= MaxExchanges
                     /\ d = 0 \/ d + 3 <= Len(m)
  <2>1. CASE Cardinality(S) <= MaxExchanges
    <3>1. Window(m) = m
      BY <2>1 DEF Window, S
    <3>2. IsWindow(m, m, 0)
      BY <1>1 DEF IsWindow
    <3>3. Cardinality(From(S, 0 + 3)) <= MaxExchanges
      BY <1>2, <2>1, FromFacts, LoopConstants
    <3> QED BY <3>1, <3>2, <3>3
  <2>2. CASE Cardinality(S) > MaxExchanges
    <3> DEFINE from == CHOOSE i \in S : Cardinality({j \in S : j >= i}) = MaxExchanges
    <3>1. \E i \in S : Cardinality(From(S, i)) = MaxExchanges
      BY <1>2, <2>2, LastOnes, LoopConstants
    <3>2. from \in S /\ Cardinality(From(S, from)) = MaxExchanges
      BY <3>1 DEF From
    <3>3. Window(m) = Preamble \o SubSeq(m, from, Len(m))
      <4>1. ~(Cardinality(S) <= MaxExchanges)
        BY <1>2, <2>2, LoopConstants
      <4> QED BY <4>1, Zenon DEF Window, S
    <3> HIDE DEF from
    <3>4. IsStart(m, from) /\ from \in 3 .. Len(m)
      BY <1>3, <3>2
    <3>5. PICK d \in Nat : from = d + 3
      <4>1. from - 3 \in Nat /\ from = from - 3 + 3
        BY <3>4
      <4> QED BY <4>1
    <3> DEFINE tail == SubSeq(m, from, Len(m))
    <3>6. /\ tail \in Seq(Message) /\ Len(tail) = Len(m) - d - 2
          /\ \A i \in 1 .. Len(tail) : tail[i] = m[i + d + 2]
      BY <1>1, <3>4, <3>5
    <3> HIDE DEF tail
    <3>7. /\ Preamble \o tail \in Seq(Message) /\ Len(Preamble \o tail) = Len(m) - d
          /\ (Preamble \o tail)[1] = Preamble[1] /\ (Preamble \o tail)[2] = Preamble[2]
          /\ \A i \in 3 .. Len(m) - d : (Preamble \o tail)[i] = tail[i - 2]
      <4>1. d + 3 <= Len(m)
        BY <1>1, <3>4, <3>5
      <4>7. /\ Preamble \o tail \in Seq(Message)
            /\ Len(Preamble \o tail) = Len(Preamble) + Len(tail)
            /\ \A i \in 1 .. Len(Preamble) + Len(tail) : (Preamble \o tail)[i] =
                  IF i <= Len(Preamble) THEN Preamble[i] ELSE tail[i - Len(Preamble)]
        <5>1. Preamble \in Seq(Message) /\ tail \in Seq(Message)
          BY <1>4, <3>6
        <5> QED BY <5>1, ConcatProperties, Zenon
      <4>2. Preamble \o tail \in Seq(Message) /\ Len(Preamble \o tail) = 2 + Len(tail)
        BY <1>4, <4>7, Zenon
      <4>3. 2 + Len(tail) = Len(m) - d
        BY <1>1, <3>6, <4>1
      <4>4. \A i \in 1 .. 2 + Len(tail) :
               (Preamble \o tail)[i] = IF i <= 2 THEN Preamble[i] ELSE tail[i - 2]
        BY <1>4, <4>7, Zenon
      <4>5. 1 \in 1 .. 2 + Len(tail) /\ 2 \in 1 .. 2 + Len(tail)
        BY <1>1, <4>1, <4>3
      <4>6. \A i \in 3 .. Len(m) - d : i \in 1 .. 2 + Len(tail) /\ ~(i <= 2)
        BY <1>1, <4>3
      <4> QED BY <4>2, <4>3, <4>4, <4>5, <4>6
    <3>8. \A i \in 3 .. Len(m) - d : i - 2 \in 1 .. Len(tail) /\ i - 2 + d + 2 = i + d
      BY <1>1, <3>6
    <3>9. \A i \in 3 .. Len(m) - d : (Preamble \o tail)[i] = m[i + d]
      BY <3>6, <3>7, <3>8
    <3>10. IsWindow(Preamble \o tail, m, d)
      BY <1>1, <3>4, <3>5, <3>7, <3>9 DEF IsWindow
    <3> QED BY <3>2, <3>3, <3>4, <3>5, <3>10, LoopConstants DEF tail
  <2> QED BY <1>2, <2>1, <2>2, LoopConstants
<1>6. PICK d \in Nat : /\ IsWindow(Window(m), m, d)
                       /\ Cardinality(From(S, d + 3)) <= MaxExchanges
                       /\ d = 0 \/ d + 3 <= Len(m)
  BY <1>5
<1>7. /\ Window(m) \in Seq(Message) /\ Len(Window(m)) = Len(m) - d /\ Len(Window(m)) >= 2
      /\ Window(m)[1] = Preamble[1] /\ Window(m)[2] = Preamble[2]
      /\ \A i \in 3 .. Len(Window(m)) : Window(m)[i] = m[i + d]
  BY <1>6 DEF IsWindow
<1>8. Paired(Window(m))
  BY <1>6, WindowIsPaired
<1>9. Len(Window(m)) <= 2 + MaxExchanges * (1 + MaxCalls)
  BY <1>6, WindowIsBounded, LoopConstants DEF S
<1>10. Last(Window(m)) = Last(m)
  <2>1. CASE d = 0
    <3>1. PICK n \in Nat : n = Len(m) /\ n = Len(Window(m))
      BY <1>1, <1>7, <2>1
    <3>2. n = 2 \/ (n \in 3 .. n /\ n + d = n)
      BY <1>1, <2>1, <3>1
    <3> QED BY <1>1, <1>7, <3>1, <3>2 DEF Last
  <2>2. CASE d # 0
    <3>1. Len(Window(m)) \in 3 .. Len(Window(m)) /\ Len(Window(m)) + d = Len(m)
      BY <1>1, <1>6, <1>7, <2>2
    <3> QED BY <1>7, <3>1 DEF Last
  <2> QED BY <2>1, <2>2
<1>11. IsPrefix(Preamble, Window(m))
  <2> DEFINE w == Window(m)
  <2>1. w \in Seq(Message) /\ Len(w) \in Nat /\ Len(w) >= 2 /\ w[1] = Preamble[1] /\ w[2] = Preamble[2]
    BY <1>7
  <2> HIDE DEF w
  <2>2. SubSeq(w, 1, 2) = SubSeq(Preamble, 1, 2)
    <3> DEFINE a == SubSeq(w, 1, 2)
               b == SubSeq(Preamble, 1, 2)
    <3>1. a \in Seq(Message) /\ Len(a) = 2 /\ a[1] = w[1] /\ a[2] = w[2]
      BY <2>1
    <3>2. b \in Seq(Message) /\ Len(b) = 2 /\ b[1] = Preamble[1] /\ b[2] = Preamble[2]
      BY <1>4
    <3> HIDE DEF a, b
    <3>3. \A i \in 1 .. 2 : a[i] = b[i]
      <4>1. \A i \in 1 .. 2 : i = 1 \/ i = 2
        OBVIOUS
      <4> QED BY <2>1, <3>1, <3>2, <4>1
    <3>4. a = b
      BY <3>1, <3>2, <3>3
    <3> QED BY <3>4 DEF a, b
  <2> QED BY <1>4, <2>1, <2>2 DEF IsPrefix, w
<1> QED BY <1>8, <1>9, <1>10, <1>11

-----------------------------------------------------------------------------
(* The steps of a run.                                                     *)

LoopState == [pc : {"idle", "ask", "start", "again", "tools", "done", "failed"},
              round : 0 .. MaxRounds - 1, messages : Seq(Message), next : 1 .. MaxCalls]

LoopInv == loop \in [Session -> LoopState] /\ TalkInv

LEMMA StateStep ==
    ASSUME LoopInv, NEW t \in Session, NEW l \in LoopState, Talk(l),
           loop' = [loop EXCEPT ![t] = l]
    PROVE  LoopInv'
<1>1. loop' \in [Session -> LoopState]
  BY DEF LoopInv
<1>2. \A u \in Session : loop'[u] = IF u = t THEN l ELSE loop[u]
  BY DEF LoopInv
<1>3. \A u \in Session : Talk(loop'[u])
  BY <1>2 DEF LoopInv, TalkInv
<1> QED BY <1>1, <1>3 DEF LoopInv, TalkInv

LEMMA ReturnStep ==
    ASSUME LoopInv, NEW t \in Session, NEW how \in {"done", "failed"}, Returns(t, how)
    PROVE  LoopInv'
<1> DEFINE l == [Idle EXCEPT !.pc = how]
<1>1. l \in LoopState /\ l.pc = how
  <2>1. l = [pc |-> how, round |-> 0, messages |-> <<>>, next |-> 1]
    BY DEF Idle
  <2>2. << >> \in Seq(Message) /\ 0 \in 0 .. MaxRounds - 1 /\ 1 \in 1 .. MaxCalls
    BY LoopConstants
  <2> HIDE DEF l
  <2> QED BY <2>1, <2>2 DEF LoopState
<1> HIDE DEF l
<1>2. Talk(l)
  BY <1>1 DEF Talk
<1>3. loop' = [loop EXCEPT ![t] = l]
  BY DEF Returns, l
<1> QED BY <1>1, <1>2, <1>3, StateStep

LEMMA BeginStep ==
    ASSUME LoopInv, NEW t \in Session, BeginRun(t)
    PROVE  LoopInv'
<1> DEFINE l == [Idle EXCEPT !.pc = "ask", !.messages = Preamble]
<1>1. Preamble \in Seq(Message) /\ Len(Preamble) = 2
  BY LoopConstants DEF Preamble, Message
<1>2. l \in LoopState /\ l.pc = "ask" /\ l.messages = Preamble
  <2>1. l = [pc |-> "ask", round |-> 0, messages |-> Preamble, next |-> 1]
    <3>1. DOMAIN Idle = {"pc", "round", "messages", "next"}
      BY DEF Idle
    <3>2. Idle.round = 0 /\ Idle.next = 1
      BY DEF Idle
    <3>3. DOMAIN l = {"pc", "round", "messages", "next"}
      BY <3>1
    <3>4. l.pc = "ask" /\ l.round = 0 /\ l.messages = Preamble /\ l.next = 1
      BY <3>1, <3>2
    <3>5. l = [x \in DOMAIN l |-> l[x]]
      OBVIOUS
    <3> HIDE DEF l
    <3> QED BY <3>3, <3>4, <3>5
  <2>2. 0 \in 0 .. MaxRounds - 1 /\ 1 \in 1 .. MaxCalls
    BY LoopConstants
  <2> HIDE DEF l
  <2> QED BY <1>1, <2>1, <2>2 DEF LoopState
<1> HIDE DEF l
<1>3. Told(Preamble) /\ AllAnswered(Preamble, l.round)
  BY <1>1 DEF Told, AllAnswered
<1>4. Talk(l)
  BY <1>2, <1>3 DEF Talk
<1>5. loop' = [loop EXCEPT ![t] = l]
  BY DEF BeginRun, l
<1> QED BY <1>2, <1>4, <1>5, StateStep

LEMMA WaitStep ==
    ASSUME LoopInv, NEW t \in Session, NEW p \in {"start", "again"},
           loop[t].pc \in {"ask", "start", "again"}, Goes(t, p)
    PROVE  LoopInv'
<1> DEFINE l == [loop[t] EXCEPT !.pc = p]
<1>1. loop[t] \in LoopState
  BY DEF LoopInv
<1>2. l \in LoopState /\ l.pc = p /\ l.messages = loop[t].messages /\ l.round = loop[t].round
  BY <1>1 DEF LoopState
<1>3. loop' = [loop EXCEPT ![t] = l]
  BY DEF Goes, LoopInv
<1> HIDE DEF l
<1>4. Talk(l)
  BY <1>2 DEF Talk, LoopInv, TalkInv
<1> QED BY <1>2, <1>3, <1>4, StateStep

LEMMA AnswerStep ==
    ASSUME LoopInv, NEW t \in Session, AnswersCalls(t)
    PROVE  LoopInv'
<1>1. PICK n \in 1 .. MaxCalls :
         loop' = [loop EXCEPT ![t].pc = "tools", ![t].next = 1,
                              ![t].messages = Append(@, [role |-> "assistant",
                                                         round |-> loop[t].round, n |-> n])]
  BY DEF AnswersCalls
<1> DEFINE m == loop[t].messages
           e == [role |-> "assistant", round |-> loop[t].round, n |-> n]
           l == [loop[t] EXCEPT !.pc = "tools", !.next = 1, !.messages = Append(m, e)]
<1>2. loop[t] \in LoopState
  BY DEF LoopInv
<1>3. /\ m \in Seq(Message) /\ loop[t].round \in 0 .. MaxRounds - 1
      /\ e \in Message
  BY <1>2, LoopConstants DEF LoopState, Message
<1>4. Told(m) /\ AllAnswered(m, loop[t].round)
  BY DEF AnswersCalls, At, LoopInv, TalkInv, Talk
<1>5. Append(m, e) \in Seq(Message) /\ Longer(Append(m, e), m, e)
  BY <1>3, AppendLonger
<1>6. loop' = [loop EXCEPT ![t] = l]
  BY <1>1 DEF LoopInv
<1>7. Told(Append(m, e)) /\ Replying(Append(m, e), loop[t].round, 1)
  BY <1>3, <1>4, <1>5, AnswerTold
<1>8. /\ l \in LoopState /\ l.pc = "tools" /\ l.next = 1 /\ l.round = loop[t].round
      /\ l.messages = Append(m, e)
  <2>1. 1 \in 1 .. MaxCalls
    BY LoopConstants
  <2> HIDE DEF m, e
  <2> QED BY <1>2, <1>5, <2>1 DEF LoopState
<1> HIDE DEF l, m, e
<1>9. Talk(l)
  BY <1>7, <1>8 DEF Talk
<1> QED BY <1>6, <1>8, <1>9, StateStep

LEMMA ReplyStep ==
    ASSUME LoopInv, NEW t \in Session, At(t, "tools"), Reply(t)
    PROVE  LoopInv'
<1> DEFINE m == loop[t].messages
           round == loop[t].round
           next == loop[t].next
           c == Len(m) + 1 - next
           e == [role |-> "tool", round |-> round, n |-> next]
           p == Append(m, e)
           over == next = Calls(t)
           l == [loop[t] EXCEPT !.messages = p,
                                !.next = IF over THEN 1 ELSE next + 1,
                                !.round = IF over THEN round + 1 ELSE round,
                                !.pc = IF over THEN "ask" ELSE "tools"]
<1>1. loop[t] \in LoopState /\ loop[t].pc = "tools"
  BY DEF LoopInv, At
<1>2. /\ m \in Seq(Message) /\ round \in 0 .. MaxRounds - 1 /\ next \in 1 .. MaxCalls
      /\ next \in Nat \ {0} /\ e \in Message
  BY <1>1, LoopConstants DEF LoopState, Message
<1>3. Told(m) /\ Replying(m, round, next)
  BY <1>1 DEF LoopInv, TalkInv, Talk
<1>4. CASE over /\ round + 1 = MaxRounds
  <2>1. Returns(t, "failed")
    BY <1>4 DEF Reply
  <2> QED BY <2>1, ReturnStep
<1>5. CASE ~(over /\ round + 1 = MaxRounds)
  <2>1. Calls(t) = m[c].n
    BY <1>2, <1>3, LatestStart DEF Calls
  <2>2. m[c].n \in 1 .. MaxCalls /\ next <= m[c].n
    BY <1>3 DEF Replying, IsStart, Told, HasReplies
  <2>3. loop' = [loop EXCEPT ![t] = l]
    <3> DEFINE b == IF over THEN 1 ELSE next + 1
               r == IF over THEN round + 1 ELSE round
               to == IF over THEN "ask" ELSE "tools"
    <3>1. loop' = [loop EXCEPT ![t].messages = p, ![t].next = b, ![t].round = r, ![t].pc = to]
      BY <1>1, <1>5 DEF Reply
    <3>2. loop \in [Session -> LoopState]
      BY DEF LoopInv
    <3>3. l = [loop[t] EXCEPT !.messages = p, !.next = b, !.round = r, !.pc = to]
      OBVIOUS
    <3> HIDE DEF l, p, b, r, to
    <3>4. [loop EXCEPT ![t].messages = p, ![t].next = b, ![t].round = r, ![t].pc = to]
            = [loop EXCEPT ![t] = [loop[t] EXCEPT !.messages = p, !.next = b, !.round = r, !.pc = to]]
      BY <3>2 DEF LoopState
    <3> QED BY <3>1, <3>3, <3>4
  <2>4. p \in Seq(Message) /\ Longer(p, m, e)
    BY <1>2, AppendLonger
  <2>5. /\ Told(p)
        /\ next < m[c].n => Replying(p, round, next + 1)
        /\ next = m[c].n => AllAnswered(p, round + 1)
    BY <1>2, <1>3, <2>4, ReplyTold
  <2> HIDE DEF m, p, round, next, e, c, over
  <2>6. CASE over
    <3>1. next = m[c].n /\ round + 1 \in 0 .. MaxRounds - 1
      BY <1>2, <1>5, <2>1, <2>6, LoopConstants DEF over
    <3>2. l \in LoopState /\ l.pc = "ask" /\ l.messages = p /\ l.round = round + 1
      <4>1. 1 \in 1 .. MaxCalls
        BY LoopConstants
      <4> QED BY <1>1, <2>4, <2>6, <3>1, <4>1 DEF LoopState
    <3> HIDE DEF l
    <3>3. Talk(l)
      BY <2>5, <3>1, <3>2 DEF Talk
    <3> QED BY <2>3, <3>2, <3>3, StateStep
  <2>7. CASE ~over
    <3>1. next < m[c].n /\ next + 1 \in 1 .. MaxCalls
      BY <1>2, <2>1, <2>2, <2>7, LoopConstants DEF over
    <3>2. /\ l \in LoopState /\ l.pc = "tools" /\ l.messages = p /\ l.round = round
          /\ l.next = next + 1
      BY <1>1, <1>2, <2>4, <2>7, <3>1 DEF LoopState
    <3> HIDE DEF l
    <3>3. Talk(l)
      BY <2>5, <3>1, <3>2 DEF Talk
    <3> QED BY <2>3, <3>2, <3>3, StateStep
  <2> QED BY <2>6, <2>7
<1> QED BY <1>4, <1>5

-----------------------------------------------------------------------------
(* The two together.                                                       *)

BoundsOK ==
    /\ runs \in [Task -> 0 .. MaxRuns] /\ answers \in 0 .. MaxAnswers
    /\ restarts \in 0 .. MaxRestarts /\ user \in 0 .. MaxUser
    /\ outages \in BOOLEAN

WorkInv == RepoInv /\ LoopInv /\ BoundsOK

LEMMA WorkConstants ==
    Session = Task /\ MaxRuns \in Nat /\ MaxAnswers \in Nat /\ MaxRestarts \in Nat /\ MaxUser \in Nat
BY WorkAssumption

LEMMA RepoRests ==
    ASSUME RepoInv, UNCHANGED repoVars
    PROVE  RepoInv' /\ Kept
<1>1. RepoTypeOK'
  BY DEF repoVars, RepoInv, RepoShape, RepoTypeOK, Exists
<1>2. done' \subseteq reached'
  BY DEF repoVars, RepoInv, RepoShape
<1> QED BY <1>1, <1>2, QuietRepo DEF repoVars

LEMMA ConverseStep ==
    ASSUME LoopInv, NEW t \in Session,
           AnswersText(t) \/ Refuses(t) \/ ServerAwaited(t) \/ Unreachable(t) \/ AnswersCalls(t)
    PROVE  LoopInv'
<1>1. CASE AnswersText(t) \/ Refuses(t)
  BY <1>1, ReturnStep DEF AnswersText, Refuses
<1>2. CASE ServerAwaited(t)
  BY <1>2, ReturnStep, WaitStep DEF ServerAwaited, At
<1>3. CASE Unreachable(t)
  BY <1>3, ReturnStep, WaitStep DEF Unreachable, At
<1> QED BY <1>1, <1>2, <1>3, AnswerStep

LEMMA AgentCommitsStep ==
    ASSUME RepoInv, NEW t \in Task, AgentCommits(t),
           UNCHANGED <<head, conflict, remote, strategy, place, done, reached, result, merge,
                       landed>>
    PROVE  RepoInv' /\ Kept
<1>1. head \in DOMAIN branch /\ tree \in SUBSET Commit /\ conflict \in BOOLEAN
  BY DEF RepoInv, RepoShape, RepoTypeOK, Exists
<1>2. CASE place[t] = "worktree"
  <2>1. t \in DOMAIN branch /\ branch[t].files \in SUBSET Commit
    BY <1>2 DEF RepoInv, RepoShape, RepoTypeOK, Exists, Tip
  <2> QED BY <1>1, <1>2, <2>1, CommitStep DEF AgentCommits
<1>3. CASE place[t] = "main"
  <2>1. CommitOn(head, t, "main", tree) /\ tree' = tree \cup {Fresh}
    BY <1>3 DEF AgentCommits
  <2>2. Fresh \in Commit
    BY <2>1, RepoFacts DEF CommitOn, Fresh, Commit, RepoInv, RepoShape
  <2> QED BY <1>1, <2>1, <2>2, CommitStep
<1> QED BY <1>2, <1>3 DEF AgentCommits

LEMMA UserStep ==
    ASSUME RepoInv, User
    PROVE  RepoInv' /\ Kept
<1>1. /\ UNCHANGED <<remote, strategy, place, done, reached, result, merge, landed>>
      /\ head \in DOMAIN branch /\ head \notin Task /\ tree \in SUBSET Commit /\ conflict \in BOOLEAN
      /\ branch[head] \in Tip
  BY RepoFacts DEF User, RepoInv, RepoShape, RepoTypeOK, Exists
<1>2. CASE UserCommits /\ UNCHANGED <<head, conflict>>
  <2>1. CommitOn(head, Nothing, "main", tree) /\ tree' = tree \cup {Fresh}
    BY <1>2 DEF UserCommits
  <2>2. Fresh \in Commit
    BY <2>1, RepoFacts DEF CommitOn, Fresh, Commit, RepoInv, RepoShape
  <2> QED BY <1>1, <1>2, <2>1, <2>2, CommitStep
<1>3. CASE UserSwitches /\ UNCHANGED <<branch, conflict, made>>
  <2>1. head' \in {Main, Topic} /\ branch[head'] \in Tip /\ tree' = branch[head'].files
    BY <1>3 DEF UserSwitches, RepoInv, RepoShape, RepoTypeOK
  <2>2. RepoTypeOK'
    BY <1>1, <1>3, <2>1 DEF RepoInv, RepoShape, RepoTypeOK, Exists, Tip
  <2> QED BY <1>1, <1>3, <2>2, QuietRepo DEF RepoInv, RepoShape
<1>4. CASE UserAborts /\ UNCHANGED <<branch, head, made>>
  <2>1. RepoTypeOK'
    BY <1>1, <1>4 DEF UserAborts, RepoInv, RepoShape, RepoTypeOK, Exists, Tip
  <2> QED BY <1>1, <1>4, <2>1, QuietRepo DEF RepoInv, RepoShape
<1> QED BY <1>2, <1>3, <1>4 DEF User

LEMMA FinishStep ==
    ASSUME RepoInv, NEW t \in Task, Finish(t)
    PROVE  RepoInv' /\ Kept
<1>1. /\ done' = done \cup {t} /\ reached' = reached \cup {t}
      /\ UNCHANGED <<branch, head, tree, conflict, remote, strategy, place, result, merge,
                     landed, made>>
  BY DEF Finish
<1>2. RepoTypeOK'
  BY <1>1 DEF RepoInv, RepoShape, RepoTypeOK, Exists
<1>3. done' \subseteq reached'
  BY <1>1 DEF RepoInv, RepoShape
<1> QED BY <1>1, <1>2, <1>3, QuietRepo

\* A restart ends the merge in progress.
LEMMA RestartStep ==
    ASSUME RepoInv, LoopInv, Restart
    PROVE  RepoInv' /\ LoopInv' /\ Kept
<1>1. /\ done' = {} /\ merge' = NoMerge /\ result' = [t \in Task |-> "open"]
      /\ UNCHANGED <<branch, head, tree, conflict, remote, strategy, place, reached, landed, made>>
      /\ loop' = [t \in Task |-> Idle]
  BY DEF Restart
<1>2. NoMerge.task = Nothing /\ NoMerge.tip \in Tip /\ NoMerge.seen = {}
  BY DEF NoMerge, NoTip, Tip
<1>3. RepoTypeOK'
  BY <1>1, <1>2 DEF RepoInv, RepoShape, RepoTypeOK, Exists
<1>4. RepoInv' /\ Kept
  BY <1>1, <1>3, QuietRepo
<1>5. Idle \in LoopState /\ Idle.pc = "idle"
  <2>1. << >> \in Seq(Message) /\ 0 \in 0 .. MaxRounds - 1 /\ 1 \in 1 .. MaxCalls
    BY LoopConstants
  <2> QED BY <2>1 DEF Idle, LoopState
<1>6. Talk(Idle)
  BY <1>5 DEF Talk
<1>7. LoopInv'
  BY <1>1, <1>5, <1>6, WorkConstants DEF LoopInv, TalkInv
<1> QED BY <1>4, <1>7

LEMMA MergesStep ==
    ASSUME RepoInv, MergeStep
    PROVE  RepoInv' /\ Kept
BY FfWriteStep, FfCheckStep, MergeCommitStep, GitziStep, PushStep DEF MergeStep

LEMMA WorkStep ==
    ASSUME WorkInv, [Next]_workVars
    PROVE  WorkInv' /\ Kept
<1> USE DEF WorkInv
<1>1. CASE UNCHANGED workVars
  <2>1. RepoInv' /\ Kept
    BY <1>1, RepoRests DEF workVars, repoVars
  <2>2. LoopInv' /\ BoundsOK'
    BY <1>1 DEF workVars, LoopInv, TalkInv, BoundsOK
  <2> QED BY <2>1, <2>2
<1>2. ASSUME NEW t \in Task, StartRun(t)
      PROVE  WorkInv' /\ Kept
  <2>1. RepoInv' /\ Kept
    BY <1>2, SetupStep DEF StartRun
  <2>2. LoopInv'
    BY <1>2, BeginStep, WorkConstants DEF StartRun
  <2>3. BoundsOK'
    BY <1>2, WorkConstants DEF StartRun, BoundsOK
  <2> QED BY <2>1, <2>2, <2>3
<1>3. ASSUME NEW t \in Task, Converse(t)
      PROVE  WorkInv' /\ Kept
  <2>1. RepoInv' /\ Kept
    BY <1>3, RepoRests DEF Converse, repoVars
  <2>2. LoopInv'
    BY <1>3, ConverseStep, WorkConstants DEF Converse
  <2>3. BoundsOK'
    BY <1>3, WorkConstants DEF Converse, BoundsOK
  <2> QED BY <2>1, <2>2, <2>3
<1>4. ASSUME NEW t \in Task, ToolCommits(t) \/ ToolCall(t)
      PROVE  WorkInv' /\ Kept
  <2>1. LoopInv'
    BY <1>4, ReplyStep, WorkConstants DEF ToolCommits, ToolCall
  <2>2. BoundsOK'
    BY <1>4 DEF ToolCommits, ToolCall, bounds, BoundsOK
  <2>3. RepoInv' /\ Kept
    BY <1>4, AgentCommitsStep, RepoRests DEF ToolCommits, ToolCall, repoVars
  <2> QED BY <2>1, <2>2, <2>3
<1>5. ASSUME NEW t \in Task, Finish(t)
      PROVE  WorkInv' /\ Kept
  <2>1. LoopInv' /\ BoundsOK'
    BY <1>5 DEF Finish, bounds, LoopInv, TalkInv, BoundsOK
  <2> QED BY <1>5, <2>1, FinishStep
<1>6. CASE Merges
  <2>1. LoopInv' /\ BoundsOK'
    BY <1>6 DEF Merges, bounds, LoopInv, TalkInv, BoundsOK
  <2> QED BY <1>6, <2>1, MergesStep DEF Merges
<1>7. CASE User
  <2>1. LoopInv' /\ BoundsOK'
    BY <1>7, WorkConstants DEF User, LoopInv, TalkInv, BoundsOK
  <2> QED BY <1>7, <2>1, UserStep, WorkConstants
<1>8. CASE Restart
  <2>1. BoundsOK'
    BY <1>8, WorkConstants DEF Restart, BoundsOK
  <2> QED BY <1>8, <2>1, RestartStep
<1> QED BY <1>1, <1>2, <1>3, <1>4, <1>5, <1>6, <1>7, <1>8 DEF Next, AgentStep

LEMMA WorkStart ==
    ASSUME Init
    PROVE  WorkInv
<1>1. /\ RepoInit /\ loop = [t \in Task |-> Idle]
      /\ runs = [t \in Task |-> MaxRuns] /\ answers = MaxAnswers /\ restarts = MaxRestarts
      /\ user = MaxUser /\ outages = TRUE
  BY DEF Init, Opening
<1>2. PICK other \in {{Topic}, {Topic, Gitzi}} :
         branch = [b \in {Main} \cup other |-> [past |-> {0}, files |-> {0}]]
  BY <1>1 DEF RepoInit
<1>3. /\ Main \in DOMAIN branch /\ Topic \in DOMAIN branch
      /\ DOMAIN branch \subseteq {Main, Topic, Gitzi}
      /\ \A b \in DOMAIN branch : branch[b] = [past |-> {0}, files |-> {0}]
  BY <1>2
<1>4. /\ made = << >> /\ made \in Seq(Author) /\ Len(made) = 0
      /\ [past |-> {0}, files |-> {0}] \in Tip /\ NoTip \in Tip /\ 0 \in Commit
  BY <1>1, RepoFacts DEF RepoInit, Tip, Commit, NoTip
<1>5. /\ NoMerge.task = Nothing /\ NoMerge.tip = NoTip /\ NoMerge.seen = {} /\ NoTip.past = {}
      /\ Unmerged \in [into : Branch \cup {Nothing}, what : SUBSET Commit]
      /\ Unmerged.into = Nothing
  BY DEF NoMerge, NoTip, Unmerged, Branch
<1>6. RepoTypeOK
  <2>1. DOMAIN branch \subseteq Branch /\ \A b \in DOMAIN branch : branch[b] \in Tip
    BY <1>3, <1>4 DEF Branch
  <2>2. DOMAIN remote = {}
    BY <1>1 DEF RepoInit
  <2>3. head \in {Main, Topic} /\ Exists(head) /\ tree \subseteq Commit /\ conflict \in BOOLEAN
        /\ strategy \in Strategies /\ done \subseteq Task /\ reached \subseteq Task
    BY <1>1, <1>3, <1>4 DEF RepoInit, Exists
  <2>4. /\ place \in [Task -> {"none", "worktree", "main"}]
        /\ result \in [Task -> {"open", "merged", "question", "failed"}]
        /\ landed \in [Task -> [into : Branch \cup {Nothing}, what : SUBSET Commit]]
    BY <1>1, <1>5 DEF RepoInit
  <2>5. merge.task \in Task \cup {Nothing} /\ merge.tip \in Tip /\ merge.seen \subseteq Commit
    BY <1>1, <1>4, <1>5 DEF RepoInit
  <2> QED BY <2>1, <2>2, <2>3, <2>4, <2>5 DEF RepoTypeOK
<1>7. RepoShape
  <2>1. \A b \in DOMAIN branch : branch[b].past \subseteq 0 .. Len(made)
    BY <1>3, <1>4
  <2> QED BY <1>1, <1>3, <1>4, <1>5, <1>6, <2>1, RepoFacts DEF RepoInit, RepoShape, Exists
<1>8. OwnWork /\ Landed /\ Ahead
  BY <1>1, <1>3, <1>5, RepoFacts DEF RepoInit, OwnWork, Landed, Ahead
<1>9. LoopInv
  <2>1. Idle \in LoopState /\ Idle.pc = "idle"
    <3>1. << >> \in Seq(Message) /\ 0 \in 0 .. MaxRounds - 1 /\ 1 \in 1 .. MaxCalls
      BY LoopConstants
    <3> QED BY <3>1 DEF Idle, LoopState
  <2> QED BY <1>1, <2>1, WorkConstants DEF LoopInv, TalkInv, Talk
<1>10. BoundsOK
  BY <1>1, WorkConstants DEF BoundsOK
<1> QED BY <1>7, <1>8, <1>9, <1>10 DEF WorkInv, RepoInv

LEMMA WorkInvariant == Spec => []WorkInv
<1>1. Init => WorkInv
  BY WorkStart
<1>2. WorkInv /\ [Next]_workVars => WorkInv'
  BY WorkStep
<1> QED BY <1>1, <1>2, PTL DEF Spec

-----------------------------------------------------------------------------
(* The theorems.                                                           *)

\* Repository, runs and bounds keep the shape the code gives them, for every set
\* of tasks and every bound.
THEOREM WorkTypeCorrect == Spec => []WorkTypeOK
<1>1. WorkInv => WorkTypeOK
  <2> SUFFICES ASSUME WorkInv
               PROVE  WorkTypeOK
    OBVIOUS
  <2>1. LoopTypeOK
    BY DEF WorkInv, LoopInv, LoopState, LoopTypeOK
  <2> QED BY <2>1 DEF WorkInv, RepoInv, RepoShape, BoundsOK, WorkTypeOK
<1> QED BY <1>1, WorkInvariant, PTL

\* Whatever the sizes of the window, of a run and of an answer: what is sent to
\* the model is a conversation it accepts, with the task at its beginning, the
\* latest exchange at its end, and of bounded length.
THEOREM WindowsArePaired == Spec => []WindowPaired
<1>1. WorkInv => WindowPaired
  <2> SUFFICES ASSUME WorkInv, NEW t \in Session, At(t, "ask")
               PROVE  LET sent == Window(loop[t].messages)
                      IN  /\ Paired(sent)
                          /\ IsPrefix(Preamble, sent)
                          /\ Last(sent) = Last(loop[t].messages)
                          /\ Len(sent) <= 2 + MaxExchanges * (1 + MaxCalls)
    BY DEF WindowPaired
  <2>1. Told(loop[t].messages) /\ AllAnswered(loop[t].messages, loop[t].round)
    BY DEF At, WorkInv, LoopInv, TalkInv, Talk
  <2> QED BY <2>1, WindowFacts
<1> QED BY <1>1, WorkInvariant, PTL

\* What has been reported as merged stays merged, through every later commit,
\* merge, forced fast-forward and restart.
THEOREM MergedStaysMerged == Spec => []Landed
<1>1. WorkInv => Landed
  BY DEF WorkInv, RepoInv
<1> QED BY <1>1, WorkInvariant, PTL

\* An agent's commit in its worktree is in no other branch before its task has
\* been in Done, although worktrees fork off the user's branches and merges and
\* forced updates go into them.
THEOREM DoneWorkOnly == Spec => []OnlyDoneWork
<1>1. WorkInv => OnlyDoneWork
  <2> SUFFICES ASSUME WorkInv, NEW b \in DOMAIN branch \ Task, NEW c \in branch[b].past \ {0},
                      made[c].by # Nothing, made[c].where = "worktree", made[c].by \notin reached
               PROVE  FALSE
    BY DEF OnlyDoneWork
  <2>1. made[c].by = b
    BY DEF WorkInv, RepoInv, OwnWork, Unfinished
  <2>2. c \in 1 .. Len(made) /\ made \in Seq(Author)
    BY DEF WorkInv, RepoInv, RepoShape
  <2>3. made[c] \in Author
    BY <2>2
  <2> QED BY <2>1, <2>3 DEF Author
<1> QED BY <1>1, WorkInvariant, PTL

\* No branch loses a commit, main excepted, and main only what came to it
\* between the check of a fast-forward and its forced write.
THEOREM HistoryIsKept == Spec => HistoryKept
<1>1. WorkInv /\ [Next]_workVars
         => [\A b \in DOMAIN branch :
                /\ b \in DOMAIN branch'
                /\ branch[b].past \subseteq branch'[b].past
                   \/ (b = Main /\ merge # NoMerge /\ merge.seen \subseteq branch'[b].past)]_repoVars
  BY WorkStep DEF Kept
<1> QED BY <1>1, WorkInvariant, PTL DEF Spec, HistoryKept

================================================================================
