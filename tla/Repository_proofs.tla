--------------------------- MODULE Repository_proofs ---------------------------
(***************************************************************************)
(* Theorems about the two components that work on the repository of an     *)
(* issue.  About IssueWorkspace, for any calls of any number of runs, each *)
(* with a workspace of its own: what a patch says of the work of its       *)
(* issue, that no call loses its directory, and when a round has no agent. *)
(* About RepoContext, for any budgets and any sizes of files: the budgets, *)
(* the bundle, and what the prompt says of them.                           *)
(***************************************************************************)
EXTENDS IssueWorkspace, RepoContext, Counting, SequenceTheorems, TLAPS

Copied == {"copy", "copy_fallback"}

\* Where a call has not got its directory yet, and where no CLI of its own runs.
Preparing == {"clear", "create"}

Quiet == Preparing \cup {"solve", "diff", "done", "raised"}

\* A call that has not returned has rounds left: TypeOK alone is not inductive.
RoundsLeft ==
  \A w \in Workers : pc[w] \in {"clear", "create", "solve", "cli", "diff"} => round[w] < MaxRounds

\* Between the rounds a call has no CLI, whoever shares its directory.
NoOwnCli == \A w \in Workers : pc[w] \in Quiet => cli[w] = "none"

\* What a copy may have become by what CLIs told git.
Copies == {"copy", "added", "checkout"}

\* Nothing takes the source away.
SourceInv == kind[Source] \in IF SourceIsGit THEN {"checkout"} ELSE Copies

\* git knows nothing of a copy, unless a CLI has told it.
CopiesInv ==
  /\ \A d \in Dirs : kind[d] \in {"absent", "copy"} => changed[d] = {}
  /\ GitUntouched => \A d \in Dirs :
       kind[d] # "added" /\ (kind[d] = "checkout" => d = Source /\ SourceIsGit)

\* The directory of a call: what prepare recorded is what is there from then on.
DirInv(w) ==
  /\ recorded[w] = "source" => mode = "source"
  /\ recorded[w] = "worktree" => mode = "worktree" /\ kind[Workspace(w)] = "worktree"
  /\ recorded[w] \in Copied => mode # "source" /\ kind[Workspace(w)] \in Copies
  /\ pc[w] \in Preparing <=> recorded[w] = "none"
  /\ pc[w] \in Preparing => round[w] = 0 /\ work[w] = {}
  /\ pc[w] = "create" => mode # "source" /\ kind[Workspace(w)] = "absent"

\* Its CLI: none between the rounds, and never in a directory that was removed.
CliInv(w) ==
  /\ pc[w] # "raised"
  /\ cli[w] # "adrift"
  /\ pc[w] \in Quiet => cli[w] = "none"

\* Its changes: a workspace has those of its call alone, the source those of all.
ChangeInv(w) ==
  IF mode = "source"
  THEN SourceIsGit /\ GitUntouched /\ "changed" \in work[w] => w \in changed[Source]
  ELSE /\ changed[Workspace(w)] \subseteq {w}
       /\ w \in changed[Workspace(w)] => "changed" \in work[w]
       /\ kind[Workspace(w)] = "worktree" /\ "changed" \in work[w] /\ "git" \notin work[w] =>
            w \in changed[Workspace(w)]

\* What PatchShowsWork says of one call.
PatchInv(w) ==
  round[w] > 0 /\ pc[w] \in {"solve", "done"} =>
    /\ recorded[w] = "worktree" =>
         /\ patch[w] \subseteq {w}
         /\ w \in patch[w] => "changed" \in work[w]
         /\ "changed" \in work[w] /\ "git" \notin work[w] => w \in patch[w]
    /\ recorded[w] = "source" /\ SourceIsGit /\ GitUntouched =>
         ("changed" \in work[w] => w \in patch[w])
    /\ recorded[w] \in Copied /\ GitUntouched => patch[w] \subseteq {Outsider}

CallInv(w) == DirInv(w) /\ CliInv(w) /\ ChangeInv(w) /\ PatchInv(w)

Common == SourceInv /\ CopiesInv

WorkspaceInv == UniqueIds => Common /\ \A w \in Workers : CallInv(w)

-----------------------------------------------------------------------------
\* The workspace of a call is a directory and not the source; with an issue_id for
\* each call of a run it is no other call's.
LEMMA WorkspaceFacts ==
  ASSUME NEW w \in Workers
  PROVE  /\ Workspace(w) \in Runs \X Ids /\ Workspace(w) \in Dirs /\ Workspace(w) # Source
         /\ Source \in Dirs /\ DirOf(w) \in Dirs
         /\ UniqueIds => \A v \in Workers : Workspace(v) = Workspace(w) => v = w
<1>1. IdOf[w] \in Ids /\ RunOf[w] \in Runs
  BY WorkspaceAssumption
<1>2. Workspace(w) \in Runs \X Ids /\ Workspace(w) # Source
  BY <1>1, SourceAssumption DEF Workspace
<1>3. QED
  BY <1>2 DEF Dirs, DirOf, UniqueIds, Workspace

LEMMA TypeInit == Init => TypeOK /\ RoundsLeft /\ NoOwnCli
<1> SUFFICES ASSUME Init PROVE TypeOK /\ RoundsLeft /\ NoOwnCli
  OBVIOUS
<1>1. docker \in BOOLEAN
  BY DEF Init
<1>2. kind \in [Dirs -> {"absent", "checkout", "worktree", "copy", "added"}]
  BY DEF Init
<1>3. mode \in Modes /\ registered = {} /\ changed = [d \in Dirs |-> {}]
  BY DEF Init
<1>4. /\ pc = [w \in Workers |-> "clear"] /\ round = [w \in Workers |-> 0]
      /\ recorded = [w \in Workers |-> "none"] /\ cli = [w \in Workers |-> "none"]
      /\ patch = [w \in Workers |-> {}] /\ work = [w \in Workers |-> {}]
  BY DEF Init
<1>5. QED
  BY <1>1, <1>2, <1>3, <1>4, WorkspaceAssumption DEF TypeOK, RoundsLeft, NoOwnCli

\* The diff of a directory is of calls and the outsider.
LEMMA DiffType ==
  ASSUME TypeOK, NEW d \in Dirs
  PROVE  DiffOf(d) \in SUBSET (Workers \cup {Outsider})
<1>1. \A e \in Dirs : changed[e] \in SUBSET Workers
  BY DEF TypeOK
<1>2. CASE d \in OwnRepo
  BY <1>1, <1>2 DEF DiffOf, OwnRepo, Borrowed
<1>3. CASE d \notin OwnRepo /\ d \in Borrowed /\ Enclosed
  <2>1. DiffOf(d) = {Outsider} \cup UNION { changed[e] : e \in Borrowed }
    BY <1>3 DEF DiffOf
  <2>2. UNION { changed[e] : e \in Borrowed } \subseteq Workers
    BY <1>1 DEF Borrowed
  <2>3. QED
    BY <2>1, <2>2
<1>4. CASE d \notin OwnRepo /\ ~(d \in Borrowed /\ Enclosed)
  BY <1>4 DEF DiffOf
<1>5. QED
  BY <1>2, <1>3, <1>4

\* The type invariant over a step: one step for each action.
LEMMA TypeStep ==
  TypeOK /\ RoundsLeft /\ [Next]_vars => TypeOK' /\ RoundsLeft'
<1> SUFFICES ASSUME TypeOK, RoundsLeft, [Next]_vars
             PROVE  TypeOK' /\ RoundsLeft'
  OBVIOUS
<1>1. CASE UNCHANGED vars
  BY <1>1 DEF TypeOK, RoundsLeft, vars, configVars, dirVars
<1>2. CASE Next
  <2>1. PICK w \in Workers :
          \/ UseSource(w) \/ ClearOld(w) \/ AddWorktree(w) \/ CopyTree(w)
          \/ RefuseCli(w) \/ StartCli(w) \/ Edit(w) \/ FinishCli(w)
          \/ TimeoutCli(w) \/ LeftoverEnds(w) \/ TakeDiff(w)
    BY <1>2 DEF Next
  <2>2. mode' \in Modes /\ docker' \in BOOLEAN
    BY <1>2 DEF Next, configVars, TypeOK
  <2> USE <2>2, WorkspaceFacts DEF TypeOK, RoundsLeft, GoTo, dirVars
  <2>3. CASE UseSource(w)
    BY <2>3 DEF UseSource
  <2>4. CASE ClearOld(w)
    BY <2>4 DEF ClearOld
  <2>5. CASE AddWorktree(w)
    BY <2>5 DEF AddWorktree
  <2>6. CASE CopyTree(w)
    BY <2>6 DEF CopyTree
  <2>7. CASE RefuseCli(w)
    BY <2>7 DEF RefuseCli
  <2>8. CASE StartCli(w)
    <3>1. /\ UNCHANGED <<round, changed, registered, recorded, patch, work>>
          /\ pc[w] = "solve"
          /\ pc' \in {[pc EXCEPT ![w] = "raised"], [pc EXCEPT ![w] = "cli"]}
          /\ cli' \in {cli, [cli EXCEPT ![w] = "here"]}
          /\ kind' \in {kind, [kind EXCEPT ![DirOf(w)] = "copy"],
                        [kind EXCEPT ![DirOf(w)] = kind[DirOf(w)]]}
      BY <2>8 DEF StartCli
    <3>2. kind' \in [Dirs -> {"absent", "checkout", "worktree", "copy", "added"}]
      BY <3>1
    <3>3. QED
      BY <3>1, <3>2
  <2>9. CASE Edit(w)
    <3>1. /\ UNCHANGED <<pc, round, registered, recorded, cli, patch>>
          /\ \E what \in {"changed", "new", "git"} : Does(w, what)
      BY <2>9 DEF Edit, ChangeFiles, MakeFiles, StageFiles, InitRepo, AddToOuter
    <3>2. work' \in [Workers -> SUBSET {"changed", "new", "git"}]
      BY <3>1 DEF Does
    <3>3. /\ kind' \in [Dirs -> {"absent", "checkout", "worktree", "copy", "added"}]
          /\ changed' \in [Dirs -> SUBSET Workers]
      BY <2>9 DEF Edit, ChangeFiles, MakeFiles, StageFiles, InitRepo, AddToOuter, Does
    <3>4. QED
      BY <3>1, <3>2, <3>3
  <2>10. CASE FinishCli(w)
    BY <2>10 DEF FinishCli
  <2>11. CASE TimeoutCli(w)
    BY <2>11 DEF TimeoutCli
  <2>12. CASE LeftoverEnds(w)
    BY <2>12 DEF LeftoverEnds
  <2>13. CASE TakeDiff(w)
    <3>1. DiffOf(DirOf(w)) \in SUBSET (Workers \cup {Outsider})
      BY DiffType
    <3>2. patch' \in [Workers -> SUBSET (Workers \cup {Outsider})]
      BY <2>13, <3>1 DEF TakeDiff
    <3>3. /\ round[w] \in Nat /\ round[w] < MaxRounds /\ round' = [round EXCEPT ![w] = @ + 1]
          /\ \/ round[w] + 1 < MaxRounds /\ pc' = [pc EXCEPT ![w] = "solve"]
             \/ pc' = [pc EXCEPT ![w] = "done"]
      BY <2>13 DEF TakeDiff
    <3>4. round' \in [Workers -> 0..MaxRounds] /\ RoundsLeft'
      BY <3>3, WorkspaceAssumption
    <3>5. QED
      BY <2>13, <3>2, <3>3, <3>4 DEF TakeDiff
  <2>14. QED
    BY <2>1, <2>3, <2>4, <2>5, <2>6, <2>7, <2>8, <2>9, <2>10, <2>11, <2>12, <2>13
<1>3. QED
  BY <1>1, <1>2

\* A call has a CLI of its own only from its start to what a timeout left of it.
LEMMA NoOwnStep == TypeOK /\ NoOwnCli /\ [Next]_vars => NoOwnCli'
<1> SUFFICES ASSUME TypeOK, NoOwnCli, [Next]_vars PROVE NoOwnCli'
  OBVIOUS
<1>1. CASE UNCHANGED vars
  BY <1>1 DEF NoOwnCli, vars
<1>2. CASE Next
  <2>1. PICK w \in Workers :
          \/ UseSource(w) \/ ClearOld(w) \/ AddWorktree(w) \/ CopyTree(w)
          \/ RefuseCli(w) \/ StartCli(w) \/ Edit(w) \/ FinishCli(w)
          \/ TimeoutCli(w) \/ LeftoverEnds(w) \/ TakeDiff(w)
    BY <1>2 DEF Next
  <2> USE DEF TypeOK, NoOwnCli, Quiet, Preparing, GoTo
  <2>2. CASE UseSource(w) \/ ClearOld(w) \/ AddWorktree(w) \/ CopyTree(w)
    BY <2>2 DEF UseSource, ClearOld, AddWorktree, CopyTree
  <2>3. CASE RefuseCli(w) \/ StartCli(w) \/ TakeDiff(w)
    BY <2>3 DEF RefuseCli, StartCli, TakeDiff
  <2>4. CASE FinishCli(w) \/ TimeoutCli(w) \/ LeftoverEnds(w)
    BY <2>4 DEF FinishCli, TimeoutCli, LeftoverEnds
  <2>5. CASE Edit(w)
    BY <2>5 DEF Edit, ChangeFiles, MakeFiles, StageFiles, InitRepo, AddToOuter
  <2>6. QED
    BY <2>1, <2>2, <2>3, <2>4, <2>5
<1>3. QED
  BY <1>1, <1>2

-----------------------------------------------------------------------------
\* WorkspaceInv over each action.  `w` is the call that acts; of any other call `v`
\* it may only add the copy to the checkout around it, and, with the same source,
\* add changes to it.
LEMMA OthersStay ==
  ASSUME TypeOK, NEW v \in Workers, CallInv(v),
         UNCHANGED <<mode, pc[v], round[v], recorded[v], patch[v], work[v], cli[v]>>,
         \/ UNCHANGED <<kind[Workspace(v)], changed[Workspace(v)]>>
         \/ /\ kind[Workspace(v)] \in Copies /\ kind'[Workspace(v)] \in Copies
            /\ changed'[Workspace(v)] = {},
         GitUntouched' => GitUntouched /\ changed[Source] \subseteq changed'[Source]
  PROVE  CallInv(v)'
<1>1. Workspace(v)' = Workspace(v)
  BY DEF Workspace
<1>2. DirInv(v)'
  BY <1>1 DEF CallInv, DirInv, Copies
<1>3. CliInv(v)'
  BY DEF CallInv, CliInv
<1>4. ChangeInv(v)'
  BY <1>1 DEF CallInv, ChangeInv, Copies
<1>5. PatchInv(v)'
  BY DEF CallInv, PatchInv
<1>6. QED
  BY <1>2, <1>3, <1>4, <1>5 DEF CallInv

\* prepare.
LEMMA PrepareStep ==
  ASSUME TypeOK, UniqueIds, Common, \A v \in Workers : CallInv(v),
         NEW w \in Workers, UNCHANGED mode,
         UseSource(w) \/ ClearOld(w) \/ AddWorktree(w) \/ CopyTree(w)
  PROVE  Common' /\ \A v \in Workers : CallInv(v)'
<1> USE WorkspaceFacts DEF TypeOK, GoTo, dirVars
<1>1. \A v \in Workers : Workspace(v) = Workspace(w) => v = w
  OBVIOUS
<1>2. UNCHANGED work /\ (GitUntouched' => GitUntouched)
  BY DEF UseSource, ClearOld, AddWorktree, CopyTree, GitUntouched
<1>3. CASE UseSource(w)
  <2>1. CallInv(w)'
    BY <1>3 DEF UseSource, CallInv, DirInv, CliInv, ChangeInv, PatchInv, Preparing, Quiet, Copied,
                Workspace, GitUntouched
  <2>2. \A v \in Workers \ {w} : CallInv(v)'
    BY <1>2, <1>3, OthersStay DEF UseSource
  <2>3. QED
    BY <1>2, <1>3, <2>1, <2>2 DEF UseSource, Common, SourceInv, CopiesInv
<1>4. CASE ClearOld(w)
  <2>1. cli' = cli
    <3>1. \A v \in Workers : cli[v] = "here" => DirOf(v) # Workspace(w)
      BY <1>1, <1>4 DEF ClearOld, DirOf, CallInv, CliInv, Quiet, Preparing
    <3>2. QED
      BY <1>4, <3>1 DEF ClearOld
  <2>2. CallInv(w)'
    <3>1. /\ pc[w] = "clear" /\ mode # "source" /\ UNCHANGED <<round, recorded, patch, work>>
          /\ pc'[w] = "create" /\ kind'[Workspace(w)] = "absent" /\ changed'[Workspace(w)] = {}
      BY <1>4 DEF ClearOld
    <3>2. recorded[w] = "none" /\ round[w] = 0 /\ work[w] = {} /\ cli[w] = "none"
      BY <3>1 DEF CallInv, DirInv, CliInv, Preparing, Quiet
    <3>3. Workspace(w)' = Workspace(w)
      BY DEF Workspace
    <3>4. QED
      BY <2>1, <3>1, <3>2, <3>3
      DEF CallInv, DirInv, CliInv, ChangeInv, PatchInv, Preparing, Quiet, Copied
  <2>3. \A v \in Workers \ {w} : CallInv(v)'
    BY <1>1, <1>2, <1>4, <2>1, OthersStay DEF ClearOld
  <2>4. Common'
    <3>1. SourceInv'
      BY <1>4 DEF ClearOld, Common, SourceInv
    <3>2. \A d \in Dirs : kind'[d] = (IF d = Workspace(w) THEN "absent" ELSE kind[d])
                          /\ changed'[d] = (IF d = Workspace(w) THEN {} ELSE changed[d])
      BY <1>4 DEF ClearOld
    <3>3. QED
      BY <1>2, <3>1, <3>2 DEF Common, CopiesInv
  <2>5. QED
    BY <2>2, <2>3, <2>4
<1>5. CASE AddWorktree(w)
  <2>1. /\ pc[w] = "create" /\ mode = "worktree" /\ UNCHANGED <<round, changed, cli, patch, work>>
        /\ kind[Workspace(w)] = "absent" /\ changed[Workspace(w)] = {}
        /\ kind' = [kind EXCEPT ![Workspace(w)] = "worktree"]
        /\ pc'[w] = "solve" /\ recorded'[w] = "worktree"
    BY <1>5 DEF AddWorktree, Common, CopiesInv
  <2>2. CallInv(w)'
    <3>1. round[w] = 0 /\ work[w] = {} /\ cli[w] = "none" /\ kind'[Workspace(w)] = "worktree"
      BY <2>1 DEF CallInv, DirInv, CliInv, Preparing, Quiet
    <3>2. Workspace(w)' = Workspace(w)
      BY DEF Workspace
    <3>3. QED
      BY <2>1, <3>1, <3>2
      DEF CallInv, DirInv, CliInv, ChangeInv, PatchInv, Preparing, Quiet, Copied
  <2>3. \A v \in Workers \ {w} : CallInv(v)'
    BY <1>1, <1>2, <1>5, OthersStay DEF AddWorktree
  <2>4. Common'
    BY <1>2, <2>1 DEF Common, SourceInv, CopiesInv
  <2>5. QED
    BY <2>2, <2>3, <2>4
<1>6. CASE CopyTree(w)
  <2>1. /\ kind[Workspace(w)] = "absent" /\ changed[Workspace(w)] = {} /\ mode # "source"
        /\ kind' = [kind EXCEPT ![Workspace(w)] = "copy"]
        /\ recorded' \in {[recorded EXCEPT ![w] = "copy"], [recorded EXCEPT ![w] = "copy_fallback"]}
        /\ pc[w] = "create" /\ pc' = [pc EXCEPT ![w] = "solve"]
        /\ UNCHANGED <<round, changed, registered, cli, patch, work>>
    BY <1>6 DEF CopyTree, CallInv, DirInv, Common, CopiesInv
  <2>2. CallInv(w)'
    <3>1. round[w] = 0 /\ work[w] = {} /\ cli[w] = "none"
      BY <2>1 DEF CallInv, DirInv, CliInv, Preparing, Quiet
    <3>2. /\ Workspace(w)' = Workspace(w) /\ kind'[Workspace(w)] = "copy"
          /\ recorded'[w] \in Copied /\ pc'[w] = "solve"
      BY <2>1 DEF Workspace, Copied
    <3>3. changed'[Workspace(w)] = {} /\ round'[w] = 0 /\ work'[w] = {} /\ cli'[w] = "none"
      BY <2>1, <3>1
    <3>4. QED
      BY <2>1, <3>2, <3>3 DEF CallInv, DirInv, CliInv, ChangeInv, PatchInv, Preparing, Quiet, Copied,
                              Copies
  <2>3. \A v \in Workers \ {w} : CallInv(v)'
    BY <1>1, <1>2, <2>1, OthersStay
  <2>4. Common'
    BY <1>2, <2>1 DEF Common, SourceInv, CopiesInv
  <2>5. QED
    BY <2>2, <2>3, <2>4
<1>7. QED
  BY <1>3, <1>4, <1>5, <1>6

\* The call's directory is there from its first round on, and what it is.
LEMMA DirThere ==
  ASSUME TypeOK, Common, NEW w \in Workers, CallInv(w), pc[w] \notin Preparing
  PROVE  /\ kind[DirOf(w)] # "absent"
         /\ recorded[w] \in {"source", "worktree"} \cup Copied
         /\ recorded[w] = "source" => DirOf(w) = Source
         /\ recorded[w] # "source" => DirOf(w) = Workspace(w)
<1>1. recorded[w] # "none"
  BY DEF CallInv, DirInv
<1>2. recorded[w] \in {"source", "worktree"} \cup Copied
  BY <1>1 DEF TypeOK, Copied
<1>3. CASE recorded[w] = "source"
  BY <1>2, <1>3 DEF CallInv, DirInv, DirOf, Common, SourceInv, Copied, Copies
<1>4. CASE recorded[w] = "worktree"
  BY <1>2, <1>4 DEF CallInv, DirInv, DirOf, Copied
<1>5. CASE recorded[w] \in Copied
  BY <1>2, <1>5 DEF CallInv, DirInv, DirOf, Copied, Copies
<1>6. QED
  BY <1>2, <1>3, <1>4, <1>5

\* The rounds, but for the edits and the diff.
LEMMA RoundStep ==
  ASSUME TypeOK, UniqueIds, Common, \A v \in Workers : CallInv(v),
         NEW w \in Workers, UNCHANGED mode,
         RefuseCli(w) \/ StartCli(w) \/ FinishCli(w) \/ TimeoutCli(w) \/ LeftoverEnds(w)
  PROVE  Common' /\ \A v \in Workers : CallInv(v)'
<1>1. pc[w] \in {"solve", "cli", "timeout"}
  BY DEF RefuseCli, StartCli, FinishCli, TimeoutCli, LeftoverEnds
<1>2. kind[DirOf(w)] # "absent"
  BY <1>1, DirThere DEF Preparing
<1>3. /\ UNCHANGED <<round, dirVars, recorded, patch, work>>
      /\ \/ pc[w] = "solve" /\ pc' = [pc EXCEPT ![w] = "diff"] /\ cli' = cli
         \/ pc[w] = "solve" /\ pc' = [pc EXCEPT ![w] = "cli"] /\ cli' = [cli EXCEPT ![w] = "here"]
         \/ pc[w] = "cli" /\ pc' = [pc EXCEPT ![w] = "diff"] /\ cli' = [cli EXCEPT ![w] = "none"]
         \/ /\ pc[w] = "cli" /\ pc' = [pc EXCEPT ![w] = "timeout"]
            /\ cli' \in {cli, [cli EXCEPT ![w] = "none"]}
         \/ pc[w] = "timeout" /\ pc' = pc /\ cli' = [cli EXCEPT ![w] = "none"]
  <2>1. CASE RefuseCli(w)
    BY <2>1 DEF RefuseCli, GoTo
  <2>2. CASE StartCli(w)
    <3>1. kind' = [kind EXCEPT ![DirOf(w)] = kind[DirOf(w)]]
      BY <1>2, <2>2 DEF StartCli
    <3>2. kind' = kind
      BY <3>1, WorkspaceFacts DEF TypeOK
    <3>3. QED
      BY <1>2, <2>2, <3>2 DEF StartCli, GoTo, dirVars
  <2>3. CASE FinishCli(w)
    BY <2>3 DEF FinishCli, GoTo
  <2>4. CASE TimeoutCli(w)
    BY <2>4 DEF TimeoutCli, GoTo
  <2>5. CASE LeftoverEnds(w)
    BY <2>5 DEF LeftoverEnds, GoTo
  <2>6. QED
    BY <2>1, <2>2, <2>3, <2>4, <2>5
<1>4. CallInv(w)'
  <2>1. CallInv(w) /\ Workspace(w)' = Workspace(w)
    BY DEF Workspace
  <2>2. DirInv(w)'
    BY <1>3, <2>1 DEF CallInv, DirInv, dirVars, Preparing, TypeOK
  <2>3. CliInv(w)'
    BY <1>3, <2>1 DEF CallInv, CliInv, Quiet, Preparing, TypeOK
  <2>4. ChangeInv(w)'
    BY <1>3, <2>1 DEF CallInv, ChangeInv, dirVars, GitUntouched
  <2>5. PatchInv(w)'
    BY <1>3, <2>1 DEF CallInv, PatchInv, TypeOK, GitUntouched
  <2>6. QED
    BY <2>2, <2>3, <2>4, <2>5 DEF CallInv
<1>5. \A v \in Workers \ {w} : CallInv(v)'
  BY <1>3, OthersStay DEF dirVars, TypeOK, GitUntouched
<1>6. QED
  BY <1>3, <1>4, <1>5 DEF Common, SourceInv, CopiesInv, GitUntouched, dirVars

\* What a CLI does to files: the call is in a round or has left one.  Of a workspace
\* it changes its own, and of others at most that the checkout around knows them.
LEMMA EditFacts ==
  ASSUME TypeOK, UniqueIds, Common, \A v \in Workers : CallInv(v),
         NEW w \in Workers, UNCHANGED mode, Edit(w)
  PROVE  /\ UNCHANGED <<pc, round, registered, recorded, cli, patch>>
         /\ pc[w] \notin Quiet /\ kind[DirOf(w)] # "absent"
         /\ \A v \in Workers : work[v] \subseteq work'[v] /\ (v # w => work'[v] = work[v])
         /\ GitUntouched' => GitUntouched /\ UNCHANGED kind
         /\ GitUntouched' => \A d \in Dirs : changed[d] \subseteq changed'[d]
<1> USE DEF TypeOK
<1>1. /\ UNCHANGED <<pc, round, registered, recorded, cli, patch>> /\ cli[w] = "here"
      /\ \E what \in {"changed", "new", "git"} : work' = [work EXCEPT ![w] = @ \cup {what}]
  BY DEF Edit, ChangeFiles, MakeFiles, StageFiles, InitRepo, AddToOuter, Does, dirVars
<1>2. pc[w] \notin Quiet
  BY <1>1 DEF CallInv, CliInv
<1>3. kind[DirOf(w)] # "absent"
  BY <1>2, DirThere DEF Quiet
<1>4. \A v \in Workers : work[v] \subseteq work'[v] /\ (v # w => work'[v] = work[v])
  BY <1>1
<1>5. GitUntouched' => GitUntouched
  BY <1>4 DEF GitUntouched
<1>6. ASSUME GitUntouched' PROVE ChangeFiles(w) \/ MakeFiles(w)
  <2>1. "git" \notin work'[w]
    BY <1>6 DEF GitUntouched
  <2>2. QED
    BY <2>1 DEF Edit, StageFiles, InitRepo, AddToOuter, Does
<1>7. ASSUME GitUntouched'
      PROVE  UNCHANGED kind /\ \A d \in Dirs : changed[d] \subseteq changed'[d]
  BY <1>6, <1>7 DEF ChangeFiles, MakeFiles, dirVars
<1>8. QED
  BY <1>1, <1>2, <1>3, <1>4, <1>5, <1>7

\* What it does to the directories.
LEMMA EditDirs ==
  ASSUME TypeOK, UniqueIds, Common, \A v \in Workers : CallInv(v),
         NEW w \in Workers, UNCHANGED mode, Edit(w), NEW d \in Dirs
  PROVE  \/ UNCHANGED <<kind[d], changed[d]>>
         \/ kind[d] \in {"copy", "added"} /\ kind'[d] \in {"added", "checkout"} /\ changed'[d] = {}
              /\ ~GitUntouched'
         \/ /\ d = DirOf(w) /\ kind'[d] = kind[d] /\ kind[d] \in {"checkout", "worktree", "added"}
            /\ \/ changed'[d] = changed[d] \cup {w} /\ "changed" \in work'[w]
               \/ changed'[d] = {} /\ "git" \in work'[w]
<1> USE WorkspaceFacts DEF TypeOK
<1>1. CASE ChangeFiles(w)
  <2>1. kind[DirOf(w)] # "absent"
    BY EditFacts
  <2>2. "changed" \in work'[w]
    BY <1>1 DEF ChangeFiles, Does
  <2>3. QED
    BY <1>1, <2>1, <2>2 DEF ChangeFiles
<1>2. CASE MakeFiles(w)
  BY <1>2 DEF MakeFiles, dirVars
<1>3. CASE StageFiles(w) \/ InitRepo(w) \/ AddToOuter(w)
  <2>1. "git" \in work'[w]
    BY <1>3 DEF StageFiles, InitRepo, AddToOuter, Does
  <2>2. ~GitUntouched'
    BY <2>1 DEF GitUntouched
  <2>3. CASE StageFiles(w)
    BY <2>1, <2>3 DEF StageFiles, OwnRepo
  <2>4. CASE InitRepo(w)
    BY <2>2, <2>4 DEF InitRepo, Borrowed
  <2>5. CASE AddToOuter(w)
    <3>1. PICK added \in {{DirOf(w)}, Borrowed} :
            /\ kind' = [e \in Dirs |-> IF e \in added THEN "added" ELSE kind[e]]
            /\ changed' = [e \in Dirs |-> IF e \in added THEN {} ELSE changed[e]]
      BY <2>5 DEF AddToOuter
    <3>2. added \subseteq Borrowed
      BY <2>5 DEF AddToOuter
    <3>3. QED
      BY <2>2, <3>1, <3>2 DEF Borrowed
  <2>6. QED
    BY <1>3, <2>3, <2>4, <2>5
<1>4. QED
  BY <1>1, <1>2, <1>3 DEF Edit

LEMMA EditStep ==
  ASSUME TypeOK, UniqueIds, Common, \A v \in Workers : CallInv(v),
         NEW w \in Workers, UNCHANGED mode, Edit(w)
  PROVE  Common' /\ \A v \in Workers : CallInv(v)'
<1>1. /\ UNCHANGED <<pc, round, registered, recorded, cli, patch>>
      /\ pc[w] \notin Quiet /\ kind[DirOf(w)] # "absent"
      /\ \A v \in Workers : work[v] \subseteq work'[v] /\ (v # w => work'[v] = work[v])
      /\ GitUntouched' => GitUntouched /\ UNCHANGED kind
      /\ GitUntouched' => \A d \in Dirs : changed[d] \subseteq changed'[d]
  BY EditFacts
<1>2. \A d \in Dirs :
        \/ UNCHANGED <<kind[d], changed[d]>>
        \/ kind[d] \in {"copy", "added"} /\ kind'[d] \in {"added", "checkout"} /\ changed'[d] = {}
             /\ ~GitUntouched'
        \/ /\ d = DirOf(w) /\ kind'[d] = kind[d] /\ kind[d] \in {"checkout", "worktree", "added"}
           /\ \/ changed'[d] = changed[d] \cup {w} /\ "changed" \in work'[w]
              \/ changed'[d] = {} /\ "git" \in work'[w]
  BY EditDirs
<1>3. Common'
  <2>1. SourceInv'
    BY <1>2, WorkspaceFacts DEF Common, SourceInv, Copies
  <2>2. \A d \in Dirs : kind'[d] \in {"absent", "copy"} => changed'[d] = {}
    BY <1>2 DEF Common, CopiesInv
  <2>3. GitUntouched' => \A d \in Dirs :
          kind'[d] # "added" /\ (kind'[d] = "checkout" => d = Source /\ SourceIsGit)
    BY <1>1 DEF Common, CopiesInv
  <2>4. QED
    BY <2>1, <2>2, <2>3 DEF Common, CopiesInv
<1>4. CallInv(w)'
  <2>1. CallInv(w) /\ Workspace(w)' = Workspace(w)
    BY DEF Workspace
  <2>2. DirInv(w)'
    BY <1>1, <1>2, <2>1, WorkspaceFacts DEF CallInv, DirInv, Quiet, Copies
  <2>3. CliInv(w)'
    BY <1>1, <2>1 DEF CallInv, CliInv
  <2>4. PatchInv(w)'
    BY <1>1 DEF PatchInv, Quiet
  <2>5. ChangeInv(w)'
    <3>1. CASE mode = "source"
      <4>1. SUFFICES ASSUME SourceIsGit, GitUntouched', "changed" \in work'[w]
                     PROVE  w \in changed'[Source]
        BY <3>1 DEF ChangeInv
      <4>2. DirOf(w) = Source /\ kind[Source] = "checkout"
        BY <3>1, <4>1 DEF DirOf, Common, SourceInv
      <4>3. ChangeFiles(w) \/ MakeFiles(w)
        <5>1. "git" \notin work'[w]
          BY <4>1 DEF GitUntouched
        <5>2. QED
          BY <5>1 DEF Edit, StageFiles, InitRepo, AddToOuter, Does, TypeOK
      <4>4. CASE ChangeFiles(w)
        BY <4>2, <4>4, WorkspaceFacts DEF ChangeFiles, TypeOK
      <4>5. CASE MakeFiles(w)
        <5>1. changed' = changed /\ "changed" \in work[w]
          BY <4>1, <4>5 DEF MakeFiles, Does, dirVars, TypeOK
        <5>2. QED
          BY <1>1, <2>1, <3>1, <4>1, <5>1 DEF CallInv, ChangeInv
      <4>6. QED
        BY <4>3, <4>4, <4>5
    <3>2. CASE mode # "source"
      <4>1. DirOf(w) = Workspace(w) /\ Workspace(w) \in Dirs
        BY <3>2, WorkspaceFacts DEF DirOf
      <4>2. /\ changed[Workspace(w)] \subseteq {w}
            /\ w \in changed[Workspace(w)] => "changed" \in work[w]
            /\ kind[Workspace(w)] = "worktree" /\ "changed" \in work[w] /\ "git" \notin work[w] =>
                 w \in changed[Workspace(w)]
        BY <2>1, <3>2 DEF CallInv, ChangeInv
      <4>3. changed'[Workspace(w)] \subseteq {w}
            /\ (w \in changed'[Workspace(w)] => "changed" \in work'[w])
        BY <1>1, <1>2, <4>1, <4>2
      <4>4. ASSUME kind'[Workspace(w)] = "worktree", "changed" \in work'[w], "git" \notin work'[w]
            PROVE  w \in changed'[Workspace(w)]
        <5>1. kind[Workspace(w)] = "worktree"
          BY <1>2, <4>1, <4>4
        <5>2. ChangeFiles(w) \/ MakeFiles(w)
          BY <4>4 DEF Edit, StageFiles, InitRepo, AddToOuter, Does, TypeOK
        <5>3. CASE ChangeFiles(w)
          BY <4>1, <5>1, <5>3 DEF ChangeFiles, TypeOK
        <5>4. CASE MakeFiles(w)
          <6>1. changed' = changed /\ "changed" \in work[w] /\ "git" \notin work[w]
            BY <4>4, <5>4 DEF MakeFiles, Does, dirVars, TypeOK
          <6>2. QED
            BY <4>2, <5>1, <6>1
        <5>5. QED
          BY <5>2, <5>3, <5>4
      <4>5. QED
        BY <2>1, <3>2, <4>3, <4>4 DEF ChangeInv
    <3>3. QED
      BY <3>1, <3>2
  <2>6. QED
    BY <2>2, <2>3, <2>4, <2>5 DEF CallInv
<1>5. \A v \in Workers \ {w} : CallInv(v)'
  <2>1. SUFFICES ASSUME NEW v \in Workers \ {w} PROVE CallInv(v)'
    OBVIOUS
  <2>2. Workspace(v) # DirOf(w) /\ Workspace(v) \in Dirs
    BY WorkspaceFacts DEF DirOf
  <2>3. UNCHANGED <<pc[v], round[v], recorded[v], patch[v], work[v], cli[v]>>
    BY <1>1 DEF TypeOK
  <2>4. \/ UNCHANGED <<kind[Workspace(v)], changed[Workspace(v)]>>
        \/ /\ kind[Workspace(v)] \in Copies /\ kind'[Workspace(v)] \in Copies
           /\ changed'[Workspace(v)] = {}
    BY <1>2, <2>2 DEF Copies
  <2>5. GitUntouched' => GitUntouched /\ changed[Source] \subseteq changed'[Source]
    BY <1>1, WorkspaceFacts
  <2>6. QED
    BY <2>3, <2>4, <2>5, OthersStay
<1>6. QED
  BY <1>3, <1>4, <1>5

\* The diff: what it shows depends on what the directory is.
LEMMA DiffStep ==
  ASSUME TypeOK, UniqueIds, Common, \A v \in Workers : CallInv(v),
         NEW w \in Workers, UNCHANGED mode, TakeDiff(w)
  PROVE  Common' /\ \A v \in Workers : CallInv(v)'
<1>1. /\ pc[w] = "diff" /\ patch' = [patch EXCEPT ![w] = DiffOf(DirOf(w))]
      /\ round' = [round EXCEPT ![w] = @ + 1]
      /\ pc' \in {[pc EXCEPT ![w] = "solve"], [pc EXCEPT ![w] = "done"]}
      /\ UNCHANGED <<dirVars, recorded, cli, work>>
  BY DEF TakeDiff, GoTo
<1>2. CallInv(w) /\ Workspace(w)' = Workspace(w)
  BY DEF Workspace
<1>3. PatchInv(w)'
  <2>1. /\ recorded[w] \in {"source", "worktree"} \cup Copied
        /\ recorded[w] = "source" => DirOf(w) = Source
        /\ recorded[w] # "source" => DirOf(w) = Workspace(w)
    BY <1>1, <1>2, DirThere DEF Preparing
  <2>2. patch'[w] = DiffOf(DirOf(w)) /\ UNCHANGED <<recorded, work>>
    BY <1>1 DEF TypeOK
  <2>3. DirOf(w) \in Dirs /\ Source \in Dirs
    BY WorkspaceFacts
  <2>4. recorded[w] = "worktree" => DiffOf(DirOf(w)) = changed[Workspace(w)]
                                    /\ mode # "source" /\ kind[Workspace(w)] = "worktree"
    BY <1>2, <2>1, <2>3 DEF CallInv, DirInv, DiffOf, OwnRepo, Borrowed
  <2>5. recorded[w] = "source" /\ SourceIsGit => DiffOf(DirOf(w)) = changed[Source] /\ mode = "source"
    BY <1>2, <2>1, <2>3 DEF CallInv, DirInv, DiffOf, OwnRepo, Borrowed, Common, SourceInv
  <2>6. ASSUME recorded[w] \in Copied, GitUntouched PROVE DiffOf(DirOf(w)) \subseteq {Outsider}
    <3>1. kind[DirOf(w)] \in Copies /\ DirOf(w) # Source
      BY <1>2, <2>1, <2>6, WorkspaceFacts DEF CallInv, DirInv, Copied
    <3>2. DirOf(w) \notin OwnRepo
      BY <2>3, <2>6, <3>1 DEF Common, CopiesInv, Copies, OwnRepo
    <3>3. \A e \in Borrowed : changed[e] = {}
      BY <2>6 DEF Common, CopiesInv, Borrowed
    <3>4. UNION { changed[e] : e \in Borrowed } = {}
      BY <3>3
    <3>5. QED
      BY <3>2, <3>4 DEF DiffOf
  <2>7. GitUntouched' = GitUntouched
    BY <1>1 DEF GitUntouched
  <2>8. ChangeInv(w)
    BY <1>2 DEF CallInv
  <2>9. recorded[w] = "worktree" =>
          /\ patch'[w] \subseteq {w}
          /\ w \in patch'[w] => "changed" \in work[w]
          /\ "changed" \in work[w] /\ "git" \notin work[w] => w \in patch'[w]
    BY <2>2, <2>4, <2>8 DEF ChangeInv
  <2>10. recorded[w] = "source" /\ SourceIsGit /\ GitUntouched =>
           ("changed" \in work[w] => w \in patch'[w])
    BY <2>2, <2>5, <2>8 DEF ChangeInv
  <2>11. QED
    BY <2>2, <2>6, <2>7, <2>9, <2>10 DEF PatchInv
<1>4. DirInv(w)' /\ CliInv(w)' /\ ChangeInv(w)'
  BY <1>1, <1>2 DEF CallInv, DirInv, CliInv, ChangeInv, GitUntouched, dirVars, Preparing, Quiet, TypeOK
<1>5. \A v \in Workers \ {w} : CallInv(v)'
  BY <1>1, OthersStay DEF dirVars, TypeOK, GitUntouched
<1>6. QED
  BY <1>1, <1>3, <1>4, <1>5 DEF CallInv, Common, SourceInv, CopiesInv, GitUntouched, dirVars

-----------------------------------------------------------------------------
LEMMA InvInit == Init => WorkspaceInv
<1> SUFFICES ASSUME Init PROVE Common /\ \A w \in Workers : CallInv(w)
  BY DEF WorkspaceInv
<1>1. Common
  <2>1. Source \in Dirs /\ \A d \in Dirs : changed[d] = {}
          /\ kind[d] = IF d # Source THEN "absent" ELSE IF SourceIsGit THEN "checkout" ELSE "copy"
    BY DEF Init, Dirs
  <2>2. QED
    BY <2>1, WorkspaceAssumption DEF Common, SourceInv, CopiesInv, Copies
<1>2. \A w \in Workers : DirInv(w) /\ CliInv(w) /\ PatchInv(w)
  BY DEF Init, DirInv, CliInv, PatchInv, Copied, Preparing, Quiet
<1>3. \A w \in Workers : ChangeInv(w)
  BY WorkspaceFacts DEF Init, ChangeInv
<1>4. QED
  BY <1>1, <1>2, <1>3 DEF CallInv

LEMMA InvStep == TypeOK /\ WorkspaceInv /\ [Next]_vars => WorkspaceInv'
<1> SUFFICES ASSUME TypeOK, WorkspaceInv, [Next]_vars, UniqueIds
             PROVE  Common' /\ \A w \in Workers : CallInv(w)'
  BY DEF WorkspaceInv, UniqueIds
<1>1. Common /\ \A w \in Workers : CallInv(w)
  BY DEF WorkspaceInv
<1>2. CASE Next
  <2>1. PICK w \in Workers :
          \/ UseSource(w) \/ ClearOld(w) \/ AddWorktree(w) \/ CopyTree(w)
          \/ RefuseCli(w) \/ StartCli(w) \/ Edit(w) \/ FinishCli(w)
          \/ TimeoutCli(w) \/ LeftoverEnds(w) \/ TakeDiff(w)
    BY <1>2 DEF Next
  <2>2. UNCHANGED mode
    BY <1>2 DEF Next, configVars
  <2>3. QED
    BY <1>1, <2>1, <2>2, PrepareStep, RoundStep, EditStep, DiffStep
<1>3. CASE UNCHANGED vars
  <2>1. Common'
    BY <1>1, <1>3 DEF vars, dirVars, Common, SourceInv, CopiesInv, GitUntouched
  <2>2. \A w \in Workers : CallInv(w)'
    BY <1>1, <1>3 DEF vars, configVars, dirVars, CallInv, DirInv, CliInv, ChangeInv, PatchInv,
                      Workspace, GitUntouched
  <2>3. QED
    BY <2>1, <2>2
<1>4. QED
  BY <1>2, <1>3

\* Every variable keeps its type, for any calls, runs, modes and number of rounds.
THEOREM WorkspaceTypes == Spec => [](TypeOK /\ RoundsLeft /\ NoOwnCli)
BY TypeInit, TypeStep, NoOwnStep, PTL DEF Spec

\* What is known of each call holds throughout, if no two calls of a run have one
\* issue_id.
THEOREM WorkspaceInvariant == Spec => []WorkspaceInv
BY InvInit, InvStep, WorkspaceTypes, PTL DEF Spec

\* What a patch of `_git_diff` shows of its issue's changes, in each of the modes of
\* prepare, beside any number of other calls and leftover CLIs.
THEOREM PatchesShowWork == Spec => []PatchShowsWork
<1>1. WorkspaceInv => PatchShowsWork
  BY DEF WorkspaceInv, CallInv, PatchInv, PatchShowsWork, Copied
<1>2. QED
  BY <1>1, WorkspaceInvariant, PTL

\* No call of run_issue loses its directory or finds it taken.
THEOREM WorkspacesKept == Spec => []NoLostWorkspace
<1>1. WorkspaceInv => NoLostWorkspace
  BY DEF WorkspaceInv, CallInv, CliInv, NoLostWorkspace
<1>2. QED
  BY <1>1, WorkspaceInvariant, PTL

\* Whatever container_name makes of agents, issues and rounds, only a container of
\* another call can keep a round of run_issue from having an agent.
THEOREM RoundsHaveAgents == Spec => NoRoundWithoutAgent
<1> DEFINE Refused ==
      \A w \in Workers : pc[w] = "solve" /\ pc'[w] = "diff" =>
        \E v \in Workers \ {w} :
          docker /\ cli[v] # "none" /\ ContainerName(v) = ContainerName(w)
<1>1. TypeOK /\ NoOwnCli /\ [Next]_vars => [Refused]_vars
  <2> SUFFICES ASSUME TypeOK, NoOwnCli, Next,
                      NEW w \in Workers, pc[w] = "solve", pc'[w] = "diff"
               PROVE  \E v \in Workers \ {w} :
                        docker /\ cli[v] # "none" /\ ContainerName(v) = ContainerName(w)
    OBVIOUS
  <2>1. RefuseCli(w)
    BY DEF Next, UseSource, ClearOld, AddWorktree, CopyTree, RefuseCli, StartCli, Edit,
           ChangeFiles, MakeFiles, StageFiles, InitRepo, AddToOuter, FinishCli, TimeoutCli,
           LeftoverEnds, TakeDiff, GoTo, TypeOK
  <2>2. docker /\ \E v \in Workers : cli[v] # "none" /\ ContainerName(v) = ContainerName(w)
    BY <2>1 DEF RefuseCli, NameTaken
  <2>3. cli[w] = "none"
    BY DEF NoOwnCli, Quiet
  <2>4. QED
    BY <2>2, <2>3
<1>2. QED
  BY <1>1, WorkspaceTypes, PTL DEF Spec, NoRoundWithoutAgent

-----------------------------------------------------------------------------
\* The files read so far are within their budget, and only a budget that is used
\* up leaves files unread.
ReadInv ==
  /\ entries \in Seq([bytes : 0..MaxBytes, snippet : Nat, bundled : BOOLEAN])
  /\ files \in 0..MaxFiles
  /\ bytes_scanned <= MaxBytes
  /\ phase \notin {"source", "read"} /\ files > 0 => bytes_scanned = MaxBytes
  /\ phase = "source" => files = 0

HistoryInv ==
  /\ history \in Seq(0..HistoryMax)
  /\ SumFunction(history) <= HistoryMax

\* The bytes of a snippet that is in the bundle.
BundledBytes == [n \in DOMAIN entries |-> IF entries[n].bundled THEN entries[n].snippet ELSE 0]

BundleInv ==
  /\ bundle \in Nat
  /\ bundle = Header + SumFunction(BundledBytes)
  /\ bundle > Header => bundle <= BundleMax
  /\ \A n \in DOMAIN entries : ~entries[n].bundled => bundle + entries[n].snippet > BundleMax

\* The outputs are there once the build is past them, and say what was read.
OutputsInv ==
  /\ phase \in {"source", "read", "history", "pytest", "write", "augment", "returned", "raised"}
  /\ prompt \in {"bare", "context"}
  /\ outputs.written \in BOOLEAN
  /\ outputs.written <=> phase \in {"augment", "returned"}
  /\ outputs.written => outputs.error \in BOOLEAN
  /\ outputs.written /\ ~outputs.error => outputs.size = bundle + Parts + Closing
  /\ phase # "returned" => prompt = "bare"
  /\ phase = "returned" => (prompt = "context" <=> ~outputs.error /\ PromptChars > 0)

ContextInv == ReadInv /\ HistoryInv /\ BundleInv /\ OutputsInv

\* Sizes are numbers, and a file is never taken beyond what remains.
LEMMA SizesAreNumbers ==
  /\ MaxBytes \in Nat /\ HistoryMax \in Nat /\ MaxFiles \in Nat /\ BundleMax \in Nat
  /\ PromptChars \in Nat /\ Header \in Nat /\ Frame \in Nat /\ Snippet \in Nat /\ Section \in Nat
  /\ MaxSize \in Nat /\ Candidates \in Nat
BY LimitsAssumption

LEMMA TakenWithin ==
  ASSUME NEW size \in Nat, NEW remaining \in Nat
  PROVE  Taken(size, remaining) \in 0..remaining
BY DEF Taken, Smaller

\* The sums of the sizes that the code keeps in bytes_scanned and bundle_bytes.
LEMMA ReadSums ==
  ASSUME ReadInv
  PROVE  /\ Len(entries) \in Nat /\ DOMAIN entries = 1..Len(entries)
         /\ \A n \in DOMAIN entries :
              entries[n] \in [bytes : 0..MaxBytes, snippet : Nat, bundled : BOOLEAN]
         /\ bytes_scanned \in Nat
         /\ SumFunction(BundledBytes) \in Nat
<1>1. /\ Len(entries) \in Nat /\ DOMAIN entries = 1..Len(entries)
      /\ \A n \in DOMAIN entries :
           entries[n] \in [bytes : 0..MaxBytes, snippet : Nat, bundled : BOOLEAN]
  BY LenProperties DEF ReadInv
<1>2. IsFiniteSet(DOMAIN entries)
  BY <1>1, IntervalCount
<1> DEFINE f == [n \in DOMAIN entries |-> entries[n].bytes]
<1>3. SumFunctionOnSet(f, DOMAIN entries) \in Nat
  <2>1. \A n \in DOMAIN entries : f[n] \in Nat
    BY <1>1, SizesAreNumbers
  <2>2. QED
    <3> HIDE DEF f
    <3> QED BY <1>2, <2>1, SumNat
<1>4. SumFunctionOnSet(BundledBytes, DOMAIN entries) \in Nat
  <2>1. \A n \in DOMAIN entries : BundledBytes[n] \in Nat
    BY <1>1 DEF BundledBytes
  <2>2. QED
    BY <1>2, <2>1, SumNat
<1>5. QED
  BY <1>1, <1>3, <1>4 DEF bytes_scanned, BundledBytes, SumFunction

LEMMA HistorySum ==
  ASSUME HistoryInv
  PROVE  /\ Len(history) \in Nat /\ DOMAIN history = 1..Len(history)
         /\ SumFunction(history) \in Nat
<1>1. /\ Len(history) \in Nat /\ DOMAIN history = 1..Len(history)
      /\ \A n \in DOMAIN history : history[n] \in Nat
  BY LenProperties, SizesAreNumbers DEF HistoryInv
<1>2. IsFiniteSet(DOMAIN history)
  BY <1>1, IntervalCount
<1>3. QED
  BY <1>1, <1>2, SumNat DEF SumFunction

\* What one more entry of the index adds to both sums.
LEMMA EntryAdds ==
  ASSUME ReadInv, NEW e \in [bytes : 0..MaxBytes, snippet : Nat, bundled : BOOLEAN],
         entries' = Append(entries, e)
  PROVE  /\ bytes_scanned' = bytes_scanned + e.bytes
         /\ SumFunction(BundledBytes') =
              SumFunction(BundledBytes) + IF e.bundled THEN e.snippet ELSE 0
         /\ entries' \in Seq([bytes : 0..MaxBytes, snippet : Nat, bundled : BOOLEAN])
         /\ DOMAIN entries' = 1..(Len(entries) + 1)
         /\ \A n \in DOMAIN entries : entries'[n] = entries[n]
         /\ entries'[Len(entries) + 1] = e
<1> DEFINE L == Len(entries)
           f == [n \in DOMAIN entries |-> entries[n].bytes]
           g == [n \in DOMAIN entries' |-> entries'[n].bytes]
           h == BundledBytes
           k == [n \in DOMAIN entries' |-> IF entries'[n].bundled THEN entries'[n].snippet ELSE 0]
<1>1. /\ L \in Nat /\ DOMAIN entries = 1..L
      /\ \A n \in DOMAIN entries :
           entries[n] \in [bytes : 0..MaxBytes, snippet : Nat, bundled : BOOLEAN]
  BY ReadSums
<1>2. /\ entries' \in Seq([bytes : 0..MaxBytes, snippet : Nat, bundled : BOOLEAN])
      /\ DOMAIN entries' = 1..(L + 1)
      /\ \A n \in 1..L : entries'[n] = entries[n]
      /\ entries'[L + 1] = e
  BY <1>1, AppendProperties, LenProperties DEF ReadInv
<1>3. SumFunction(g) = SumFunction(f) + e.bytes
  <2>1. DOMAIN f = 1..L /\ DOMAIN g = 1..(L + 1) /\ g[L + 1] = e.bytes /\ e.bytes \in Int
    BY <1>1, <1>2, SizesAreNumbers
  <2>2. ASSUME NEW n \in 1..L PROVE f[n] \in Int /\ g[n] = f[n]
    <3>1. n \in DOMAIN entries /\ n \in DOMAIN entries' /\ entries'[n] = entries[n]
      BY <1>1, <1>2
    <3>2. entries[n].bytes \in Int
      BY <1>1, <3>1, SizesAreNumbers
    <3>3. f[n] = entries[n].bytes /\ g[n] = entries'[n].bytes
      BY <3>1
    <3>4. QED
      BY <3>1, <3>2, <3>3
  <2>3. SumFunction(g) = SumFunction(f) + g[L + 1]
    <3> HIDE DEF f, g, L
    <3> QED BY <1>1, <2>1, <2>2, SumExtend
  <2>4. QED
    BY <2>1, <2>3
<1>4. SumFunction(k) = SumFunction(h) + IF e.bundled THEN e.snippet ELSE 0
  <2>1. /\ DOMAIN h = 1..L /\ DOMAIN k = 1..(L + 1)
        /\ k[L + 1] = IF e.bundled THEN e.snippet ELSE 0
        /\ k[L + 1] \in Int
    BY <1>1, <1>2 DEF BundledBytes
  <2>2. ASSUME NEW n \in 1..L PROVE h[n] \in Int /\ k[n] = h[n]
    <3>1. n \in DOMAIN entries /\ n \in DOMAIN entries' /\ entries'[n] = entries[n]
      BY <1>1, <1>2
    <3>2. entries[n].snippet \in Nat /\ entries[n].bundled \in BOOLEAN
      BY <1>1, <3>1
    <3>3. /\ h[n] = IF entries[n].bundled THEN entries[n].snippet ELSE 0
          /\ k[n] = IF entries'[n].bundled THEN entries'[n].snippet ELSE 0
      BY <3>1 DEF BundledBytes
    <3>4. QED
      BY <3>1, <3>2, <3>3
  <2>3. SumFunction(k) = SumFunction(h) + k[L + 1]
    <3> HIDE DEF h, k, L
    <3> QED BY <1>1, <2>1, <2>2, SumExtend
  <2>4. QED
    <3> HIDE DEF h, k, L
    <3> QED BY <2>1, <2>3
<1>5. bytes_scanned' = SumFunction(g) /\ bytes_scanned = SumFunction(f) /\ BundledBytes' = k
  BY DEF bytes_scanned, BundledBytes
<1>6. QED
  BY <1>1, <1>2, <1>3, <1>4, <1>5

\* One more file of the loop: the budgets hold, whatever size the file has now.
LEMMA ReadFileStep ==
  ASSUME ContextInv, NEW size \in 0..MaxSize, NEW cut \in 0..2, ReadFile(size, cut)
  PROVE  ContextInv'
<1> DEFINE n == Taken(size, MaxBytes - bytes_scanned)
           snippet == Frame + Smaller(n, Snippet) + (IF n < size THEN cut ELSE 0)
           e == [bytes |-> n, snippet |-> snippet, bundled |-> Fits(snippet)]
<1>1. /\ bytes_scanned \in Nat /\ bytes_scanned < MaxBytes
      /\ Len(entries) \in Nat /\ DOMAIN entries = 1..Len(entries)
      /\ SumFunction(BundledBytes) \in Nat
  BY ReadSums DEF ContextInv, ReadFile
<1>2. size \in Nat /\ MaxBytes - bytes_scanned \in Nat
  BY <1>1, SizesAreNumbers
<1>3. n \in 0..(MaxBytes - bytes_scanned)
  BY <1>2, TakenWithin
<1>4. n \in 0..MaxBytes /\ snippet \in Nat
  BY <1>1, <1>2, <1>3, SizesAreNumbers DEF Smaller
<1>5. bundle \in Nat /\ Fits(snippet) \in BOOLEAN /\ (Fits(snippet) <=> bundle + snippet <= BundleMax)
  BY DEF Fits, ContextInv, BundleInv
<1>6. e \in [bytes : 0..MaxBytes, snippet : Nat, bundled : BOOLEAN]
  BY <1>4, <1>5
<1>7. /\ entries' = Append(entries, e) /\ phase = "read" /\ phase' = phase
      /\ bundle' = IF Fits(snippet) THEN bundle + snippet ELSE bundle
      /\ files > 0 /\ files' = files - 1 /\ UNCHANGED <<history, outputs, prompt>>
  BY DEF ReadFile
<1> HIDE DEF n, snippet
<1>8. /\ bytes_scanned' = bytes_scanned + n
      /\ SumFunction(BundledBytes') =
           SumFunction(BundledBytes) + IF Fits(snippet) THEN snippet ELSE 0
      /\ entries' \in Seq([bytes : 0..MaxBytes, snippet : Nat, bundled : BOOLEAN])
      /\ DOMAIN entries' = 1..(Len(entries) + 1)
      /\ \A m \in DOMAIN entries : entries'[m] = entries[m]
      /\ entries'[Len(entries) + 1] = e
  <2>1. /\ bytes_scanned' = bytes_scanned + e.bytes
        /\ SumFunction(BundledBytes') =
             SumFunction(BundledBytes) + IF e.bundled THEN e.snippet ELSE 0
        /\ entries' \in Seq([bytes : 0..MaxBytes, snippet : Nat, bundled : BOOLEAN])
        /\ DOMAIN entries' = 1..(Len(entries) + 1)
        /\ \A m \in DOMAIN entries : entries'[m] = entries[m]
        /\ entries'[Len(entries) + 1] = e
    <3> HIDE DEF e
    <3> QED BY <1>6, <1>7, EntryAdds DEF ContextInv
  <2>2. QED
    BY <2>1
<1>9. ReadInv'
  BY <1>1, <1>3, <1>7, <1>8, SizesAreNumbers DEF ContextInv, ReadInv
<1>10. BundleInv'
  <2>1. bundle' \in Nat /\ bundle' >= bundle /\ bundle' = Header + SumFunction(BundledBytes')
    <3>1. bundle = Header + SumFunction(BundledBytes)
      BY DEF ContextInv, BundleInv
    <3>2. CASE Fits(snippet)
      BY <1>1, <1>4, <1>5, <1>7, <1>8, <3>1, <3>2, SizesAreNumbers
    <3>3. CASE ~Fits(snippet)
      <4>1. bundle' = bundle /\ SumFunction(BundledBytes') = SumFunction(BundledBytes)
        BY <1>1, <1>7, <1>8, <3>3
      <4>2. QED
        BY <1>5, <3>1, <4>1
    <3>4. QED
      BY <3>2, <3>3
  <2>2. bundle' > Header => bundle' <= BundleMax
    BY <1>4, <1>5, <1>7, SizesAreNumbers DEF ContextInv, BundleInv
  <2>3. ASSUME NEW m \in DOMAIN entries', ~entries'[m].bundled
        PROVE  bundle' + entries'[m].snippet > BundleMax
    <3>1. CASE m \in DOMAIN entries
      <4>1. entries[m].snippet \in Nat /\ entries'[m] = entries[m]
        BY <1>8, <3>1, ReadSums DEF ContextInv
      <4>2. bundle + entries[m].snippet > BundleMax
        BY <2>3, <3>1, <4>1 DEF ContextInv, BundleInv
      <4>3. QED
        BY <1>5, <2>1, <4>1, <4>2, SizesAreNumbers
    <3>2. CASE m = Len(entries) + 1
      BY <1>4, <1>5, <1>7, <1>8, <2>3, <3>2, SizesAreNumbers
    <3>3. QED
      BY <1>1, <1>8, <3>1, <3>2
  <2>4. QED
    BY <2>1, <2>2, <2>3 DEF BundleInv
<1>11. HistoryInv' /\ OutputsInv'
  BY <1>7 DEF ContextInv, HistoryInv, OutputsInv
<1>12. QED
  BY <1>9, <1>10, <1>11 DEF ContextInv

\* One more entry of the git history.
LEMMA ReadHistoryStep ==
  ASSUME ContextInv, NEW size \in 0..MaxSize, ReadHistory(size)
  PROVE  ContextInv'
<1> DEFINE x == Taken(size, HistoryMax - SumFunction(history))
<1>1. /\ Len(history) \in Nat /\ DOMAIN history = 1..Len(history)
      /\ SumFunction(history) \in Nat
  BY HistorySum DEF ContextInv
<1>2. size \in Nat /\ HistoryMax - SumFunction(history) \in Nat
  BY <1>1, SizesAreNumbers DEF ReadHistory
<1>3. x \in 0..(HistoryMax - SumFunction(history)) /\ x \in 0..HistoryMax
  <2>1. x \in 0..(HistoryMax - SumFunction(history))
    BY <1>2, TakenWithin
  <2>2. QED
    BY <1>1, <2>1, SizesAreNumbers
<1>4. /\ history' = Append(history, x) /\ phase' = phase /\ phase = "history"
      /\ UNCHANGED <<files, entries, bundle, outputs, prompt>>
  BY DEF ReadHistory
<1> HIDE DEF x
<1>5. /\ history' \in Seq(0..HistoryMax) /\ DOMAIN history' = 1..(Len(history) + 1)
      /\ \A n \in 1..Len(history) : history'[n] = history[n] /\ history[n] \in Int
      /\ history'[Len(history) + 1] = x
  BY <1>1, <1>3, <1>4, AppendProperties, LenProperties, SizesAreNumbers
  DEF ContextInv, HistoryInv
<1>6. SumFunction(history') = SumFunction(history) + x
  BY <1>1, <1>3, <1>5, SumExtend
<1>7. HistoryInv'
  BY <1>1, <1>3, <1>5, <1>6, SizesAreNumbers DEF HistoryInv
<1>8. ReadInv' /\ BundleInv'
  BY <1>4 DEF ContextInv, ReadInv, BundleInv, bytes_scanned, BundledBytes
<1>9. OutputsInv'
  BY <1>4 DEF ContextInv, OutputsInv
<1>10. QED
  BY <1>7, <1>8, <1>9 DEF ContextInv

\* The other steps read nothing.
LEMMA ContextStep == ContextInv /\ [ContextNext]_contextVars => ContextInv'
<1> SUFFICES ASSUME ContextInv, [ContextNext]_contextVars PROVE ContextInv'
  OBVIOUS
<1> DEFINE Others == NoSource \/ SelectFiles \/ SkipFile \/ ReadEnds \/ HistoryEnds
                       \/ GitLogTimesOut \/ CollectTests \/ WriteOutputs \/ AugmentPrompt
<1>1. ASSUME Others \/ UNCHANGED contextVars
      PROVE  ContextInv'
  <2>0. UNCHANGED <<entries, bundle, history>>
    BY <1>1 DEF contextVars, NoSource, SelectFiles, SkipFile, ReadEnds, HistoryEnds,
      GitLogTimesOut, CollectTests, WriteOutputs, AugmentPrompt
  <2>1. HistoryInv' /\ BundleInv'
    BY <2>0 DEF ContextInv, HistoryInv, BundleInv, BundledBytes
  <2>2. bytes_scanned' = bytes_scanned /\ bytes_scanned \in Nat
    BY <2>0, ReadSums DEF ContextInv, bytes_scanned
  <2>3. ReadInv'
    <3>1. CASE SelectFiles
      BY <2>0, <2>2, <3>1, SizesAreNumbers DEF ContextInv, ReadInv, SelectFiles, Smaller
    <3>2. CASE SkipFile
      BY <2>0, <2>2, <3>2, SizesAreNumbers DEF ContextInv, ReadInv, SkipFile
    <3>3. CASE ReadEnds
      BY <2>0, <2>2, <3>3, SizesAreNumbers DEF ContextInv, ReadInv, ReadEnds
    <3>4. CASE ~SelectFiles /\ ~SkipFile /\ ~ReadEnds
      BY <1>1, <2>0, <2>2, <3>4 DEF ContextInv, ReadInv, contextVars, NoSource,
        HistoryEnds, GitLogTimesOut, CollectTests, WriteOutputs, AugmentPrompt
    <3>5. QED
      BY <3>1, <3>2, <3>3, <3>4
  <2>4. OutputsInv'
    <3>1. CASE NoSource
      BY <3>1 DEF ContextInv, OutputsInv, NoSource
    <3>2. CASE WriteOutputs
      BY <2>0, <3>2 DEF ContextInv, OutputsInv, WriteOutputs, Parts, Closing
    <3>3. CASE AugmentPrompt
      BY <2>0, <3>3 DEF ContextInv, OutputsInv, AugmentPrompt, Parts, Closing
    <3>4. CASE ~NoSource /\ ~WriteOutputs /\ ~AugmentPrompt
      <4>1. UNCHANGED <<outputs, prompt>> /\ Parts' = Parts /\ Closing' = Closing
        BY <1>1, <2>0, <3>4 DEF contextVars, SelectFiles, SkipFile, ReadEnds, HistoryEnds,
          GitLogTimesOut, CollectTests, Parts, Closing
      <4>2. \/ phase' = phase
            \/ {phase, phase'} \subseteq {"source", "read", "history", "pytest", "write", "raised"}
        BY <1>1, <3>4 DEF contextVars, SelectFiles, SkipFile, ReadEnds, HistoryEnds,
          GitLogTimesOut, CollectTests
      <4>3. QED
        BY <2>0, <4>1, <4>2 DEF ContextInv, OutputsInv
    <3>5. QED
      BY <3>1, <3>2, <3>3, <3>4
  <2>5. QED
    BY <2>1, <2>3, <2>4 DEF ContextInv
<1>2. ASSUME NEW size \in 0..MaxSize, NEW cut \in 0..2, ReadFile(size, cut)
      PROVE  ContextInv'
  BY <1>2, ReadFileStep
<1>3. ASSUME NEW size \in 0..MaxSize, ReadHistory(size)
      PROVE  ContextInv'
  BY <1>3, ReadHistoryStep
<1>4. QED
  BY <1>1, <1>2, <1>3
  DEF ContextNext

LEMMA ContextStart == ContextInit => ContextInv
<1> SUFFICES ASSUME ContextInit PROVE ContextInv
  OBVIOUS
<1>1. SumFunctionOnSet(<<>>, {}) = 0
  BY SumEquation, FS_EmptySet
<1>2. DOMAIN <<>> = {} /\ entries = <<>> /\ history = <<>>
  BY DEF ContextInit
<1>3. /\ [n \in DOMAIN entries |-> entries[n].bytes] = <<>>
      /\ BundledBytes = <<>>
  BY <1>2 DEF BundledBytes
<1>4. bytes_scanned = 0 /\ SumFunction(BundledBytes) = 0 /\ SumFunction(history) = 0
  BY <1>1, <1>2, <1>3 DEF bytes_scanned, SumFunction
<1>5. ReadInv /\ HistoryInv /\ BundleInv
  BY <1>2, <1>4, SizesAreNumbers DEF ReadInv, HistoryInv, BundleInv, ContextInit
<1>6. QED
  BY <1>5 DEF ContextInv, OutputsInv, ContextInit, Unwritten

LEMMA ContextCorrect == ContextSpec => []ContextInv
BY ContextStart, ContextStep, PTL DEF ContextSpec

-----------------------------------------------------------------------------
\* Every variable of the context builder keeps its type, in particular no file
\* and no entry of the history is larger than its budget.
THEOREM ContextTypes == ContextSpec => []ContextTypeOK
<1>1. ContextInv => ContextTypeOK
  <2> SUFFICES ASSUME ContextInv PROVE ContextTypeOK
    OBVIOUS
  <2>1. Range(entries) \subseteq [bytes : 0..MaxBytes, snippet : Nat, bundled : BOOLEAN]
    BY ReadSums DEF ContextInv, Range
  <2>2. Range(history) \subseteq 0..HistoryMax
    BY ElementOfSeq, LenProperties DEF ContextInv, HistoryInv, Range
  <2>3. QED
    BY <2>1, <2>2 DEF ContextInv, ReadInv, BundleInv, OutputsInv, ContextTypeOK
<1>2. QED
  BY <1>1, ContextCorrect, PTL

\* However the files grow or vanish while they are read, no more is read than
\* the budgets allow, and only a budget used up to the byte leaves one unread.
THEOREM ReadingKeepsBudgets == ContextSpec => []BudgetsKept
<1>1. ContextInv => BudgetsKept
  BY DEF ContextInv, ReadInv, HistoryInv, BudgetsKept
<1>2. QED
  BY <1>1, ContextCorrect, PTL

\* There are no more snippets in the bundle than files that were read.
LEMMA BundleFileSize ==
  ASSUME ContextInv
  PROVE  Parts + Closing <= 4 + Len(entries) + 2 * (Section + 1)
<1> DEFINE D == DOMAIN entries
           S == { n \in D : entries[n].bundled }
<1>1. IsFiniteSet(D) /\ Cardinality(D) = Len(entries) /\ Len(entries) \in Nat
  BY ReadSums, IntervalCount DEF ContextInv
<1>2. Cardinality(S) <= Cardinality(D) /\ Cardinality(S) \in Nat
  <2>1. S \subseteq D
    OBVIOUS
  <2>2. QED
    <3> HIDE DEF S, D
    <3> QED BY <1>1, <2>1, FS_Subset, FS_CardinalityType
<1>3. Parts = 4 + Cardinality(S)
  BY DEF Parts
<1>4. Closing \in 0..(2 * (Section + 1))
  BY SizesAreNumbers DEF Closing
<1>5. QED
  <2> HIDE DEF S, D
  <2> QED BY <1>1, <1>2, <1>3, <1>4, SizesAreNumbers

\* The bundle holds what bundle_bytes says, as full as the order of the files
\* lets it be, and its file is little larger than the budget.
THEOREM BundleAsFullAsItCan == ContextSpec => []BundleFull
<1>1. ContextInv => BundleFull
  <2> SUFFICES ASSUME ContextInv PROVE BundleFull
    OBVIOUS
  <2>1. bundle = Header + SumFunction(BundledBytes) /\ bundle \in Nat
    BY DEF ContextInv, BundleInv
  <2>2. ASSUME phase = "returned", ~outputs.error
        PROVE  outputs.size <= (IF bundle > Header THEN BundleMax ELSE Header) + 4
                                 + Len(entries) + 2 * (Section + 1)
    <3>1. outputs.size = bundle + Parts + Closing
      BY <2>2 DEF ContextInv, OutputsInv
    <3>2. bundle <= IF bundle > Header THEN BundleMax ELSE Header
      BY <2>1, SizesAreNumbers DEF ContextInv, BundleInv
    <3>3. Parts \in Nat /\ Closing \in Nat /\ Len(entries) \in Nat
      <4>1. IsFiniteSet({ n \in DOMAIN entries : entries[n].bundled })
        BY ReadSums, IntervalCount, FS_Subset DEF ContextInv
      <4>2. QED
        BY <4>1, ReadSums, FS_CardinalityType, SizesAreNumbers DEF ContextInv, Parts, Closing
    <3> DEFINE cap == IF bundle > Header THEN BundleMax ELSE Header
               more == 2 * (Section + 1)
    <3>4. /\ bundle <= cap /\ cap \in Nat /\ more \in Nat /\ bundle \in Nat
          /\ Parts + Closing <= 4 + Len(entries) + more
          /\ outputs.size = bundle + Parts + Closing
      BY <2>1, <3>1, <3>2, BundleFileSize, SizesAreNumbers
    <3>5. outputs.size <= cap + 4 + Len(entries) + more
      <4> HIDE DEF cap, more
      <4> QED BY <3>3, <3>4
    <3>6. QED
      BY <3>5
  <2>3. QED
    BY <2>1, <2>2 DEF ContextInv, BundleInv, BundleFull, BundledBytes
<1>2. QED
  BY <1>1, ContextCorrect, PTL

\* The rounds see the context exactly if the repository was read and its bundle
\* is on disk.
THEOREM PromptIsOfContext == ContextSpec => []PromptTellsContext
<1>1. ContextInv => PromptTellsContext
  BY DEF ContextInv, OutputsInv, PromptTellsContext
<1>2. QED
  BY <1>1, ContextCorrect, PTL

=============================================================================
