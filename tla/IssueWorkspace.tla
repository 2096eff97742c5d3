--------------------------- MODULE IssueWorkspace ---------------------------
(***************************************************************************)
(* The working directories of the issues that team runs solve in parallel: *)
(* RepoWorkspaceManager.prepare, the mini-swe-agent CLI that the adapter   *)
(* starts in one (as a process, or as a one-shot docker container), and    *)
(* the `git diff` by which the adapter turns its edits into a patch.       *)
(*                                                                         *)
(* TeamRun abstracts from all this (its Generate leaves any patch); here   *)
(* a patch is the set of calls of whose edits it shows some.  `git diff`   *)
(* compares the files with git's index: it shows changes of tracked files, *)
(* and neither new files nor what a CLI has staged, committed or stashed.  *)
(* The workspace of an issue lives under its issue_id, and an instances    *)
(* file may give one issue_id to several issues.  Runs have directories of *)
(* their own, but the name of a container says nothing of its run:         *)
(* DockerRuntime gets the constant run_id "team-v2-cli".                   *)
(***************************************************************************)
EXTENDS Naturals, Sequences

CONSTANTS
  Workers,        \* the run_issue calls of the team runs on one host
  Ids,            \* issue_ids
  Runs,           \* the runs, each with its own directory
  IdOf,           \* the issue_id of each call, a sequence of characters
  RunOf,          \* the run of each call
  AgentOf,        \* the agent_id of each call, a sequence too
  Digits,         \* the digits of each round_id
  Modes,          \* what config.repo_workspace_mode may be
  SourceIsGit,    \* the source is a git checkout
  Enclosed,       \* directories with no .git of their own lie in a git checkout
                  \* that has changes of its own
  MaxRounds,      \* config.max_rounds_per_issue
  Kept,           \* the characters container_name keeps: isalnum(), "." and "-"
  NameLimit       \* of its 120 characters those after the prefix and the run_id

ASSUME WorkspaceAssumption ==
  /\ IdOf \in [Workers -> Ids]
  /\ RunOf \in [Workers -> Runs]
  /\ AgentOf \in [Workers -> Seq(STRING)] /\ Ids \subseteq Seq(STRING)
  /\ Digits \in [0..(MaxRounds - 1) -> Seq(STRING)] /\ NameLimit \in Nat
  /\ Modes \subseteq {"source", "copy", "worktree"}
  /\ SourceIsGit \in BOOLEAN
  /\ Enclosed \in BOOLEAN
  /\ MaxRounds \in Nat \ {0}

CONSTANTS Source, Outsider

ASSUME SourceAssumption == Source \notin Runs \X Ids /\ Outsider \notin Workers

\* The directories: the source and one workspace for each issue_id of a run.
Dirs == (Runs \X Ids) \cup {Source}

VARIABLES
  mode,        \* config.repo_workspace_mode, the same for all calls
  docker,      \* config.runtime_type is "docker"
  pc,          \* where each run_issue is
  round,       \* its finished rounds
  kind,        \* what each directory is
  changed,     \* whose changes `git diff` finds in the files of each directory
  registered,  \* workspaces the source's git knows as worktrees
  recorded,    \* the mode prepare recorded for each call
  cli,         \* the CLI of each call: "here" while it runs in the directory of the
               \* call, "adrift" if that was removed under it
  patch,       \* the patch of the last finished round
  work         \* what the CLI of each call has done so far: "changed" files git may
               \* know, made "new" ones, told "git" of files

configVars == <<mode, docker>>
dirVars == <<kind, changed, registered>>
vars == <<configVars, pc, round, dirVars, recorded, cli, patch, work>>

TypeOK ==
  /\ mode \in Modes /\ docker \in BOOLEAN
  /\ pc \in [Workers -> {"clear", "create", "solve", "cli", "diff", "done", "timeout", "raised"}]
  /\ round \in [Workers -> 0..MaxRounds]
  /\ kind \in [Dirs -> {"absent", "checkout", "worktree", "copy", "added"}]
  /\ changed \in [Dirs -> SUBSET Workers]
  /\ registered \subseteq Runs \X Ids
  /\ recorded \in [Workers -> {"none", "source", "worktree", "copy", "copy_fallback"}]
  /\ cli \in [Workers -> {"none", "here", "adrift"}]
  /\ patch \in [Workers -> SUBSET (Workers \cup {Outsider})]
  /\ work \in [Workers -> SUBSET {"changed", "new", "git"}]

Init ==
  /\ mode \in Modes /\ docker \in BOOLEAN
  /\ pc = [w \in Workers |-> "clear"]
  /\ round = [w \in Workers |-> 0]
  /\ kind = [d \in Dirs |-> IF d # Source THEN "absent"
                            ELSE IF SourceIsGit THEN "checkout" ELSE "copy"]
  /\ changed = [d \in Dirs |-> {}]
  /\ registered = {}
  /\ recorded = [w \in Workers |-> "none"]
  /\ cli = [w \in Workers |-> "none"]
  /\ patch = [w \in Workers |-> {}]
  /\ work = [w \in Workers |-> {}]

\* Mutant of Workspace: one path for the whole run instead of one per issue.
WorkspaceOfRun(w) == <<RunOf[w], CHOOSE i \in Ids : TRUE>>

\* The path prepare makes a workspace at: issue_dir / "workspace".
Workspace(w) == <<RunOf[w], IdOf[w]>>

\* The directory run_issue works in.
DirOf(w) == IF mode = "source" THEN Source ELSE Workspace(w)

GoTo(w, place) == pc' = [pc EXCEPT ![w] = place]

-----------------------------------------------------------------------------
\* Source mode hands out the source itself.
UseSource(w) ==
  /\ pc[w] = "clear" /\ mode = "source"
  /\ recorded' = [recorded EXCEPT ![w] = "source"]
  /\ GoTo(w, "solve")
  /\ UNCHANGED <<round, dirVars, cli, patch, work>>

\* rmtree of a workspace that is already there.
ClearOld(w) ==
  /\ pc[w] = "clear" /\ mode # "source"
  /\ kind' = [kind EXCEPT ![Workspace(w)] = "absent"]
  /\ changed' = [changed EXCEPT ![Workspace(w)] = {}]
  /\ cli' = [v \in Workers |-> IF cli[v] = "here" /\ DirOf(v) = Workspace(w)
                               THEN "adrift" ELSE cli[v]]
  /\ GoTo(w, "create")
  /\ UNCHANGED <<round, registered, recorded, patch, work>>

\* `git worktree add`: it refuses a path that exists or is registered.
AddWorktree(w) ==
  /\ pc[w] = "create" /\ mode = "worktree" /\ SourceIsGit
  /\ kind[Workspace(w)] = "absent" /\ Workspace(w) \notin registered
  /\ kind' = [kind EXCEPT ![Workspace(w)] = "worktree"]
  /\ registered' = registered \cup {Workspace(w)}
  /\ recorded' = [recorded EXCEPT ![w] = "worktree"]
  /\ GoTo(w, "solve")
  /\ UNCHANGED <<round, changed, cli, patch, work>>

\* copytree, asked for or as the fallback when git refuses for whatever reason.
\* It copies no .git, and raises if the directory has appeared meanwhile.
CopyTree(w) ==
  /\ pc[w] = "create"
  /\ IF kind[Workspace(w)] # "absent"
     THEN GoTo(w, "raised") /\ UNCHANGED <<kind, recorded>>
     ELSE /\ kind' = [kind EXCEPT ![Workspace(w)] = "copy"]
          /\ recorded' = [recorded EXCEPT ![w] = IF mode = "copy" THEN "copy" ELSE "copy_fallback"]
          /\ GoTo(w, "solve")
  /\ UNCHANGED <<round, changed, registered, cli, patch, work>>

-----------------------------------------------------------------------------
\* agent_id, issue_id and round (the word "round" is left out), and what docker is
\* given of it: container_name makes "-" of the other characters and cuts the name
\* off.  Its strip("-") finds nothing: the name begins with the run_id and ends in
\* a digit.
WholeName(w) == AgentOf[w] \o <<"-">> \o IdOf[w] \o <<"-">> \o Digits[round[w]]

ContainerName(w) ==
  LET whole == WholeName(w)
  IN  [n \in { n \in DOMAIN whole : n <= NameLimit } |->
         IF whole[n] \in Kept THEN whole[n] ELSE "-"]

\* The name is taken by a container that has not ended.
NameTaken(w) ==
  docker /\ \E v \in Workers : cli[v] # "none" /\ ContainerName(v) = ContainerName(w)

\* docker refuses a taken name with a status the adapter records as "failed"
\* and goes on to its diff.
RefuseCli(w) ==
  /\ pc[w] = "solve" /\ NameTaken(w)
  /\ GoTo(w, "diff")
  /\ UNCHANGED <<round, dirVars, recorded, cli, patch, work>>

\* subprocess.run starts the CLI in the directory.  One that is gone makes it
\* raise; docker makes an empty one for its mount.
StartCli(w) ==
  /\ pc[w] = "solve" /\ ~NameTaken(w)
  /\ IF kind[DirOf(w)] = "absent" /\ ~docker
     THEN GoTo(w, "raised") /\ UNCHANGED <<kind, cli>>
     ELSE /\ kind' = [kind EXCEPT ![DirOf(w)] = IF @ = "absent" THEN "copy" ELSE @]
          /\ cli' = [cli EXCEPT ![w] = "here"]
          /\ GoTo(w, "cli")
  /\ UNCHANGED <<round, changed, registered, recorded, patch, work>>

\* The directories whose files git finds by a .git of their own, and those for
\* which it goes up to the checkout around them.
OwnRepo == { d \in Dirs : kind[d] \in {"checkout", "worktree"} }

Borrowed == { d \in Dirs : kind[d] \in {"copy", "added"} }

Does(w, what) == cli[w] = "here" /\ work' = [work EXCEPT ![w] = @ \cup {what}]

\* A CLI changes files its directory came with or it told git of, also one whose
\* call has left it.  A change it undoes is none; a copy's are tracked by nobody.
ChangeFiles(w) ==
  /\ Does(w, "changed")
  /\ changed' = [changed EXCEPT ![DirOf(w)] = IF kind[DirOf(w)] = "copy" THEN @ ELSE @ \cup {w}]
  /\ UNCHANGED <<pc, round, kind, registered, recorded, cli, patch>>

\* It makes new files, which git does not look at.
MakeFiles(w) ==
  /\ Does(w, "new")
  /\ UNCHANGED <<pc, round, dirVars, recorded, cli, patch>>

\* It stages, commits or stashes all there is: the diff begins anew.
StageFiles(w) ==
  /\ Does(w, "git") /\ DirOf(w) \in OwnRepo
  /\ changed' = [changed EXCEPT ![DirOf(w)] = {}]
  /\ UNCHANGED <<pc, round, kind, registered, recorded, cli, patch>>

\* It makes a repository of a copy.
InitRepo(w) ==
  /\ Does(w, "git") /\ DirOf(w) \in Borrowed
  /\ kind' = [kind EXCEPT ![DirOf(w)] = "checkout"]
  /\ changed' = [changed EXCEPT ![DirOf(w)] = {}]
  /\ UNCHANGED <<pc, round, registered, recorded, cli, patch>>

\* It adds the copy, or all there is, to the checkout around it.
AddToOuter(w) ==
  /\ Does(w, "git") /\ DirOf(w) \in Borrowed /\ Enclosed
  /\ \E added \in {{DirOf(w)}, Borrowed} :
       /\ kind' = [d \in Dirs |-> IF d \in added THEN "added" ELSE kind[d]]
       /\ changed' = [d \in Dirs |-> IF d \in added THEN {} ELSE changed[d]]
  /\ UNCHANGED <<pc, round, registered, recorded, cli, patch>>

Edit(w) == ChangeFiles(w) \/ MakeFiles(w) \/ StageFiles(w) \/ InitRepo(w) \/ AddToOuter(w)

\* Mutant of FinishCli: docker run without --rm, the container keeps its name.
FinishCliNoRm(w) ==
  /\ pc[w] = "cli"
  /\ cli' = [cli EXCEPT ![w] = IF docker THEN @ ELSE "none"]
  /\ GoTo(w, "diff")
  /\ UNCHANGED <<round, dirVars, recorded, patch, work>>

\* The CLI ends, with any status; --rm removes its container.
FinishCli(w) ==
  /\ pc[w] = "cli"
  /\ cli' = [cli EXCEPT ![w] = "none"]
  /\ GoTo(w, "diff")
  /\ UNCHANGED <<round, dirVars, recorded, patch, work>>

\* Mutant of TimeoutCli: the timeout is taken for a failed CLI.
TimeoutCliGoesOn(w) ==
  /\ pc[w] = "cli"
  /\ \/ UNCHANGED cli
     \/ ~docker /\ cli' = [cli EXCEPT ![w] = "none"]
  /\ GoTo(w, "diff")
  /\ UNCHANGED <<round, dirVars, recorded, patch, work>>

\* request_timeout_sec is over: subprocess.run kills its child and raises.  In
\* docker mode the child is the client and the container goes on; otherwise a
\* command the CLI had started may.
TimeoutCli(w) ==
  /\ pc[w] = "cli"
  /\ \/ UNCHANGED cli
     \/ ~docker /\ cli' = [cli EXCEPT ![w] = "none"]
  /\ GoTo(w, "timeout")
  /\ UNCHANGED <<round, dirVars, recorded, patch, work>>

\* What a call left behind ends on its own: nothing else ends it.
LeftoverEnds(w) ==
  /\ pc[w] = "timeout" /\ cli[w] # "none"
  /\ cli' = [cli EXCEPT ![w] = "none"]
  /\ UNCHANGED <<pc, round, dirVars, recorded, patch, work>>

-----------------------------------------------------------------------------
\* _git_diff: empty for a directory that is gone; one without a .git of its own
\* shows the changes of the whole checkout around it, if there is one.
DiffOf(d) ==
  CASE d \in OwnRepo -> changed[d]
    [] d \in Borrowed /\ Enclosed -> {Outsider} \cup UNION { changed[e] : e \in Borrowed }
    [] OTHER -> {}

\* The adapter writes the patch; the repair loop may ask for another round,
\* which starts in the directory as this one left it.
TakeDiff(w) ==
  /\ pc[w] = "diff"
  /\ patch' = [patch EXCEPT ![w] = DiffOf(DirOf(w))]
  /\ round' = [round EXCEPT ![w] = @ + 1]
  /\ \/ round[w] + 1 < MaxRounds /\ GoTo(w, "solve")
     \/ GoTo(w, "done")
  /\ UNCHANGED <<dirVars, recorded, cli, work>>

Next ==
  /\ UNCHANGED configVars
  /\ \E w \in Workers :
       \/ UseSource(w) \/ ClearOld(w) \/ AddWorktree(w) \/ CopyTree(w)
       \/ RefuseCli(w) \/ StartCli(w) \/ Edit(w) \/ FinishCli(w)
       \/ TimeoutCli(w) \/ LeftoverEnds(w) \/ TakeDiff(w)

Spec == Init /\ [][Next]_vars

-----------------------------------------------------------------------------
\* Every call of a run has an issue_id of its own.
UniqueIds == \A v, w \in Workers : RunOf[v] = RunOf[w] /\ IdOf[v] = IdOf[w] => v = w

\* No CLI has told git of any files.
GitUntouched == \A w \in Workers : "git" \notin work[w]

\* What the patch of a finished round says of the changes its issue has made to
\* the files it was given, those of earlier rounds included, whatever the calls of
\* this and other runs do or left running.  A worktree's shows none of others; it
\* shows its own, new files apart, if its own CLI left git alone.  That of the
\* shared source shows them if every CLI left git alone, among those of others.
\* A copy's never does, unless a CLI put copies under git.
PatchShowsWork ==
  UniqueIds =>
    \A w \in Workers : round[w] > 0 /\ pc[w] \in {"solve", "done"} =>
      /\ recorded[w] = "worktree" =>
           /\ patch[w] \subseteq {w}
           /\ w \in patch[w] => "changed" \in work[w]
           /\ "changed" \in work[w] /\ "git" \notin work[w] => w \in patch[w]
      /\ recorded[w] = "source" /\ SourceIsGit /\ GitUntouched =>
           ("changed" \in work[w] => w \in patch[w])
      /\ recorded[w] \in {"copy", "copy_fallback"} /\ GitUntouched => patch[w] \subseteq {Outsider}

\* No call loses its directory under its feet or finds another's in its place.
NoLostWorkspace ==
  UniqueIds => \A w \in Workers : pc[w] # "raised" /\ cli[w] # "adrift"

\* A call takes the diff of a round that no agent worked on only while a container
\* of another call has its name, of this run or another: never for what an earlier
\* round of its own left, although the name may not tell its rounds apart.
NoRoundWithoutAgent ==
  [][\A w \in Workers : pc[w] = "solve" /\ pc'[w] = "diff" =>
       \E v \in Workers \ {w} :
         docker /\ cli[v] # "none" /\ ContainerName(v) = ContainerName(w)]_vars

=============================================================================
