------------------------------ MODULE RepoContext ------------------------------
(***************************************************************************)
(* RepoContextBuilder.build and RepoContextResult.augment_prompt of        *)
(* team_v2/repo_context.py: before the first round of an issue a worker    *)
(* reads its repository under budgets of files and bytes, bundles snippets *)
(* under a budget of its own, and puts the bundle into the prompt.  In the *)
(* "source" mode the repository is edited meanwhile, so a file is any size *)
(* when it is read, or gone.  Sizes are in bytes.                          *)
(***************************************************************************)
EXTENDS Naturals, Sequences, FiniteSets, SequencesExt

CONSTANTS
  MaxFiles, MaxBytes, BundleMax, HistoryMax, PromptChars,  \* the repo_context_* limits
  History, Collect,                 \* include_git_history and pytest_collect
  Candidates, MaxSize,              \* bounds: files of a known suffix, size of a file
  Header, Frame, Snippet, Section      \* bytes of the bundle's header, of a snippet's frame,
                                    \* of 80 lines, and of a closing section

ASSUME LimitsAssumption ==
  /\ {MaxFiles, MaxBytes, BundleMax, HistoryMax} \subseteq Nat \ {0}
  /\ {PromptChars, Candidates, MaxSize, Header, Frame, Snippet, Section} \subseteq Nat
  /\ {History, Collect} \subseteq BOOLEAN

VARIABLES
  phase,     \* where the build is; "returned" and "raised" are its ends
  files,     \* how many of the selected files are still to be read
  entries,   \* what repo_index.json will list of the files that were read
  bundle,    \* bundle_bytes
  history,   \* sizes of the entries of the git history
  outputs,   \* context_bundle.txt and repo_index.json as written
  prompt     \* whether the prompt of the rounds has the context

contextVars == <<phase, files, entries, bundle, history, outputs, prompt>>

Smaller(m, n) == IF m <= n THEN m ELSE n

bytes_scanned == SumFunction([n \in DOMAIN entries |-> entries[n].bytes])

Unwritten == [written |-> FALSE]

ContextTypeOK ==
  /\ phase \in {"source", "read", "history", "pytest", "write", "augment", "returned", "raised"}
  /\ files \in 0..MaxFiles
  /\ Range(entries) \subseteq [bytes : 0..MaxBytes, snippet : Nat, bundled : BOOLEAN]
  /\ bundle \in Nat
  /\ Range(history) \subseteq 0..HistoryMax
  /\ prompt \in {"bare", "context"}

ContextInit ==
  /\ phase = "source"
  /\ files = 0 /\ bundle = Header
  /\ entries = <<>> /\ history = <<>>
  /\ outputs = Unwritten
  /\ prompt = "bare"

-----------------------------------------------------------------------------
\* The source is no directory: the outputs say so, the prompt stays bare.
NoSource ==
  /\ phase = "source"
  /\ outputs' = [written |-> TRUE, error |-> TRUE, size |-> Header]
  /\ phase' = "augment"
  /\ UNCHANGED <<files, entries, bundle, history, prompt>>

\* _select_files.
SelectFiles ==
  /\ phase = "source"
  /\ \E n \in 0..Candidates : files' = Smaller(n, MaxFiles)
  /\ phase' = "read"
  /\ UNCHANGED <<entries, bundle, history, outputs, prompt>>

\* Mutant of Taken: a file is read to its end.
TakenWhole(size, remaining) == size

\* A file is cut where the budget ends.
Taken(size, remaining) == Smaller(size, remaining)

\* Mutant of Fits: the bundle is closed by the first snippet that does not fit.
FitsWhileAll(snippet) ==
  bundle + snippet <= BundleMax /\ \A n \in DOMAIN entries : entries[n].bundled

Fits(snippet) == bundle + snippet <= BundleMax

\* One file of the loop.  A later, smaller snippet may fit where one did not.  A
\* cut inside a character makes the snippet up to two bytes longer.
ReadFile(size, cut) ==
  LET n == Taken(size, MaxBytes - bytes_scanned)
      snippet == Frame + Smaller(n, Snippet) + (IF n < size THEN cut ELSE 0)
  IN /\ phase = "read" /\ files > 0
     /\ bytes_scanned < MaxBytes
     /\ entries' = Append(entries, [bytes |-> n, snippet |-> snippet,
                                    bundled |-> Fits(snippet)])
     /\ bundle' = IF Fits(snippet) THEN bundle + snippet ELSE bundle
     /\ files' = files - 1
     /\ UNCHANGED <<phase, history, outputs, prompt>>

\* OSError: the file is gone since it was selected.
SkipFile ==
  /\ phase = "read" /\ files > 0
  /\ bytes_scanned < MaxBytes
  /\ files' = files - 1
  /\ UNCHANGED <<phase, entries, bundle, history, outputs, prompt>>

ReadEnds ==
  /\ phase = "read"
  /\ files = 0 \/ bytes_scanned >= MaxBytes
  /\ phase' = IF History THEN "history" ELSE "pytest"
  /\ UNCHANGED <<files, entries, bundle, history, outputs, prompt>>

\* _scan_git_history reads the packs and refs in the same way.
ReadHistory(size) ==
  /\ phase = "history"
  /\ SumFunction(history) < HistoryMax
  /\ Len(history) < Candidates
  /\ history' = Append(history, Taken(size, HistoryMax - SumFunction(history)))
  /\ UNCHANGED <<phase, files, entries, bundle, outputs, prompt>>

\* The candidates end, or the source is no git repository.
HistoryEnds ==
  /\ phase = "history"
  /\ phase' = "pytest"
  /\ UNCHANGED <<files, entries, bundle, history, outputs, prompt>>

\* Nothing catches the TimeoutExpired of git log: it is the worker's to raise.
GitLogTimesOut ==
  /\ phase = "history" /\ history = <<>>
  /\ phase' = "raised"
  /\ UNCHANGED <<files, entries, bundle, history, outputs, prompt>>

\* _run_pytest_collect: passed, failed, timeout or skipped, the build goes on.
CollectTests ==
  /\ phase = "pytest"
  /\ phase' = "write"
  /\ UNCHANGED <<files, entries, bundle, history, outputs, prompt>>

\* The newlines that join the parts and end the file, and the closing sections,
\* come on top of bundle_bytes.
Parts == 4 + Cardinality({ n \in DOMAIN entries : entries[n].bundled })

Closing == (IF history # <<>> THEN Section + 1 ELSE 0) + (IF Collect THEN Section + 1 ELSE 0)

WriteOutputs ==
  /\ phase = "write"
  /\ outputs' = [written |-> TRUE, error |-> FALSE, size |-> bundle + Parts + Closing]
  /\ phase' = "augment"
  /\ UNCHANGED <<files, entries, bundle, history, prompt>>

\* Mutant of AugmentPrompt: any bundle that exists goes into the prompt.
AugmentPromptAny ==
  /\ phase = "augment"
  /\ prompt' = IF PromptChars > 0 THEN "context" ELSE prompt
  /\ phase' = "returned"
  /\ UNCHANGED <<files, entries, bundle, history, outputs>>

AugmentPrompt ==
  /\ phase = "augment"
  /\ prompt' = IF ~outputs.error /\ PromptChars > 0 THEN "context" ELSE prompt
  /\ phase' = "returned"
  /\ UNCHANGED <<files, entries, bundle, history, outputs>>

ContextNext ==
  \/ NoSource \/ SelectFiles \/ SkipFile \/ ReadEnds
  \/ \E size \in 0..MaxSize : ReadHistory(size) \/ \E cut \in 0..2 : ReadFile(size, cut)
  \/ HistoryEnds \/ GitLogTimesOut \/ CollectTests \/ WriteOutputs \/ AugmentPrompt

ContextSpec == ContextInit /\ [][ContextNext]_contextVars

-----------------------------------------------------------------------------
\* No more is read than the budgets allow, of the files and of the git history,
\* whatever the sizes of the files at the time, and a file is left unread only
\* when its budget is used up to the byte.
BudgetsKept ==
  /\ bytes_scanned <= MaxBytes /\ SumFunction(history) <= HistoryMax
  /\ phase \notin {"source", "read"} /\ files > 0 => bytes_scanned = MaxBytes

\* The bundle is as full as the order of the files lets it be: bundle_bytes is
\* the size of what it holds, within the budget (a header longer than that stands
\* alone), and no snippet that was left out would fit into what is left.  The
\* file context_bundle.txt is larger than its budget by no more than a line end
\* for each part and the closing sections.
BundleFull ==
  /\ bundle = Header + SumFunction([n \in DOMAIN entries |->
                                IF entries[n].bundled THEN entries[n].snippet ELSE 0])
  /\ bundle > Header => bundle <= BundleMax
  /\ \A n \in DOMAIN entries : ~entries[n].bundled => bundle + entries[n].snippet > BundleMax
  /\ phase = "returned" /\ ~outputs.error =>
       outputs.size <= (IF bundle > Header THEN BundleMax ELSE Header) + 4 + Len(entries)
                         + 2 * (Section + 1)

\* The rounds see the context exactly if the repository was read and the outputs
\* are on disk: not with a bundle that only tells an error, nor when git hangs.
PromptTellsContext ==
  /\ prompt = "context" => outputs.written /\ ~outputs.error
  /\ phase = "raised" => ~outputs.written
  /\ phase = "returned" => outputs.written /\ (prompt = "context" <=> ~outputs.error /\ PromptChars > 0)

=============================================================================
