------------------------------ MODULE TeamSweep ------------------------------
(***************************************************************************)
(* TeamSweepOrchestrator.run: one TeamOrchestrator run after the other for *)
(* every context length, agent count and repeat, then one result for the   *)
(* group.  A child is seen as IssueLedger describes it: it publishes       *)
(* totals that count each of its issues once, or it ends without a result. *)
(* A child has one issue per agent, as the planner gives it when the tasks *)
(* are synthetic or local.  Its errors are one for each issue that raised  *)
(* or left nothing to collect, and those of the run itself, which belong   *)
(* to no issue: docker is unavailable, the firecracker runner failed.      *)
(***************************************************************************)
EXTENDS Integers, Sequences, FiniteSets, SequencesExt, FiniteSetsExt, Functions, AgentOrder

CONSTANTS
  ContextLengths,  \* self.context_lengths
  AgentCounts,     \* self.agent_counts
  Repeats          \* self.repeats

ASSUME GridAssumption ==
  /\ ContextLengths \in Seq(Nat \ {0}) /\ ContextLengths # <<>>
  /\ AgentCounts \in Seq(Nat \ {0}) /\ AgentCounts # <<>>
  /\ Repeats \in Nat \ {0}

VARIABLES
  at,          \* "idle" between children, "child" inside one, then "done" or "crashed"
  c, a, r,     \* the loop indices: context length, agent count, repeat
  results,     \* the result.json of the children that published, in order
  runs,        \* child_runs, with the points taken from them
  errors,      \* errors: the case of each error, in order
  groupResult  \* the group's result.json

loopVars == <<c, a, r>>
rowVars == <<results, runs, errors>>
gridVars == <<at, loopVars, rowVars, groupResult>>

\* _sweep_metadata of the point the loops are at.
Case == [context |-> ContextLengths[c], agents |-> AgentCounts[a], repeat |-> r]

NoResult == [published |-> FALSE]

Results ==
  [case : [context : Range(ContextLengths), agents : Range(AgentCounts), repeat : 1..Repeats],
   verified : Nat, failed : Nat, errors : Nat]

GridTypeOK ==
  /\ at \in {"idle", "child", "done", "crashed"}
  /\ c \in 1..(Len(ContextLengths) + 1)
  /\ a \in 1..Len(AgentCounts)
  /\ r \in 1..Repeats
  /\ Range(results) \subseteq Results
  /\ Range(runs) \subseteq Results
  /\ Range(errors) \subseteq { x.case : x \in Range(results) }

GridInit ==
  /\ at = "idle"
  /\ c = 1 /\ a = 1 /\ r = 1
  /\ results = <<>>
  /\ runs = <<>>
  /\ errors = <<>>
  /\ groupResult = NoResult

-----------------------------------------------------------------------------
\* TeamOrchestrator(child_config).run begins.  Whether it found vLLM healthy
\* is in its result.json, which the sweep does not ask.
StartChild ==
  /\ at = "idle" /\ c <= Len(ContextLengths)
  /\ at' = "child"
  /\ UNCHANGED <<loopVars, rowVars, groupResult>>

\* The three nested loops go on.
NextCase ==
  /\ r' = IF r < Repeats THEN r + 1 ELSE 1
  /\ a' = IF r < Repeats THEN a ELSE IF a < Len(AgentCounts) THEN a + 1 ELSE 1
  /\ c' = IF r = Repeats /\ a = Len(AgentCounts) THEN c + 1 ELSE c

\* The errors of a run that belong to none of its issues.
RunErrors == { noDocker + noRunner : noDocker \in 0..1, noRunner \in 0..1 }

\* The child's result.json is there.
ChildResult(verified, raised, ofRun) ==
  [case |-> Case, verified |-> verified, failed |-> AgentCounts[a] - verified,
   errors |-> ofRun + raised]

\* Its errors follow those of the children before it.
AddErrors(x) == errors' = errors \o [i \in 1..x.errors |-> x.case]

\* Mutant of ChildPublishes: the row is made from the child before this one.
ChildPublishesStale ==
  /\ at = "child"
  /\ \E verified \in 0..AgentCounts[a], ofRun \in RunErrors :
       \E raised \in 0..(AgentCounts[a] - verified) :
         results' = Append(results, ChildResult(verified, raised, ofRun))
  /\ runs' = Append(runs, results'[Len(runs) + IF runs = <<>> THEN 1 ELSE 0])
  /\ AddErrors(Last(runs'))
  /\ NextCase
  /\ at' = "idle"
  /\ UNCHANGED groupResult

\* child_runs, points and errors take what is theirs from the result.json.
ChildPublishes ==
  /\ at = "child"
  /\ \E verified \in 0..AgentCounts[a], ofRun \in RunErrors :
       \E raised \in 0..(AgentCounts[a] - verified) :
         results' = Append(results, ChildResult(verified, raised, ofRun))
  /\ runs' = Append(runs, Last(results'))
  /\ AddErrors(Last(runs'))
  /\ NextCase
  /\ at' = "idle"
  /\ UNCHANGED groupResult

\* Mutant of ChildRaises: the exception is swallowed and the loop goes on.
ChildRaisesSwallowed ==
  /\ at = "child"
  /\ NextCase
  /\ at' = "idle"
  /\ UNCHANGED <<rowVars, groupResult>>

\* An exception of the child ends the sweep: its group result is never written,
\* whatever the children before it published.
ChildRaises ==
  /\ at = "child"
  /\ at' = "crashed"
  /\ UNCHANGED <<loopVars, rowVars, groupResult>>

\* _summary_from_points.
Summary ==
  [points |-> Len(runs),
   maxAgents |-> Max({ runs[k].case.agents : k \in DOMAIN runs }),
   total |-> SumFunction([k \in DOMAIN runs |-> runs[k].verified + runs[k].failed]),
   failed |-> SumFunction([k \in DOMAIN runs |-> runs[k].failed])]

\* points are sorted by agents alone, child_runs stay in the order of the loops.
PublishGroup ==
  /\ at = "idle" /\ c > Len(ContextLengths)
  /\ groupResult' =
       [published |-> TRUE, summary |-> Summary, runs |-> runs, errors |-> errors,
        points |-> SortedByAgents([k \in DOMAIN runs |-> runs[k].case.agents], runs)]
  /\ at' = "done"
  /\ UNCHANGED <<loopVars, rowVars>>

Child == ChildPublishes \/ ChildRaises

GridNext == StartChild \/ Child \/ PublishGroup

GridSpec == GridInit /\ [][GridNext]_gridVars

-----------------------------------------------------------------------------
\* Where the row of the j-th context length, k-th agent count and q-th repeat is.
Place(j, k, q) == ((j - 1) * Len(AgentCounts) + (k - 1)) * Repeats + q

\* The rows of the group are the grid, also when a list of the command line has
\* a value twice: a finished sweep has one row for every combination at its place
\* and no other, none that ended without a result is hidden in it, and points has
\* the same rows, each as often, sorted by agents.
GroupCoversGrid ==
  groupResult.published =>
    LET children == groupResult.runs
        points == groupResult.points
        Times(rows, x) == Cardinality({ n \in DOMAIN rows : rows[n] = x })
    IN  /\ Len(children) = Len(ContextLengths) * Len(AgentCounts) * Repeats
        /\ \A j \in DOMAIN ContextLengths, k \in DOMAIN AgentCounts, q \in 1..Repeats :
             children[Place(j, k, q)].case =
               [context |-> ContextLengths[j], agents |-> AgentCounts[k], repeat |-> q]
        /\ \A x \in Range(children) \cup Range(points) : Times(points, x) = Times(children, x)
        /\ \A m, n \in DOMAIN points :
             m < n => points[m].case.agents <= points[n].case.agents

\* The errors of the children before the k-th.
ErrorsBefore(k) == SumFunction([m \in 1..(k - 1) |-> results[m].errors])

\* Every row is its own child's: its totals are those of the result.json the
\* child wrote, they count one issue per agent, and the summary adds them up.
\* The errors are those of all the children, child by child in the order of
\* the rows, also of children none of whose issues failed.
RowsAreTheChildrens ==
  /\ runs = results
  /\ \A k \in DOMAIN runs : runs[k].verified + runs[k].failed = runs[k].case.agents
  /\ Len(errors) = ErrorsBefore(Len(results) + 1)
  /\ \A k \in DOMAIN results : \A e \in 1..results[k].errors :
       errors[ErrorsBefore(k) + e] = results[k].case
  /\ groupResult.published =>
       /\ groupResult.errors = errors
       /\ groupResult.summary.total = Repeats * Len(ContextLengths) * SumFunction(AgentCounts)
       /\ groupResult.summary.failed <= groupResult.summary.total

=============================================================================
