---------------------------- MODULE SweepReports ----------------------------
(***************************************************************************)
(* What the dashboard shows of a coding sweep, while the script of         *)
(* CodingSweep works and after: every GET of /api/run derives              *)
(* aligned_metrics.csv from the points if it is not there yet              *)
(* (ensure_aligned_metrics) and reads it (load_run_report).  Each GET has  *)
(* a thread of its own, and nothing keeps two of them from writing.        *)
(*                                                                         *)
(* The csv is written in blocks, as Python's buffer fills: a block is the  *)
(* row of a point here.  Two writers write the same bytes at the same      *)
(* places, but each begins by emptying the file.                           *)
(***************************************************************************)
EXTENDS CodingSweep

CONSTANTS
  Gets,     \* handler threads
  MaxGets   \* bound: requests there will be

ASSUME GetsAssumption == MaxGets \in Nat

VARIABLES
  at,       \* where each GET is
  last,     \* of how many points it has gathered the rows
  block,    \* the block it writes next, 0 for the header
  answer,   \* what it answered last
  table,    \* aligned_metrics.csv
  others,   \* aligned_metrics.json and aligned_metrics.md, if written
  broken,   \* a write failed half way, or the dashboard died in one
  gets      \* requests so far

tableVars == <<table, others, broken>>
reportVars == <<at, last, block, answer, tableVars, gets>>

ReportsTypeOK ==
  /\ TypeOK
  /\ at \in [Gets -> {"idle", "has_table", "has_summary", "summarize", "open", "write",
                      "json", "md", "read"}]
  /\ last \in [Gets -> 0..NumPoints] /\ block \in [Gets -> 0..NumPoints]
  /\ answer \in [Gets -> {"none", "empty", "part", "whole", "error"}]
  /\ table \in Written \cup {NoRows}
  /\ others \subseteq {"json", "md"}
  /\ broken \in BOOLEAN
  /\ gets \in 0..MaxGets

ReportsInit ==
  /\ at = [t \in Gets |-> "idle"]
  /\ last = [t \in Gets |-> 0] /\ block = [t \in Gets |-> 0]
  /\ answer = [t \in Gets |-> "none"]
  /\ table = NoRows
  /\ others = {}
  /\ broken = FALSE
  /\ gets = 0

Goes(t, place) == at' = [at EXCEPT ![t] = place]

\* What it knows ends with the request.
Answers(t, what) ==
  /\ Goes(t, "idle") /\ answer' = [answer EXCEPT ![t] = what]
  /\ last' = [last EXCEPT ![t] = 0] /\ block' = [block EXCEPT ![t] = 0]

-----------------------------------------------------------------------------
Request(t) ==
  /\ at[t] = "idle" /\ gets < MaxGets
  /\ gets' = gets + 1
  /\ answer' = [answer EXCEPT ![t] = "none"]
  /\ Goes(t, "has_table")
  /\ UNCHANGED <<last, block, tableVars>>

HasTable(t) ==
  /\ at[t] = "has_table"
  /\ Goes(t, IF table # NoRows THEN "read" ELSE "has_summary")
  /\ UNCHANGED <<last, block, answer, tableVars, gets>>

\* Mutant of HasSummary: the points are aligned as they are.
HasSummaryUnasked(t) ==
  /\ at[t] = "has_summary"
  /\ Goes(t, "summarize")
  /\ UNCHANGED <<last, block, answer, tableVars, gets>>

HasSummary(t) ==
  /\ at[t] = "has_summary"
  /\ Goes(t, IF rows = NoRows THEN "read" ELSE "summarize")
  /\ UNCHANGED <<last, block, answer, tableVars, gets>>

\* The agents_* directories: the script makes one when it prepares a point.
AgentDirs == 1..(IF phase = "prepare" THEN point - 1 ELSE point)

\* _summarize_point of every directory raises where there is no summary.json.
Summarize(t) ==
  /\ at[t] = "summarize"
  /\ IF AgentDirs \subseteq summary
     THEN /\ last' = [last EXCEPT ![t] = Cardinality(AgentDirs)]
          /\ Goes(t, "open") /\ UNCHANGED <<block, answer>>
     ELSE Answers(t, "error")
  /\ UNCHANGED <<tableVars, gets>>

\* open(..., "w") empties the file, also under another writer.
OpenReport(t) ==
  /\ at[t] = "open"
  /\ table' = [written |-> TRUE, points |-> {}]
  /\ Goes(t, "write")
  /\ UNCHANGED <<last, block, answer, others, broken, gets>>

NextBlock(t) ==
  IF block[t] = last[t] THEN Goes(t, "json") /\ UNCHANGED block
                        ELSE block' = [block EXCEPT ![t] = @ + 1] /\ UNCHANGED at

\* Mutant of WriteBlock: the last block stays in the buffer of a file that is
\* not closed.
WriteBlockUnflushed(t) ==
  /\ at[t] = "write"
  /\ table' = [table EXCEPT !.points = @ \cup ({block[t]} \ {0, last[t]})]
  /\ NextBlock(t)
  /\ UNCHANGED <<last, answer, others, broken, gets>>

WriteBlock(t) ==
  /\ at[t] = "write"
  /\ table' = [table EXCEPT !.points = @ \cup ({block[t]} \ {0})]
  /\ NextBlock(t)
  /\ UNCHANGED <<last, answer, others, broken, gets>>

WriteOthers(t) ==
  /\ \/ at[t] = "json" /\ others' = others \cup {"json"} /\ Goes(t, "md")
     \/ at[t] = "md" /\ others' = others \cup {"md"} /\ Goes(t, "read")
  /\ UNCHANGED <<last, block, answer, table, broken, gets>>

Writing(t) == at[t] \in {"write", "json", "md"}

\* The disk is full: the request is answered with an error, and the files stay
\* as they are.
WriteFails(t) ==
  /\ Writing(t)
  /\ broken' = TRUE
  /\ Answers(t, "error")
  /\ UNCHANGED <<table, others, gets>>

\* The rows _read_csv_rows finds: none in a file that is not there.
RowsOf(file) == IF file = NoRows THEN {} ELSE file.points

\* A writer that was overtaken writes behind the end of the file.
Hole == \E p \in RowsOf(table) : p > 1 /\ p - 1 \notin RowsOf(table)

\* The rows of the aligned table or, where it has none, those of the sweep's own.
\* The bytes of a hole parse as a broken row, or not at all.
ReadReport(t) ==
  /\ at[t] = "read"
  /\ LET points == IF RowsOf(table) # {} THEN RowsOf(table) ELSE RowsOf(rows)
     IN  IF Hole
         THEN \E what \in {"part", "error"} : Answers(t, what)
         ELSE Answers(t, CASE points = {} -> "empty" [] points = Points -> "whole"
                           [] OTHER -> "part")
  /\ UNCHANGED <<tableVars, gets>>

\* The dashboard is ended and started again.
Restart ==
  /\ \E t \in Gets : at[t] # "idle"
  /\ broken' = (broken \/ \E t \in Gets : Writing(t))
  /\ at' = [t \in Gets |-> "idle"]
  /\ last' = [t \in Gets |-> 0] /\ block' = [t \in Gets |-> 0]
  /\ UNCHANGED <<answer, table, others, gets>>

Handle(t) ==
  \/ HasTable(t) \/ HasSummary(t) \/ Summarize(t) \/ OpenReport(t)
  \/ WriteBlock(t) \/ WriteOthers(t) \/ ReadReport(t)

Reports == Restart \/ \E t \in Gets : Request(t) \/ Handle(t) \/ WriteFails(t)

AllInit == Init /\ ReportsInit

AllNext == (Next /\ UNCHANGED reportVars) \/ (Reports /\ UNCHANGED vars)

AllSpec == AllInit /\ [][AllNext]_<<vars, reportVars>>

\* A thread that handles a request goes on.
FairAllSpec == AllSpec /\ \A t \in Gets : WF_<<vars, reportVars>>(Handle(t) /\ UNCHANGED vars)

-----------------------------------------------------------------------------
\* The dashboard shows rows only of a whole sweep, and aligning the points of a
\* sweep that failed or is under way never turns a request into an error: an
\* answer that is less than the whole needs a writer under way beside it.
NothingOfPartialSweep ==
  [][\A t \in Gets : answer'[t] # answer[t] =>
       /\ answer'[t] \in {"part", "whole"} => summary = Points
       /\ answer'[t] \in {"part", "error"} => broken' \/ \E u \in Gets \ {t} : at[u] = "write"
    ]_<<vars, reportVars>>

\* A table that was begun gets complete, unless a write of it failed.
TableHeals == table # NoRows ~> (RowsOf(table) = Points /\ others = {"json", "md"}) \/ broken

=============================================================================
