------------------------------ MODULE Harness ------------------------------
(***************************************************************************)
(* The suite runner of ephemeral-core (runner.rs, suite_file.rs, the       *)
(* report types) and the command line around it (ephemeral-cli): it reads  *)
(* its input files one by one, judges their vectors, reads the files again *)
(* for its three summaries, and exits.                                     *)
(*                                                                         *)
(* An invocation is [inputs, filter, schema_loads, json_report]; without   *)
(* inputs the default ones are taken, without a filter every suite is run. *)
(***************************************************************************)
EXTENDS ConformanceFiles

CONSTANTS
  Invocations,
  DefaultInputs,  \* default_inputs: the names it looks for, in order
  StemSuites,     \* stem_suite_hint: file name -> suite
  ClassifierKeys  \* vectors that carry a classifier to run

\* A command line names files, and the ones looked for without it are known.
ASSUME InvocationsTyped ==
  /\ \A j \in Invocations : j.inputs \in Seq(Documents)
  /\ DefaultInputs \in Seq(Documents)

VARIABLES
  cli,       \* "idle", "reading", "judging", "classifying", "summarizing" or "exited"
  job,       \* the invocation
  inputs,    \* its input files
  at,        \* the one in work
  loaded,    \* its content, as it was read
  vec,       \* the next vector to judge
  sr,        \* the report on the file
  report,    \* suite -> report
  summaries, \* those made so far: crypto, attestation, transparency
  exit,      \* the exit code, if there is one
  judged,    \* what there is to know of the vectors, worked out in the beginning:
             \* failing, those the executors fail; marks, what the input of each
             \* holds (cose, mock, proof-live, proof-mock)
  \* History:
  reads,     \* what was read for each input
  changed    \* a file was written while the command line ran

harnessVars == <<cli, job, inputs, at, loaded, vec, sr, report, summaries, exit, reads>>

EmptyReport ==
  [file |-> "", schema_ok |-> {}, pass |-> 0, fail |-> 0, error |-> 0, skipped |-> 0, failures |-> {}]
NoJob == [inputs |-> <<>>, filter |-> {}, schema_loads |-> FALSE, json_report |-> FALSE]

HarnessInit ==
  /\ cli = "idle" /\ job = NoJob /\ inputs = <<>> /\ at = 1 /\ loaded = Absent /\ vec = 1
  /\ sr = EmptyReport /\ report = [s \in {} |-> EmptyReport] /\ summaries = <<>>
  /\ exit = {} /\ reads = <<>> /\ changed = FALSE
  \* A vector with a classifier fails by what its classifier does, and not before.
  /\ judged.failing \cap ClassifierKeys = {}

-----------------------------------------------------------------------------
(* Reports.                                                                *)

\* tally, for a run of vectors, of which some fail.
Tallied(r, keys, failing) ==
  LET failed == {i \in DOMAIN keys : keys[i] \in failing}
  IN  [r EXCEPT !.pass = @ + Len(keys) - Cardinality(failed), !.fail = @ + Cardinality(failed),
                !.failures = @ \cup {IdOf(keys[i]) : i \in failed}]

FileError(file, schema_ok) ==
  [EmptyReport EXCEPT !.file = file, !.schema_ok = schema_ok, !.error = 1, !.failures = {"<file>"}]

\* Some(a) && Some(b), None being neutral.
SchemaBoth(a, b) == IF a = {} THEN b ELSE IF b = {} THEN a ELSE {a = {TRUE} /\ b = {TRUE}}

\* Mutant: a later file of a suite overwrites the counts of an earlier one.
merge_into_Overwrites(suite, r) ==
  [s \in DOMAIN report \cup {suite} |-> IF s = suite THEN r ELSE report[s]]

\* Several files may report on one suite; the first one's name is kept.
merge_into(suite, r) ==
  LET entry == IF suite \in DOMAIN report THEN report[suite] ELSE EmptyReport
      merged == [file      |-> IF entry.file = "" THEN r.file ELSE entry.file,
                 schema_ok |-> SchemaBoth(entry.schema_ok, r.schema_ok),
                 pass      |-> entry.pass + r.pass,
                 fail      |-> entry.fail + r.fail,
                 error     |-> entry.error + r.error,
                 skipped   |-> entry.skipped + r.skipped,
                 failures  |-> entry.failures \cup r.failures]
  IN  [s \in DOMAIN report \cup {suite} |-> IF s = suite THEN merged ELSE report[s]]

\* The bucket of a file that could not be read.
stem_suite_hint(file) == IF file \in DOMAIN StemSuites THEN StemSuites[file] ELSE "audit-replay"

\* Mutant: only failed vectors count, not files that could not be read.
is_clean_NoErrors == \A s \in DOMAIN report : report[s].fail = 0

\* total_failing sums up numbers that are never negative.
is_clean == \A s \in DOMAIN report : report[s].fail + report[s].error = 0

-----------------------------------------------------------------------------
(* The run.                                                                *)

\* Those of the default files that are there, in order.
default_inputs ==
  LET there == {i \in DOMAIN DefaultInputs : disk[DefaultInputs[i]].state # "absent"}
      Nth(n) == CHOOSE i \in there : Cardinality({j \in there : j < i}) = n - 1
  IN  [n \in 1 .. Cardinality(there) |-> DefaultInputs[Nth(n)]]

Exit(code) == cli' = "exited" /\ exit' = {code}

\* main and run: without a schema, or without inputs, there is nothing to do.
Invoke(j) ==
  LET chosen == IF j.inputs = <<>> THEN default_inputs ELSE j.inputs
  IN  /\ cli = "idle"
      /\ job' = j /\ inputs' = chosen
      /\ IF j.schema_loads /\ chosen # <<>> THEN cli' = "reading" /\ UNCHANGED exit ELSE Exit(2)
      /\ UNCHANGED <<at, loaded, vec, sr, report, summaries, reads>>

\* A file is done: on to the next, or to the summaries.
NextFile(suite, r) ==
  /\ report' = merge_into(suite, r)
  /\ at' = at + 1 /\ loaded' = Absent /\ vec' = 1 /\ sr' = EmptyReport
  /\ cli' = IF at = Len(inputs) THEN "summarizing" ELSE "reading"
  /\ UNCHANGED <<job, inputs, summaries, exit>>

Excluded(doc) == job.filter # {} /\ doc.suite \notin job.filter
Conforms(doc) == \A i \in DOMAIN doc.vectors : doc.vectors[i] \notin Nonconforming

\* run_file up to the first vector: the file loads or not, its suite is wanted or
\* not (an unwanted file is not held against the schema), it conforms or not.
ReadFile ==
  LET file == inputs[at]
      doc  == disk[file]
  IN  /\ cli = "reading"
      /\ reads' = Append(reads, doc)
      /\ IF doc.state # "whole" THEN NextFile(stem_suite_hint(file), FileError(file, {}))
         ELSE IF Excluded(doc)
           THEN NextFile(doc.suite, [EmptyReport EXCEPT !.file = file, !.skipped = Len(doc.vectors)])
         ELSE IF ~Conforms(doc) THEN NextFile(doc.suite, FileError(file, {FALSE}))
         ELSE /\ cli' = "judging" /\ loaded' = doc /\ vec' = 1
              /\ sr' = [EmptyReport EXCEPT !.file = file, !.schema_ok = {TRUE}]
              /\ UNCHANGED <<job, inputs, at, report, summaries, exit>>

\* The vectors from the next one to the first that carries a classifier.
Waits(i) == i > Len(loaded.vectors) \/ loaded.vectors[i] \in ClassifierKeys
Stop ==
  LET waiting == {i \in vec .. Len(loaded.vectors) + 1 : Waits(i)}
  IN  CHOOSE i \in waiting : \A j \in waiting : i <= j

\* execute_vector and tally, vector by vector.
JudgeVectors ==
  LET keys == SubSeq(loaded.vectors, vec, Stop - 1)
  IN  /\ cli = "judging" /\ ~Waits(vec)
      /\ sr' = Tallied(sr, keys, judged.failing)
      /\ vec' = Stop
      /\ UNCHANGED <<cli, job, inputs, at, loaded, report, summaries, exit, reads>>

FinishFile ==
  /\ cli = "judging" /\ vec > Len(loaded.vectors)
  /\ NextFile(loaded.suite, sr)
  /\ UNCHANGED reads

\* The vector at hand is left to its classifier, and taken up with its verdict.
AtClassifier == cli = "judging" /\ vec <= Len(loaded.vectors) /\ Waits(vec)
HandOver ==
  /\ AtClassifier
  /\ cli' = "classifying"
  /\ UNCHANGED <<job, inputs, at, loaded, vec, sr, report, summaries, exit, reads>>
TakeUp(verdict) ==
  /\ cli = "classifying"
  /\ sr' = Tallied(sr, <<loaded.vectors[vec]>>, IF verdict = "Pass" THEN {} ELSE {loaded.vectors[vec]})
  /\ vec' = vec + 1
  /\ cli' = "judging"
  /\ UNCHANGED <<job, inputs, at, loaded, report, summaries, exit, reads>>

-----------------------------------------------------------------------------
(* The summaries.  Each reads the inputs again, and passes over those it   *)
(* cannot read; none looks at the filter.                                  *)

KeysNow(suites) ==
  UNION {{<<i, n>> : n \in DOMAIN disk[inputs[i]].vectors} :
           i \in {i \in DOMAIN inputs : disk[inputs[i]].suite \in suites}}
MarksOf(p) == judged.marks[disk[inputs[p[1]]].vectors[p[2]]]

Mode(live, mock, mocked) ==
  CASE live = 0 /\ mock = 0 -> "none" [] mock = 0 -> "live" [] live = 0 -> mocked [] OTHER -> "mixed"
Summary(live, mock, mocked) == [mode |-> Mode(live, mock, mocked), live |-> live, mock |-> mock]

\* A vector with a COSE signature is live, even if it has mock markers, too.
summarize_crypto ==
  LET keys == KeysNow({disk[d].suite : d \in Documents})
      live == {p \in keys : "cose" \in MarksOf(p)}
      mock == {p \in keys \ live : "mock" \in MarksOf(p)}
  IN  Summary(Cardinality(live), Cardinality(mock), "mocked")
summarize_attestation ==
  LET keys == KeysNow({"pcr-attestation-reject"})
      live == {p \in keys : "cose" \in MarksOf(p)}
  IN  Summary(Cardinality(live), Cardinality(keys \ live), "mock")
summarize_transparency ==
  LET keys == KeysNow({"pcr-attestation-reject"})
      live == {p \in keys : "proof-live" \in MarksOf(p)}
      mock == {p \in keys \ live : "proof-mock" \in MarksOf(p)}
  IN  Summary(Cardinality(live), Cardinality(mock), "mock")

Summarize ==
  /\ cli = "summarizing" /\ Len(summaries) < 3
  /\ summaries' = Append(summaries, <<summarize_crypto, summarize_attestation,
                                      summarize_transparency>>[Len(summaries) + 1])
  /\ UNCHANGED <<cli, job, inputs, at, loaded, vec, sr, report, exit, reads>>

\* print_report and write_json_report, which may fail; then the exit code.
Finish(written) ==
  /\ cli = "summarizing" /\ Len(summaries) = 3
  /\ IF job.json_report /\ ~written THEN Exit(2) ELSE Exit(IF is_clean THEN 0 ELSE 1)
  /\ UNCHANGED <<job, inputs, at, loaded, vec, sr, report, summaries, reads>>

-----------------------------------------------------------------------------

\* Somebody else writes files; the command line does not notice.
FilesWritten ==
  /\ changed' = (changed \/ (disk' # disk /\ cli \notin {"idle", "exited"}))
  /\ UNCHANGED <<harnessVars, judged>>

\* The command line by itself: whatever verdicts its classifiers lead to, and
\* whatever is written into the directory meanwhile.
HarnessNext ==
  \/ /\ \/ \E j \in Invocations : Invoke(j)
        \/ ReadFile \/ JudgeVectors \/ FinishFile \/ HandOver \/ Summarize
        \/ \E verdict \in {"Pass", "Fail"} : TakeUp(verdict)
        \/ \E written \in BOOLEAN : Finish(written)
     /\ UNCHANGED <<disk, judged, changed>>
  \/ disk' \in [Documents -> Contents] /\ FilesWritten

HarnessSpec ==
  /\ disk \in InitialDisks /\ HarnessInit
  /\ [][HarnessNext]_<<disk, harnessVars, judged, changed>>

-----------------------------------------------------------------------------

\* Exit code 0 means: every input could be read, conformed to the schema unless
\* its suite was filtered out, and every vector it then held got the verdict it
\* expects (run_file, merge_into, is_clean, main).
CleanMeansEveryVectorPassed ==
  exit = {0} =>
    /\ \A i \in DOMAIN reads :
         /\ reads[i].state = "whole"
         /\ Excluded(reads[i]) \/ Conforms(reads[i])
         /\ Excluded(reads[i]) \/ \A n \in DOMAIN reads[i].vectors :
                                    reads[i].vectors[n] \notin judged.failing
    /\ \A s \in DOMAIN report : report[s].failures = {}

\* The suite the i-th input is reported under, and how many verdicts it stands for:
\* its vectors, or one error.
SuiteOf(i) == IF reads[i].state = "whole" THEN reads[i].suite ELSE stem_suite_hint(inputs[i])
Weight(doc) == IF doc.state = "whole" /\ (Excluded(doc) \/ Conforms(doc)) THEN Len(doc.vectors) ELSE 1
Due(suite) ==
  UNION {{<<i, n>> : n \in 1 .. Weight(reads[i])} : i \in {i \in DOMAIN reads : SuiteOf(i) = suite}}

\* The report accounts, suite by suite, for every vector that was read and for every
\* file that could not be; and when no file changed during the run, the attestation
\* summary, which reads the files a second time, is about the very vectors that were
\* reported (merge_into, summarize_attestation).
TalliesAccountForEveryVector ==
  cli = "summarizing" =>
    /\ \A i \in DOMAIN reads : SuiteOf(i) \in DOMAIN report
    /\ \A s \in DOMAIN report :
         report[s].pass + report[s].fail + report[s].error + report[s].skipped = Cardinality(Due(s))
    /\ ~changed /\ Len(summaries) >= 2 /\ "pcr-attestation-reject" \in DOMAIN report =>
         LET r == report["pcr-attestation-reject"]
         IN  r.error = 0 => summaries[2].live + summaries[2].mock = r.pass + r.fail + r.skipped
=============================================================================
