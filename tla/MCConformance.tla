---------------------------- MODULE MCConformance ----------------------------
(***************************************************************************)
(* The conformance directory before and after the signer's commands, the   *)
(* commands that may run while the command line does, and its invocations. *)
(***************************************************************************)
EXTENDS Conformance, VectorVerdicts

ASSUME OneGuestWord == GuestWordBits = WordBits

FormerIds == (MockKey :> "fuzz-190")
KeysWithClassifier == {"fuzz-190", "fuzz-200", "guest-grows", "guest-traps", "guest-large", "guest-mute"}

ClassifiersByKey ==
  [key \in KeysWithClassifier |-> CHOOSE v \in ToSet(ClassifierVectors) : v.id = key]
AllJudged == JudgementOf(AllVectors)

ASSUME KeysWithClassifier = ToSet(IdsOf(ClassifierVectors))

SuiteMandates == {0} \cup 100 .. 120 \cup 200 .. 220 \cup {304}
SuitePatterns == 1 .. 15

Disks == {HandWrittenDisk, CommittedDisk}

\* One command that appends to a document written by hand (--target), one that
\* creates its document, and the one that patches.
SomeCommands ==
  [gen_phase_c2 |-> [gen_commands.gen_phase_c2 EXCEPT !.target = "pcr-attestation-reject"],
   gen_phase_c4_audit |-> gen_commands.gen_phase_c4_audit,
   gen_fuzz_c3_c |-> gen_commands.gen_fuzz_c3_c]

Run(files, filter, schema_loads, json_report) ==
  [inputs |-> files, filter |-> filter, schema_loads |-> schema_loads, json_report |-> json_report]
SomeInvocations ==
  {Run(<<>>, {}, TRUE, FALSE),
   Run(<<"pcr-attestation-reject", "fuzz-baseline">>, {"fuzz-baseline"}, TRUE, TRUE),
   Run(<<"guests", "draft", Classifier>>, {}, TRUE, FALSE),
   Run(<<>>, {}, FALSE, FALSE)}

-----------------------------------------------------------------------------

\* A vector the signer built is judged the way the signer meant it: it never fails,
\* in whatever file it is found, next to whatever others (the expected outcomes in
\* the builders, the executors in suites/).  fuzz-190 as it stood before has the id
\* of a signed vector, and fails: it was not written for a live classifier.
SignedVectorsAreJudgedAsIntended ==
  LET signed == UNION {Ids(Document("", gen_commands[c].vectors)) : c \in DOMAIN gen_commands}
      before == {IdOf(MockKey) : i \in {i \in DOMAIN reads : MockKey \in ToSet(reads[i].vectors)}}
  IN  \A s \in DOMAIN report : report[s].failures \cap signed \subseteq before
=============================================================================
