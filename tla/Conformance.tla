----------------------------- MODULE Conformance -----------------------------
(***************************************************************************)
(* The conformance tooling at work: the vector signer writes documents in  *)
(* conformance/ while the command line reads and judges them, handing the  *)
(* vectors that carry a classifier to the classifier host.                 *)
(***************************************************************************)
EXTENDS VectorSigner, Harness, ClassifierHost

CONSTANTS
  Judgement,    \* what the executors make of the vectors without a classifier
  Classifiers   \* key -> fuzz vector with one, a module and a context in it

FuzzExecutor == INSTANCE FuzzSuite

\* The sizes a module declares or asks for are natural numbers.
SizesTyped(m) ==
  /\ m.pages \in Nat /\ m.elements \in Nat
  /\ \A f \in {"alloc", "classify"} : m.may[f].grows \subseteq Nat

ASSUME ClassifiersTyped ==
  /\ DOMAIN Classifiers = ClassifierKeys
  /\ \A key \in ClassifierKeys :
       /\ FuzzExecutor!NeedsClassifier(Classifiers[key])
       /\ \A m \in Classifiers[key].input.wasm : SizesTyped(m)

conformanceVars == <<disk, signerVars, harnessVars, hostVars, judged, changed>>

Init ==
  /\ judged = Judgement
  /\ disk \in InitialDisks
  /\ SignerInit /\ HarnessInit /\ HostInit

\* The vector at hand, when it carries a classifier.
VectorAtHand == Classifiers[loaded.vectors[vec]]

SignerStep ==
  /\ SignerNext
  /\ FilesWritten
  /\ UNCHANGED hostVars

CliStep ==
  /\ \/ \E j \in Invocations : Invoke(j)
     \/ ReadFile \/ JudgeVectors \/ FinishFile \/ Summarize
     \/ \E written \in BOOLEAN : Finish(written)
  /\ UNCHANGED <<disk, signerVars, hostVars, judged, changed>>

\* execute_reject hands the vector's classifier to the host ...
Classify ==
  /\ HandOver
  /\ \E m \in VectorAtHand.input.wasm, length \in VectorAtHand.input.context : Begin(m, length)
  /\ UNCHANGED <<disk, signerVars, judged, changed>>

\* ... which runs it ...
HostStep ==
  /\ cli = "classifying"
  /\ \E length \in VectorAtHand.input.context : GuestStep(length)
  /\ UNCHANGED <<disk, signerVars, harnessVars, judged, changed>>

\* ... and compares what comes back with the floor.
Classified ==
  /\ cli = "classifying" /\ phase = "idle"
  /\ TakeUp(FuzzExecutor!execute(VectorAtHand, {result}))
  /\ UNCHANGED <<disk, signerVars, hostVars, judged, changed>>

\* The process of the command line, its guests included.
CommandLine == CliStep \/ Classify \/ HostStep \/ Classified

Next == SignerStep \/ CommandLine

\* Once started, the command line runs on by itself; it waits for no one.  Nothing
\* makes a developer run a command, or the signer go on.
Spec ==
  /\ Init /\ [][Next]_conformanceVars
  /\ WF_<<harnessVars, hostVars>>(cli # "idle" /\ CommandLine)

-----------------------------------------------------------------------------

\* Every run of the command line ends, whatever guest it has to run and whatever
\* the signer does to the files meanwhile (run_many's loop, the fuel of
\* execute_classifier).
EveryRunEnds == cli # "idle" ~> cli = "exited"

\* A canonicalization vector that passes as accepted has an encoding from which its
\* intent can be read back, and which no other accepted intent has
\* (cbor/mod.rs: encode, decode; the float narrowing and the order of the keys).
AcceptedIntentsKeepTheirMeaning ==
  \A i \in DOMAIN reads :
    reads[i].suite = "canonicalization" =>
      \A n \in DOMAIN reads[i].vectors : reads[i].vectors[n] \notin judged.garbled
=============================================================================
