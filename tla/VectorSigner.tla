---------------------------- MODULE VectorSigner ----------------------------
(***************************************************************************)
(* The vector signer's writing commands (tools/vector-signer): each builds *)
(* its vectors and appends them to its document, or, for the fuzz suite,   *)
(* patches them in.  A command may be stopped between any two of its       *)
(* steps.  A dry run, and gen-phase-c1, only print.                        *)
(***************************************************************************)
EXTENDS ConformanceFiles

CONSTANTS
  Commands,     \* name -> [mode, target, suite, vectors]
  MaxCommands   \* how many commands are run

\* What a command builds has ids of its own: append_vectors only looks for them in
\* the document.
ASSUME CommandsTyped ==
  \A c \in DOMAIN Commands :
    /\ Commands[c].mode \in {"append", "patch"}
    /\ Commands[c].target \in Documents
    /\ Commands[c].suite \in STRING /\ Commands[c].vectors \in Seq(STRING)
    /\ Commands[c].mode = "append" => IdsAreDistinct(Document(Commands[c].suite, Commands[c].vectors))

VARIABLES
  signer,     \* where the running command is: "idle", "read", "write", "rest" or "rename"
  command,    \* the command that is running
  edited,     \* the document it is about to write
  temps,      \* documents with a .json.tmp beside them
  started,    \* commands run so far
  published   \* history: per document, the ids that were ever in it whole

signerVars == <<signer, command, edited, temps, started, published>>

NoCommand == "none"
Target == Commands[command].target

SignerInit ==
  /\ signer = "idle" /\ command = NoCommand /\ edited = Absent
  /\ temps = {} /\ started = 0
  /\ published = [d \in Documents |-> Ids(disk[d])]

\* The first vector with the id of key, if there is one.
Positions(vectors, key) == {i \in DOMAIN vectors : IdOf(vectors[i]) = IdOf(key)}
First(positions) == CHOOSE i \in positions : \A j \in positions : i <= j

\* Mutant: what is there already is dropped.
Extended_Fresh(doc, new) == [doc EXCEPT !.vectors = new]

\* append_vectors: the new vectors come last.
Extended(doc, new) == [doc EXCEPT !.vectors = @ \o new]

\* patch_vectors_in_file: each takes the place of the first vector of its id, or
\* comes last.
PatchOne(vectors, patch) ==
  LET hits == Positions(vectors, patch)
  IN  IF hits = {} THEN Append(vectors, patch) ELSE [vectors EXCEPT ![First(hits)] = patch]
PatchedOneByOne(vectors, patches) ==
  LET patched[i \in 0 .. Len(patches)] ==
        IF i = 0 THEN vectors ELSE PatchOne(patched[i - 1], patches[i])
  IN  patched[Len(patches)]
Patched(doc, patches) == [doc EXCEPT !.vectors = PatchedOneByOne(@, patches)]

\* The process is gone, with all it had read.
Ended == signer' = "idle" /\ command' = NoCommand /\ edited' = Absent

StartCommand(c) ==
  /\ signer = "idle" /\ started < MaxCommands
  /\ signer' = "read" /\ command' = c
  /\ started' = started + 1
  /\ UNCHANGED <<disk, edited, temps, published>>

\* What the command makes of its target: the set of the new document, or nothing.
\* A torn target does not parse, an append refuses an id that is there, a patch
\* creates no document and refuses patches that share an id.
AppendTo(doc, c) ==
  LET base == IF doc.state = "absent" THEN Document(c.suite, <<>>) ELSE doc
      clash == \E i \in DOMAIN c.vectors : Positions(base.vectors, c.vectors[i]) # {}
  IN  IF doc.state = "torn" \/ clash THEN {} ELSE {Extended(base, c.vectors)}
PatchOf(doc, c) ==
  IF doc.state # "whole" \/ ~IdsAreDistinct(Document(c.suite, c.vectors)) THEN {}
  ELSE {Patched(doc, c.vectors)}
Edits(doc, c) == IF c.mode = "append" THEN AppendTo(doc, c) ELSE PatchOf(doc, c)

ReadTarget ==
  LET edits == Edits(disk[Target], Commands[command])
  IN  /\ signer = "read"
      /\ IF edits = {} THEN Ended
                       ELSE signer' = "write" /\ edited' \in edits /\ UNCHANGED command
      /\ UNCHANGED <<disk, temps, started, published>>

\* The command's document is on disk under its name.
Publish(d) ==
  /\ disk' = [disk EXCEPT ![d] = edited]
  /\ published' = [published EXCEPT ![d] = @ \cup Ids(edited)]
  /\ Ended

\* fs::write: the file is emptied first.
Truncate ==
  /\ signer = "write" /\ Commands[command].mode = "append"
  /\ disk' = [disk EXCEPT ![Target] = Torn]
  /\ signer' = "rest"
  /\ UNCHANGED <<command, edited, temps, started, published>>

WriteRest ==
  /\ signer = "rest"
  /\ Publish(Target)
  /\ UNCHANGED <<temps, started>>

\* Mutant: the patched document is written in place.
WriteTemp_InPlace ==
  /\ signer = "write" /\ Commands[command].mode = "patch"
  /\ disk' = [disk EXCEPT ![Target] = Torn]
  /\ signer' = "rest"
  /\ UNCHANGED <<command, edited, temps, started, published>>

\* The patched document is written beside its target, which is left alone.
WriteTemp ==
  /\ signer = "write" /\ Commands[command].mode = "patch"
  /\ temps' = temps \cup {Target}
  /\ signer' = "rename"
  /\ UNCHANGED <<disk, command, edited, started, published>>

Rename ==
  /\ signer = "rename"
  /\ Publish(Target)
  /\ temps' = temps \ {Target}
  /\ UNCHANGED started

\* The command is stopped; the directory stays as it is.
Crash ==
  /\ signer # "idle"
  /\ Ended
  /\ UNCHANGED <<disk, temps, started, published>>

SignerNext ==
  \/ \E c \in DOMAIN Commands : StartCommand(c)
  \/ ReadTarget \/ Truncate \/ WriteRest \/ WriteTemp \/ Rename \/ Crash

\* The signer by itself: nobody else writes the documents.
SignerSpec ==
  disk \in InitialDisks /\ SignerInit /\ [][SignerNext]_<<disk, signerVars>>

-----------------------------------------------------------------------------

\* A document that can be read holds every vector it ever held, under its id, and
\* none twice, whatever commands were run, refused or stopped (append_vectors,
\* patch_vectors_in_file).
DocumentsOnlyGrow ==
  \A d \in Documents : disk[d].state = "whole" => published[d] = Ids(disk[d]) /\ IdsAreDistinct(disk[d])

\* A document that only patches are aimed at can be read at every moment, even after
\* a command was stopped (patch_vectors_in_file, its comment on the atomic write).
PatchedFileIsNeverTorn ==
  \A d \in Documents :
    (\A c \in DOMAIN Commands : Commands[c].target = d => Commands[c].mode = "patch")
      => disk[d].state # "torn"
=============================================================================
