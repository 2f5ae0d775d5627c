---------------------------- MODULE ClassifierHost ----------------------------
(***************************************************************************)
(* The classifier runtime (execute_classifier of ephemeral-classifier): a  *)
(* WASM module is checked, instantiated under a fuel budget and a memory   *)
(* limiter, and asked to classify one context.                             *)
(*                                                                         *)
(* The host and the guest take turns.  What the guest does is its own      *)
(* affair: wasm.may gives, for each of its two functions, the instructions *)
(* it may execute next, and every step is one of them.  A WASM page has    *)
(* PageSize bytes and a guest word WordBits bits, scaled down.             *)
(***************************************************************************)
EXTENDS Integers, Sequences, FiniteSets

CONSTANTS fuel_budget, max_output_bytes, max_memory_pages,  \* ClassifierConfig
          MAX_TABLE_ELEMENTS, PageSize, WordBits

ASSUME ClassifierConfigTyped ==
  /\ {fuel_budget, max_output_bytes, max_memory_pages, MAX_TABLE_ELEMENTS} \subseteq Nat
  /\ {PageSize, WordBits} \subseteq Nat \ {0}

VARIABLES
  phase,    \* "idle", "alloc" or "classify": which call is running
  wasm,     \* the module of the call
  pages,    \* size of its linear memory
  elements, \* size of its table
  fuel,     \* fuel left, for both calls
  denial,   \* the first denied growth: at most one [current_pages, requested_pages]
  buffer,   \* bytes the host allocated for the output
  result    \* of the last call

hostVars == <<phase, wasm, pages, elements, fuel, denial, buffer, result>>

NoModule == [parses |-> FALSE]

\* What a call ends with: an error, or a tier.
Failure(error) == [error |-> error, tier |-> {}]
Success(tier) == [error |-> "none", tier |-> {tier}]

HostInit ==
  /\ phase = "idle" /\ wasm = NoModule /\ pages = 0 /\ elements = 0
  /\ fuel = 0 /\ denial = {} /\ buffer = 0 /\ result = Failure("none")

\* The bit pattern of an i32 or an i64, read as unsigned.
Unsigned(i, bits) == i % 2^bits

\* The two halves of what classify returns.
unpack_locator(packed) ==
  LET bits == Unsigned(packed, 2 * WordBits)
  IN  [ptr |-> bits \div 2^WordBits, len |-> bits % 2^WordBits]

InMemory(ptr, len) == ptr + len <= pages * PageSize

\* Only the first denial is kept.
Denied(old, current, desired) ==
  IF old # {} THEN old ELSE {[current_pages |-> current, requested_pages |-> desired]}

map_guest_trap(recorded, fallback) ==
  IF recorded # {} THEN "MemoryGrowthDenied" ELSE fallback

\* validate_no_imports and validate_abi_exports.  An export is "ok", "missing" or
\* "mistyped".
ModuleError(m) ==
  LET exports == <<m.memory, m.alloc, m.classify>>
      broken == {i \in 1..3 : exports[i] # "ok"}
  IN  IF ~m.parses THEN "WasmParseError"
      ELSE IF m.imports THEN "ForbiddenImport"
      ELSE IF broken = {} THEN "ok"
      ELSE IF exports[CHOOSE i \in broken : \A j \in broken : i <= j] = "missing"
        THEN "MissingExport" ELSE "InvalidExportSignature"

\* Mutant: the limiter of the previous call is used again.
FreshDenial_Reused == denial
FreshDenial == {}

-----------------------------------------------------------------------------
(* The host's side.                                                        *)

\* execute_classifier as far as the call of alloc.  Its memory and its table are
\* growths from nothing, which the limiter judges like any other.
Begin(m, input_len) ==
  LET tooBig  == ModuleError(m) = "ok" /\ m.pages > max_memory_pages
      recorded == IF tooBig THEN Denied(FreshDenial, 0, m.pages) ELSE FreshDenial
      error   == IF ModuleError(m) # "ok" THEN ModuleError(m)
                 ELSE IF tooBig \/ m.elements > MAX_TABLE_ELEMENTS \/ ~m.data_fits
                   THEN map_guest_trap(recorded, "InstantiationFailed")
                 ELSE IF m.start THEN "ForbiddenStartFunction"
                 ELSE IF input_len >= 2^(WordBits - 1) THEN "InputTooLarge"
                 ELSE "ok"
  IN  /\ phase = "idle"
      /\ wasm' = m /\ buffer' = 0
      /\ fuel' = fuel_budget
      /\ denial' = recorded
      /\ IF error = "ok"
           THEN phase' = "alloc" /\ pages' = m.pages /\ elements' = m.elements /\ result' = Failure("none")
           ELSE phase' = "idle" /\ pages' = 0 /\ elements' = 0 /\ result' = Failure(error)

\* alloc returned: the context is written where it said.
AllocReturns(ptr, input_len) ==
  /\ phase = "alloc" /\ fuel > 0
  /\ ptr \in wasm.may.alloc.returns
  /\ fuel' = fuel - 1
  /\ IF InMemory(Unsigned(ptr, WordBits), input_len)
       THEN phase' = "classify" /\ UNCHANGED result
       ELSE phase' = "idle" /\ result' = Failure("MemoryAccessError")
  /\ UNCHANGED <<wasm, pages, elements, denial, buffer>>

\* Mutant: the buffer is allocated before the claimed length is looked at.
OutputBuffer_Eager(claimed) == claimed

\* The buffer for an output of the claimed length; none for one that is too large.
OutputBuffer(claimed) == IF claimed <= max_output_bytes THEN claimed ELSE 0

\* classify returned r = [packed, output]: the host reads the output and decodes
\* it to a tier, if that is what it is.
ClassifyReturns(r) ==
  LET located == unpack_locator(r.packed)
  IN  /\ phase = "classify" /\ fuel > 0
      /\ r \in wasm.may.classify.returns
      /\ fuel' = fuel - 1
      /\ phase' = "idle"
      /\ buffer' = OutputBuffer(located.len)
      /\ result' = IF located.len > max_output_bytes THEN Failure("OutputTooLarge")
                   ELSE IF ~InMemory(located.ptr, located.len) THEN Failure("MemoryAccessError")
                   ELSE IF r.output = {} THEN Failure("OutputDecodeFailed")
                   ELSE Success(CHOOSE t \in r.output : TRUE)
      /\ UNCHANGED <<wasm, pages, elements, denial>>

-----------------------------------------------------------------------------
(* The guest's side, in alloc or in classify.                              *)

Running == phase \in {"alloc", "classify"}
May == wasm.may[phase]

\* Mutant: an instruction costs nothing.
FuelAfter_Free == fuel
FuelAfter == fuel - 1

\* An instruction that touches nothing the host sees.
GuestWork ==
  /\ Running /\ fuel > 0 /\ May.loops
  /\ fuel' = FuelAfter
  /\ UNCHANGED <<phase, wasm, pages, elements, denial, buffer, result>>

\* memory.grow (memory_growing): above the cap it fails, and the guest goes on.
GuestGrows(delta) ==
  /\ Running /\ fuel > 0 /\ delta \in May.grows
  /\ fuel' = FuelAfter
  /\ IF pages + delta > max_memory_pages
       THEN denial' = Denied(denial, pages, pages + delta) /\ UNCHANGED pages
       ELSE pages' = pages + delta /\ UNCHANGED denial
  /\ UNCHANGED <<phase, wasm, elements, buffer, result>>

\* A trap: an instruction that cannot be executed, or no fuel for the next one.
GuestTraps ==
  /\ Running
  /\ fuel = 0 \/ May.traps
  /\ phase' = "idle"
  /\ result' = Failure(map_guest_trap(denial, IF phase = "alloc" THEN "AllocCallTrap"
                                                                 ELSE "ClassifyCallTrap"))
  /\ UNCHANGED <<wasm, pages, elements, fuel, denial, buffer>>

GuestStep(input_len) ==
  \/ GuestWork
  \/ GuestTraps
  \/ Running /\ \E delta \in May.grows : GuestGrows(delta)
  \/ phase = "alloc" /\ \E ptr \in wasm.may.alloc.returns : AllocReturns(ptr, input_len)
  \/ phase = "classify" /\ \E r \in wasm.may.classify.returns : ClassifyReturns(r)

-----------------------------------------------------------------------------

\* A classifier costs the host no more than its configuration allows, at any
\* moment: in memory, in table, in the buffer for its output and in fuel, of which
\* both of its calls together have one budget (limiter.rs, runtime.rs).
GuestIsContained ==
  /\ pages <= max_memory_pages
  /\ elements <= MAX_TABLE_ELEMENTS
  /\ buffer <= max_output_bytes
  /\ fuel <= fuel_budget

\* MemoryGrowthDenied is reported only of a module that can ask for more memory
\* than the cap: never of one that runs after another that was denied
\* (runtime.rs, the limiter is made anew for each call).
DenialsAreDeserved ==
  result.error = "MemoryGrowthDenied" =>
    \/ wasm.pages > max_memory_pages
    \/ \E f \in {"alloc", "classify"} : wasm.may[f].grows # {}

-----------------------------------------------------------------------------

\* The host runs modules on contexts of the given lengths.
HostNext(modules, lengths) ==
  \/ \E m \in modules, length \in lengths : Begin(m, length)
  \/ \E length \in lengths : GuestStep(length)

HostSpec(modules, lengths) == HostInit /\ [][HostNext(modules, lengths)]_hostVars
=============================================================================
