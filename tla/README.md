# TLA+ models of o1js-to-zkvm

The repository verifies a Mina Pickles proof inside the SP1 zkVM. This directory
holds TLA+ models of its Rust crates and scripts, the TLC runs that check them on
small instances, and TLAPS proofs of the results that do not depend on the size of
the instance. `PROJECT.json` has, for every definition, the lines it models, and
for every property a mutation of the model that breaks it.

To run a check or a proof:

    tlc -workers 2 -config MCPicklesBatch.cfg MCPicklesBatch
    tlapm VerifierBlobProofs.tla

## The system

| part | state | operations | what makes it correct |
|---|---|---|---|
| wire decoding, `wire.rs` | none | `OcamlProof::parse` and the element decoders | every accepted file means what the OCaml side wrote |
| conversion, `convert.rs` | none | `into_verifiable`: expand challenges, hash the two messages, pad with dummies | the digests are those the prover committed to, for 0, 1 and 2 previous proofs |
| verifier construction, `types.rs` | the `Verifier` | `Verifier::new` completes the deserialized key | the completed key is the prover's |
| deferred values, `deferred.rs` | none | `expand_deferred`, `wrap_public_input` | every slot is the one the wrap circuit reads |
| verdict, `lib.rs` | none | `verify`, `verify_batch`, `accumulator_check`, `batching_rng` | accepts genuine proofs and nothing else; a batch says what its members say |
| verifier blob, `serialize.rs` | bytes, a cursor, the basis cache of the SRS | `encode_verifier_blob`, `decode_verifier_blob` | the decoded verifier is the encoded one, or there is none |
| guest, `o1-verifier` | the blob in its image | `build.rs` bakes the key; `main` decodes, reads the proof, commits a `bool` | the committed value is the verdict under the baked key |
| host, `o1-verifier-host` | the files read, the request, the SP1 proof | `load_verifiable`, `run_execute`, `run_cpu`, `run_cuda`, `run_network` | success is reported for one genuine fixture only; no request is lost; a run with a deadline ends |
| scripts | `target/`, a GPU server and its socket | check the fixture, build, start the server, wait for it, start the host, clean up | the binary that is started belongs to the fixture, or the run fails; a script leaves no server behind and comes to its end |
| wrap prover, dump tools, SP1 | outside the repository | | |

The wire files of a fixture directory flow through two processes. The guest's build
script reads the verification key alone and bakes it, with the SRSes and the Lagrange
basis, into the ELF; the host reads all four files when it runs, converts them, and
hands the result to that ELF. Nothing but the verdict itself ties the two together.
What is hard here follows from that: files and `target/` that change between two reads,
a prover network that answers late or not at all, and, in the library, arithmetic
that is right for the shape of proof at hand and wrong for the next. `hazards` in
`PROJECT.json` lists these at their lines.

## The modules

    PicklesAlgebra          kimchi, poseidon, the Pasta curves: free constructors
      Pickles               wire.rs, convert.rs, types.rs, deferred.rs, lib.rs
      PicklesProver         what the OCaml prover puts on the wire (external)
        PicklesBinding      lemmas: what the verdict pins
        PicklesBatch        a caller of the library    <- MCPicklesBatch
          PicklesBatchProofs
        O1zkvm              scripts, host and guest    <- MCO1zkvm
          O1zkvmProofs
          ReportSpec        what O1zkvm implements
    WireScalars             wire.rs, byte by byte      <- MCWireScalars
      WireScalarsProofs
    BatchTranscript         lib.rs: batching_rng       <- MCBatchTranscript
      BatchTranscriptProofs
    VerifierBlob            serialize.rs, byte by byte <- MCVerifierBlob
      VerifierBlobProofs
    PastaBridge             the maps between the fields <- MCPastaBridge
      PastaBridgeProofs
    GpuServer               rust-prove.sh on one device <- MCGpuServer
      GpuServerProofs

**PicklesAlgebra** stands for the cryptography the repository calls. A hash, a group
operation or a field map returns the tuple of its name and arguments, so two results
agree exactly when the arguments do; kimchi accepts a proof exactly for the index and
public input it was made for. Soundness and completeness of the argument system are
assumed, and what is checked is that the verifier computes the right index and the
right public input. For the maps between the two fields the assumption is proved, in
`PastaBridgeProofs`.

**Pickles** has one operator for each function of the library, under its name. Errors
are values, the guest's panic is the verdict `"panic"`. The module keeps what the code
does at the edges: a character cut to a byte, the shift `1usize << domain_log2`
masked to six bits, the zip that drops commitments without challenges, the two error
paths of `into_verifiable`, and the order of the three stages of `verify_batch`. The
evaluations of the inner step proof go through it column by column: `parse_all_evals`
checks their shape, `to_proof_evaluations` hands the selectors on by position, and
`evaluation_table` is the order in which they enter the combined inner product.
`p_eval0_chunks` is filled by the code and read by nobody, and is left out.

**PicklesProver** describes a genuine proof independently of Pickles: the statement is
given slot by slot as the wrap circuit has it, the messages element by element, the
evaluations selector by selector (`OpeningTable` names them where the code counts). The
comparison of the two is the content of the `batch` run; were one derived from the
other, it would hold by construction. `IsKey`, `IsSkeleton` and `IsInstance` are the shapes
of what the dump tools write and serde reads; the proofs take them as assumptions on the
files and TLC evaluates them on every file of the runs.

**PicklesBatch** is a caller that parses and converts inputs, collects them and has
the batch verified. `Convert` and `Refuse` are the two outcomes of parsing and
converting an input, `Verify` is `verify_batch`.

**O1zkvm** is the tool. Each run goes from `script` through `build`, `start`, `load`
(four times) and `Assemble` to its mode: `execute` reports at once; `cpu` and `cuda` go
through `verify` and `report`; `network` submits, prints the locator (`locate`), waits,
and then verifies and reports. Shared between runs are the fixture directories and
`elf`, the binary in `target/release`. A run executes `image`, the binary that was
there when it started. `DumpOpens` and `DumpWrites` rewrite a directory one file at a
time, `NetworkAnswers` answers or gives up a request at any time, also after the run
has timed out. A prover may return anything: `Artifacts` has the proof of the guest's
run and things that are none. `BuildIsFresh` is a build that leaves the binary alone:
`rerun-if-changed` of the guest's `build.rs` is seen only if `sp1_build` runs cargo on
the guest again.

**ReportSpec** says what the tool promises of a run, without files, modes, builds or
provers. A run settles on a claim, a binary and four files; it may send one request and
then has to say where it is; it ends once, in success only if the guest accepts the
claim; and it ends if it does not wait for the network without limit. `Promise` at the
end of O1zkvm is the refinement mapping and `PromiseKept` the claim that O1zkvm implements
it: the fourth `LoadFile` settles, `Request` sends, `PrintLocator` locates, a report or a
panic ends; everything else, the steps of the network and of the dump tools included, is a
stuttering step.

**GpuServer** has the invocations of `rust-prove.sh` on one CUDA device. They share
nothing but the socket path; `socket` is the server whose inode the path names. Each
command between which a signal or another run can make a difference is a step: removing
the path, starting the server, `GPU_PID=$!`, the two looks of the polling loop, the second
look after it, the host, and the three parts of the EXIT trap: `kill`, `wait`, and the removal
of the path. `Interrupt` is a signal that runs the trap, `Kill9` one that does not, or that ends
it. A server binds at any time or never, fails to bind when the path exists, ends some time
after its SIGTERM (`told`), and may crash. The host connects to what the path names; with
nothing there a server started by the SDK may or may not come up in time.

**WireScalars** is the reading of one JSON value: signed limbs to bytes, bytes to a number
below the order of the field, big-endian hex, a pair of coordinates. The bytes, limbs and
the field are scaled, the relations between their widths kept. What the OCaml side writes
is defined separately (`Writes`), from a number to its text.

**BatchTranscript** hashes two batches side by side, an `update` of each at a time, so that
"one seed, one batch" is a property of a state. Blake2s is taken to be injective: the
hasher is the bytes it was given.

**VerifierBlob** has the six sections byte by byte, the decoder as a cursor and one
action per section. Between encoder and decoder a blob may be cut short, have a length
field overwritten, or carry a basis for another domain. `usize` is scaled to `MaxUsize`
so that the product of a length with 72 can exceed it.

**PastaBridge** is the arithmetic behind `fp_to_fq`, `cross_field_type1` and
`pack_branch_data`, and what the wrap circuit does to read the slots back.

Operators named `Bug_...` are plausible mistakes in the definition below them, used
only to show that a property depends on that definition.

## The runs

| run | instance | what it shows |
|---|---|---|
| `batch` | 16 and 15 rounds, 15 columns, 6 sigmas; five proofs with 0, 1 (base case and not) and 2 predecessors, two keys; whole fixtures, fixtures with one file of another, 22 kinds of damage; batches up to 2 | `AcceptsExactlyGenuine`, `BatchAgreesWithSingles`, and that the public input always has `rounds + 24` slots |
| `batch_mpv` | the same, single proofs | the arrays of previous proofs need not have one length, against `wire.rs:69` |
| `blob` | up to 2 generators, domains 1 and 2 (and one too large for the SRS); cut at every byte; any value of the third byte of any of the three lengths | `WholeBlobOrNothing`, `CastsAligned`, `LengthFieldHonoured` |
| `blob_basis` | the same, with the basis of another domain | such a basis is used, against the comment at `serialize.rs:285` |
| `bridge` | `P = 1031`, `Q = 1033`, all elements, all masks | `CircuitRecovers` |
| `o1zkvm_solo` | one run, all modes and flags, a directory being rewritten | `SuccessMeansOneFixture`, `GenuineNeverRefused`, `OrphansAreLocated`, `RunsEnd`, and `PromiseKept`, the refinement with its liveness |
| `o1zkvm_pair` | two runs, two directories, three proofs of two keys | the same two safety properties, and `PromiseKept`, while both build into `target/` |
| `gpu` | two runs in every mode, a stale socket at the path or, after another run, none, two iterations of the loop; signals, SIGKILL and crashes anywhere | `NoServerOutlivesItsScript`, `NoSocketOutlivesItsScript`, `AloneIsServed`, `ScriptEnds` |
| `gpu_external` | one CUDA run, an external server | the external server is cut off, not shared, against `rust-prove.sh:53` |
| `wire` | bytes of 1 bit, limbs of 2, field elements of 8, order 67; all arrays of up to 5 limbs, one beyond `int64` on either side; all hex strings of up to 10 digits; points with 0 to 3 coordinates | `ReadsWhatIsWritten` |
| `wire_long` | the same | what is longer than a field element is cut and accepted, against `wire.rs:41` |
| `transcript` | all pairs of batches of up to 2 items, strings that look like length prefixes among them | `SeedBindsBatch` |

`AcceptsExactlyGenuine` compares inputs through `Read`, which says what the verifier
cannot see: the high bits of the domain character, commitments cut off by the zip,
whether a leading dummy vector of wrap challenges was given or left out, and, of the key
file, all but the first chunk of each commitment. That these four are the only ones is
part of what the run checks.

`SuccessMeansOneFixture` is what an operator relies on, since the host has no check
that a fixture matches the binary: the verdict alone must refuse every mixture of
files, keys and stale binaries. `GenuineNeverRefused` is its converse.
`OrphansAreLocated` excepts a submission that was reported as failed: if the network
has nevertheless taken the request, the host was not given the id and no locator can be
printed. This is a hazard without a property.

`LengthFieldHonoured` is about all three point sections, so about the multiplication in
`read_vesta_section` and the one in `read_pallas_section`. `ReadsWhatIsWritten` leaves the
number of limbs open: `wire.rs:115` says that a challenge is two, and an array of one or four
that writes the same number is accepted too.

`AloneIsServed` says what a CUDA run can rely on when no other run is active. It speaks of
both ways of ending without a server, a refused connection and the two exits of
`ensure_gpu_server`, and allows them for four reasons, none of which is a stale socket:

- a server died by itself;
- a run was killed in its trap, after `kill`, and its server, which had the path again, ended
  under the new run;
- nothing bound in the whole of the loop (`rust-prove.sh:69-72`): a slow server;
- a server that an earlier run left while it was still starting won the path, so that the new
  run's own server failed to bind and the run saw that before it saw the socket
  (`rust-prove.sh:62-66`). The left server serves, and had the poll come later, the run would
  have used it; the script cannot tell the two apart in advance.

TLC finds a lone run that ends for each of these if its reason is taken out of the property.
With two runs at a time it cannot be said: the second one removes the
first one's socket, the first one's trap removes the second one's, and since the poll takes
any socket at the path for the right one (`rust-prove.sh:62`), a host may be connected to
the other script's server when that is killed.

Bounds. `batch` has the repository's widths. The O1zkvm runs have two rounds, columns and
sigmas: these only index vectors, `batch` has checked the vectors, and two suffice to
notice an order or a length. A batch of two has every pair of outcomes in both
orders, and the verdict of a batch is a function of which outcomes occur in it. Two
runs suffice for a race over `target/`, the only thing runs share besides directories,
and three bundles give equal and different keys. `MaxUsize = 2^24 - 1` lets a
one-byte change of a length overflow. In `wire`, as in the code, a challenge is two limbs,
four limbs fill a field element, and the order is a little more than a quarter of what it
holds (the Pasta orders are a little more than 2^254), so that the topmost bit is unused and there
are numbers of full width on both sides of the order; texts go one limb and two digits
beyond. Two scripts suffice for one socket: a third can only do to the path what the second
does. Two iterations of the loop (50 in the code) have a first, a last and one that is both
followed and preceded by another.

Deadlock is checked in the two O1zkvm runs (`Idle` is the only step left when all runs
have ended). A caller of the library, a blob and a slot have nothing more to do after
the last step, and scripts may simply all have ended, so the other runs do not check it.

Fairness. `Fairness` is weak fairness of `Step(r)` for every run: the script and the
host are sequential programs the operating system schedules, build, emulator and local
prover return, and wall-clock time reaches the deadline of `wait_proof`. Nothing is
assumed of the network, the dump tools or other runs' progress. `RunsEnd` therefore
excepts a network run without `--timeout-secs`, which may wait for ever. In GpuServer it
is weak fairness of `Script(r)`, by the same reasoning: a script that has begun takes its
steps, and `make` and the host return. Of the servers one thing is assumed, weak fairness of
`Terminate`: a server that has been sent a SIGTERM ends. The code counts on it too, since the
trap waits without a limit (`rust-prove.sh:41`); a server that ignored the signal would keep
the script. No fairness is given to `Start`, to signals or to `Bind`, so `ScriptEnds` holds
with a server that never binds and does not die by itself.

## The proofs

All proofs are for every value of the constants that satisfies the named assumptions.
Every invariant that a run checks is also proved.

**PicklesBinding** has the lemmas that say what an accepting verdict pins, on which the
theorems about the library and the tool both rest (`RoundsAssumption`: there is at least
one round, column and sigma). `PassesExactlyMatches`: a converted proof that carries the
wrap proof of an instance passes exactly when the verifier's key is the instance's and the
four files match the instance in all that the verifier reads (`Matches`). The public input
is compared slot by slot with the statement of the wrap circuit:

- the slots of the challenges, the sponge digest and the branch data are the skeleton's own
  values under injective maps (`BranchPins`, and `PastaBridgeProofs` for the maps);
- the slot `xi` pins the transcript of the step proof and with it the evaluations, column by
  column, the step domain and the previous challenges (`TranscriptPins`);
- the two message digests pin their preimages. The step message is a concatenation of
  blocks; given the lengths, each block is pinned, which is where the width
  `rounds + 2` of a previous proof's block and the place of the statement matter. The wrap
  message has two slots, and a missing vector of challenges is the dummy in it.

The converse, that a genuine fixture passes, is the same equivalence read backwards; there
the accumulator check and the existence of the step domain have to be shown too.

**PicklesBatchProofs** (`FilesAssumption`: skeletons and keys have the shape serde has
given them, and each wrap proof is that of some instance, since kimchi is sound). `IInv`
adds to the types that only converted inputs are in the batch and that the verdict is that
of the batch as it stands. `BatchTypes`, `BatchingIsSound` and `AcceptanceIsExact` follow,
for batches of any length.

**VerifierBlobProofs** (`BlobAssumption`: generators, key and basis are bytes;
`BaseAssumption`: the blob is 8-byte aligned, as `struct Aligned` in the guest makes
it; `SizeAssumption`: the slices the encoder is given are in memory, so that their size in
bytes is a `usize`, and shorter than 2^32 points). `TypeOK` is not inductive, as the
sections read so far say nothing about the cursor. `IInv` adds `Cursor`: while a section is
about to be read, `off` is a multiple of 8. That follows for the next section because 8 and
72 are multiples of 8 and a length is multiplied by 72; only the last section has bytes of
any number. `CursorInBlob` and `CastsAlwaysAligned` are its consequences, for every blob
whatever its bytes. `LengthAlwaysHonoured` needs `Places` besides: the cursor stands where
the numbers of points read so far put it, so the field that a reader takes for the length is
the one that the property looks at afterwards.

`WholeAlwaysOrNothing` needs more: `FollowsWhole` says that as long as the blob is a prefix
of the encoded one, the cursor stands where the encoder began the section and the sections
read so far are the input's, and that a decoder that has panicked did not have the whole
blob. `EncodedLayout` finds each section in the concatenation; `PointsFollow` and its
siblings say that a reader returns what is there or the blob ends before it. At the end the
cursor is at the length of the whole blob, so that a blob cut short cannot get there.

**PastaBridgeProofs** (`PastaAssumption`: `P` odd, `1024 <= P <= Q`). `IInv` adds
`Written`, which says what a slot holds after it was written. `BridgeRecovers` rests on
lemmas about `%`: `2 * half = 1` modulo `P`, and no reduction modulo `Q` happens to a
number below `P`. `BridgeInjective` and `BranchInjective` are what module Pickles
assumes of its constructors.

**O1zkvmProofs** (`RunsAssumption`: the shape of the arguments; `BundlesAssumption`: the
bundles are genuine, and two programs' keys differ in the first chunk of a commitment,
which is all of a key file that the digest reads). The invariants, each inductive together
with the types:

- `IInv` adds `Built`, that a run about to start finds a binary, without which
  `TypeOK` (no run executes a binary that was never built) is not inductive;
- `Located` follows a request from submission to the end of its run and gives
  `OrphansAlwaysLocated`;
- `Trusted` says that an SP1 proof in a run's hands or on its way has exactly the verdict of
  the run's own image on its own files if it is genuine, and that only a verified proof
  reaches the report. It gives `SuccessAlwaysTheGuests`: success is printed only if the
  guest in the run's binary accepts the run's files;
- `Reading` says how many files a run has read at each step;
- `Refused` gives for each reason of failure what the run's binary says of its files.

`SuccessAlwaysOneFixture` is `SuccessAlwaysTheGuests` together with the lemma
`ConsistentIsAccepted`, which comes from PicklesBinding: the guest of a bundle accepts four
files exactly when they read like that bundle's own fixture. `GenuineAlwaysAccepted` is the
converse, from `Refused`.

At the end of the module, `KeepsThePromise` is `Spec => Promise!Safety`, the refinement of
ReportSpec without its fairness, from `IInv`, `Located`, `Trusted` and `Reading`. Each action
is shown to be the step of ReportSpec named above, or to leave its variables as they are.

**GpuServerProofs** (`GpuAssumption`: names do not clash, `Tries` is a number). `IInv` adds
to the types that a run between its two looks has an iteration left (`Bounded`) and, for each run,
`Kept`: its server exists only from `Spawn` on; its pid is known from `RecordPid` on, unless
a signal came just there; only the trap of a run that knows the pid tells the server to end;
after `CleanupWait` the server is gone, and since `Bind` needs a starting server, the path
cannot come to name it again. The last point is why the trap has to wait for the server
before it removes the path. `NoServerEverOutlives` and `NoSocketEverOutlives` follow, for any
number of runs.

`AloneAlwaysServed` needs `Alone`. A run that has been alone is the only active one
(`Solitude`), so once it has emptied the path nobody else does, and only a server that binds can
be there. `Wait` says what follows for a run that waits: the path is empty or names a server
that serves, and if the run's own server is gone then another has the path, which can only be
a left one; the loop is left with a socket in place or after its last iteration. `Excused`
carries the reasons beyond the run's end, where `ExcusesStay` keeps them: a left server that
serves ends by a crash, or by a SIGTERM if its run was killed in its trap.

**BatchTranscriptProofs** (`TranscriptAssumption`: items are byte strings of fewer than
2^31 bytes, which is also what TLC's integers can count). The invariant `Shape` follows
the two hashers: either they agree so far and so do the batches up to where they are, or
one batch has ended and the other hasher is longer, or they differ at a position that
neither will touch again. `SeedAlwaysBinds` rests on lemmas that `u64_le` is injective and
that two concatenations with different beginnings of one length differ.

**WireScalarsProofs** (`WireAssumption`: the base is even, so that half of the values of a
limb have the sign bit; there is at least one byte in a limb and in a field element; `P` is
at least 2 and fits in a field element. `TextsAssumption`: the parts of a JSON value are of
the kind that its reader looks for). `IInv` says that the bytes collected are those of the
limbs that are done, each at its place (`Progress`), and that a reader which has returned
made its result of all of them (`Returns`). `CanonicalFieldElements` and
`AlwaysReadsWhatIsWritten` follow, for every width, so for the code's limbs of 8 bytes and
both Pasta fields too, and for texts of any length. The argument:

- `Power` and `number` are recursive functions. The library's induction rule takes an
  operator and cannot be used; `SetInduction` says the same of a set, and follows from the
  pigeonhole principle: if `n` were missing, adding 1 would map the members up to `n` one to
  one into those that are not 0. With it `Iteration` constructs the functions that the
  recursive definitions choose, so that `PowerIs` and `NumberIs` are their equations;
- a number has one sequence of digits of a given length and the digits one number
  (`NumberOfDigits`, `DigitsOfNumber`, `DigitsPin`), and the digits of a limb are digits of
  the number at the limb's place (`LimbDigits`);
- of two's complement, that a signed limb is determined by the bytes `as u64` makes of it
  and the other way round (`SignedIs`, `SignedOf`);
- what is padded does not change (`LeadingZeros`) and what is not cut can be read off the
  result (`FieldReads`, `FieldIs`). The second is where `Short` is needed; `wire_long` shows
  that it is.

Only model-checked: `RunsEnd`, `ScriptEnds` and the liveness in `PromiseKept`, which are
beyond the prover.

## Disagreements met

- `wire.rs:69`: "The prev-proof arrays are length `mpv` (0/1/2)." Nothing checks it.
  Surplus commitments are dropped by the zip, missing wrap challenges are padded.
  No verdict is wrong because of it (`AcceptsExactlyGenuine`).
- `serialize.rs:285`: a mismatch of the encoded basis "surfaces as a cache miss +
  on-the-fly fallback rather than wrong output". The cache key comes from the
  verification key, so the wrong basis is found under it and used. The encoder never
  writes such a blob (`WholeBlobOrNothing`).
- `rust-prove.sh:53`: "If you need to share an externally managed server, run prove-cuda
  from a shell that already has it set up." The script removes the socket and starts its
  own server in every case.
- `wire.rs:41`: "Little-endian bytes (zero-padded to the field byte size)". Longer texts are
  cut without an error; a challenge of five limbs reads like its first four. No text the
  OCaml side writes is that long (`ReadsWhatIsWritten`).

## Not modelled, and the plan

Done in this order: the library (PicklesAlgebra, Pickles, PicklesProver, PicklesBatch),
the blob, the field maps, the tool and the first proofs; then the evaluations, WireScalars,
GpuServer, BatchTranscript and ReportSpec; then the proofs about the verdict (PicklesBinding,
PicklesBatchProofs), what it means for the tool, the refinement, the remaining invariants
of the blob and of the GPU server, and last the readers of WireScalars. Of the plan nothing
is left but what is out of the prover's reach.

Left out for good: the circuit-level soundness of kimchi and SP1 (assumed, above), the
Makefile, `install.sh`, CI and `Cargo` files (build plumbing), the profile script (the
e2e script with tracing on), logging, cycle counts, and the network parameters that are
passed through (limits, price, proof mode, strategy). In the scripts: a second signal while
the EXIT trap runs, and a host that outlives its script after a signal to the script alone.
