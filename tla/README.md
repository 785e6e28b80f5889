# SPECTRUM: TLA+ models, checks and proofs

SPECTRUM derives a 1072-bit key from a photograph. This directory holds TLA+
models of the parts of that program in which order, concurrency, failure or a
boundary decides whether it works, the TLC runs that check them, and proofs that
their safety properties hold for every value of their constants. Source paths below
are relative to the crate (`src/` of the repository root unless another directory
is named).

## The system

| part | source | state it keeps | operations | interacts with |
|---|---|---|---|---|
| image intake | `image/loader.rs`, `image/preprocessor.rs` | none; one buffer per call | sniff, gates, decode, resize, hash | reads the image file that anyone may rewrite |
| entropy engine | `entropy_engine/mod.rs` | none between calls; eleven closures in flight during one | `analyze_image` | rayon pool; the eleven sources |
| sources | `entropy_engine/sources/**` | buffers of one call | one extractor each | called by the engine; two use row parallelism of their own |
| strategy and mixing | `strategy.rs`, `mixer.rs`, `key_derivation/conversion.rs` | none | rank sources, cut spans, normalise to bytes | profile in, witness bytes out |
| key derivation | `key_derivation/mod.rs`, `xof.rs` | configuration | `derive_key`, `key_bytes` | intake, engine, mixing, SHAKE256 |
| messages | `message/*.rs`, `crypto/symmetric.rs`, `crypto/ntru_prime.rs` | none; message file | encrypt, decrypt | key derivation, clock, message file, key pair |
| key records | `data.rs`, `cli.rs` | `.frk` file | export, verify | key derivation, file system |
| batch | `data.rs`, `cli.rs` | manifest file | batch | key derivation, directory listing |
| configuration | `config.rs` | JSON document | load, validate | every command (`-C`) |
| self-test | `selftest.rs` | a picture in the temp directory | eight checks | library, temp directory |
| command line | `bin/spectrum.rs`, `cli.rs`, `report.rs` | the files of one folder, the exit code | ten commands with their options and `-C` | all of the above; shell scripts read its exit code |

Nothing is locked and no process knows of another: every hard behaviour of the
command line comes from the file system (files truncated in place, written by
several `write` calls, read while being written, replaced between two steps,
left by a killed process), and every hard behaviour of the library from the
rayon pool. What has to hold:

- **engine**: whatever the schedule, the answer is the one a sequential program
  could give; a failing source is never swallowed; every call returns.
- **key records**: a torn or mixed file is never taken for a record; key bytes
  are never readable by others; the verdict is about the bytes that were read.
- **messages**: a decrypt hands out the plaintext exactly when the message is
  intact and build, key pair, image and (effective) configuration entitle it;
  damage is noticed by the MAC before AES sees the ciphertext.
- **intake**: a key is made exactly of an acceptable picture, and of one version
  of the file, with memory bounded, whoever keeps rewriting it.
- **sources and mixing**: the loops take the pixels, scales and moments they
  should, inside their arrays, and every value reaches the witness once.
- **configuration**: only a supported one runs; a saved one loads as the very same,
  or is refused because it has a number that JSON does not have.
- **self-test**: it passes for a sound engine that can save its picture and for no
  unsound one, and leaves a key image only where it could not save or remove it.
- **command line**: exit code 0 means that what was asked for is there, whole,
  and of the inputs of this very command; 1 and 2 that no file was replaced by
  another whole one (but the secret key of a `pq-keygen` that then failed). A killed
  or panicking command (137, 101) leaves its files as they were, cut off, or just as
  0 would have left them, since it prints after it has written.

`PROJECT.json` lists every part with its status, and under `hazards` the places
where this code can go wrong in ways a test hardly reaches.

## Modules

| module | models | composed of |
|---|---|---|
| `EntropyData` | the data of one `analyze_image` call | |
| `AnalysisContract` | abstract: one permitted answer per call | `EntropyData` |
| `EntropyEngine` | the parallel map, rayon's error cell and stop flag, the fold | `EntropyData`; refines `AnalysisContract` |
| `FileBytes` | what the program relies on of `std::fs` | |
| `KeyDerivation` | `derive_key` as a function of file bytes and configuration | |
| `KeyRecordFile` | `spectrum export` and `spectrum verify` on one `.frk` path | `FileBytes`, `KeyDerivation` |
| `KeyRecordFileProofs` | theorems about `KeyRecordFile` | `KeyRecordFile` |
| `SpectrumMessage` | container layout and cryptography as data; the checks of `decrypt_message_with_pq` | `FileBytes`, `KeyDerivation` |
| `SealedExchange` | abstract: letters opened only under the factors that sealed them | |
| `MessageExchange` | `spectrum encrypt` and `spectrum decrypt` on one message path | `SpectrumMessage`; refines `SealedExchange` |
| `MessageExchangeProofs` | theorems about `MessageExchange` | `MessageExchange` |
| `Selftest` | `spectrum selftest`: seven checks in memory, one on the file system, the gate over them | `FileBytes` |
| `SelftestProofs` | theorems about `Selftest` | `Selftest` |
| `LatticeData` | the torus and the update rule of the coupled map lattice | |
| `LatticeEvolution` | abstract: synchronous sweeps of the whole torus | `LatticeData` |
| `CoupledMapLattice` | `extract_coupled_map_lattice` with its parallel rows | `LatticeData`; refines `LatticeEvolution` |
| `ParallelProofs` | theorems about the two parallel parts | `EntropyEngine`, `CoupledMapLattice` |
| `JpegQuality` | the JPEG quality scan over a file and over its sniff window | |
| `ImageIntake` | the capped read, the gates and the decode of `preprocess`, the refusals of `derive_key` | `FileBytes` |
| `ImageIntakeProofs` | theorems about the intake and the quality scan | `ImageIntake`, `JpegQuality` |
| `BatchRun` | `spectrum batch`, its manifest and the loading of it | `FileBytes`, `KeyDerivation` |
| `BatchRunProofs` | theorems about `BatchRun` | `BatchRun` |
| `ConfigLoading` | how a configuration reaches an instance, from JSON or from a program | |
| `SpectrumCommand` | the program as a shell sees it: command after command, its files and exit codes | `ConfigLoading`, `SpectrumMessage` |
| `SpectrumCommandProofs` | theorems about `SpectrumCommand` and, through it, `ConfigLoading` | `SpectrumCommand` |
| `SourceConfig` | what `analyze_image` hands to its sources: the working size, adaptive tables bounded by knobs | |
| `BoxSampling` | the box walk and box count of the lacunarity source | `SourceConfig` |
| `PixelBlocks` | the tilings of the multifractal, noise, lattice and fractal sources; the operators of the quantum density source and their real embedding | `SourceConfig` |
| `FilterWindows` | the kernels of the gradient, texture, noise and fractal sources, the gliding windows of the fractal detector | `PixelBlocks` |
| `SeriesLoops` | the picture as one row: both Hurst estimates, the orbit of the chaos source | `PixelBlocks` |
| `WaveletScales` | the ladder of scales of the wavelet source, the dyadic probes of the fractal source | `SourceConfig` |
| `StationaryWavelet` | `swt2_decompose`: the undecimated transform under that ladder | `WaveletScales` |
| `MomentSpectra` | the singularity spectra of the wavelet and the fractal source | `PixelBlocks`, `WaveletScales` |
| `WitnessMixing` | strategy, normalization and mixing | `SourceConfig` |
| `WitnessPipeline` | one derivation from working picture to witness | the eight above |
| `WitnessPipelineProofs` | theorems about `WitnessPipeline` and its parts | `WitnessPipeline` |

`MC*` modules only give constants their values. Operators whose comment begins
with "Faulty variant" are not part of any specification: each is a plausible
bug in the definition that follows it, and putting it in that definition's
place makes one property fail.

### EntropyEngine
`task[i]` follows source closure `i`: consumed by a worker, finished with an
outcome (features, or the neutral outcome of a disabled source), or failed. A
failed closure takes the error cell with `try_lock`; a loser drops its error; both
then raise the stop flag, after which pending closures are skipped. This is how
rayon's `collect::<Result<Vec<_>, _>>` works and `Join` is the `?` behind it.
Any pending closure may start at any time, which covers every pool size.
`Fold` is the chain of `into_wtmm` ... calls with its tag checks. The data are
the sets of enabled and failing sources and of lacunarity scales.

### KeyRecordFile
A file is a sequence of field tokens. `Create` is `File::create`,
`SetPermissions` and `Write` the rest of `write_secret_file`; a `Write` step
writes any number of tokens at the handle's own offset, so a file truncated by
somebody else is padded with a hole, as POSIX does. `Read` is one `read` call of
`read_to_end`. `Interrupt` is a kill or a failing system call. The key image may
be replaced at any step. Hash functions are ideal: a checksum is the term of
what it covers.

### MessageExchange
As above for message files, with a clock (`Tick`), bit flips in the stored
message (`Damage`), both builds, both modes. `Checks` lists the conditions of
`decrypt_message_with_pq` in the order of the code; the first that fails is the
error. A hole in a message reads as zero bytes and is parsed accordingly. The
replay guard of `decryption.rs` only logs and is left out. Messages of one run
have fields of equal lengths.

### Selftest
`Battery` is the seven checks in memory: an engine gives two answers to each of
them (this or that, a bad value, an error) and `Passes` says what the check makes
of them. `Create` to `Remove` are the eighth, on the file system, which may overlap
with that of other runs. Files are inodes, so that a run goes on writing a file
whose name another run has removed. `SaveFails` is an error of `rgb.save`: it leaves
the function before the removal, so that the run ends by itself ("unsaved", exit code 1)
and what was written stays; only what the encoder's buffer holds at its end may be lost
without an error, as it is flushed when it is dropped. `Remove` may be refused, which the
code ignores. `Interrupt` is a kill and nothing else. `overlapped` and `refused` are
history variables.

### CoupledMapLattice
`UpdateSite(i)` is one turn of the inner loop of row `i`; rows interleave
freely, as rayon may run them. The arithmetic of a site is any function of the
five states it is computed from. The abstraction sees a running sweep as not
having happened yet; `EndSweep` is its step.

### JpegQuality
The only module over real bytes, because its properties are about positions:
`SkipByte`, `SkipStandalone`, `GiveUp`, `ReadEightBit`, ... are the branches of
one iteration of `estimate_jpeg_quality`. A file comes with the segments it was put
together from, their kinds and where each starts: `IsOfKind` says which bytes make a
table, a table too short for its first entry, a broken segment or any other, `Assembled`
how they stand in the file, `ScanAssumption` that a file that is not cut off is
assembled and that an encoder's first table is that of its setting. What the properties
expect of a file is said of its segments, and the scan sees bytes only; payloads contain
whatever looks like a marker. The division of `quality_from_dc` is exact integer
arithmetic. Names begin with `Scan` where `ImageIntake` has them too, as one module
proves about both.

### ImageIntake
`Read` is one `read` call under the limit of `take`, `Pass` one gate; `Gates` lists
conditions and errors in the order of the code. The file is a sequence of cells
of which the first carries the header; another process truncates and regrows it
(`Overwrite`, `Grow`) at any step, so that a read may collect cells of several
pictures. A format is a family with, for JPEG, the quality its tables show;
sniffed and claimed format are compared by family, and so is the allow-list, whose
quality nothing reads. A mixture of pictures decodes, as it would in a format without checksums: no
property may rest on the decoder noticing. The resize computes with rationals
where the code uses doubles.

### BatchRun
`ListEntry` returns names of the folder in any order and tests each as it comes,
`Derive` reads whatever is at the path by then; the manifest is written as in
`KeyRecordFile`. A JSON document is a bracketed sequence of entries and parses
when the last bracket is there. `paths.sort()` is a permutation of the paths after which
they ascend (`EndListing`).

### ConfigLoading
A document is its set of key paths with a version and a nonce length. `Visit` is
one object of `reject_unknown_fields` (its order does not matter and is left
open), `Convert` is serde, the version check and `validate`. One struct with a
field list (`chaos_config`) and one without (`quantum_density_config`) stand for
their kind, and `knob` for every setting that is an `f64`. `WithConfig` is the way of a
configuration built in memory, `Save` hands a running one to another process through
`ToJson`: `serde_json` writes NaN and the infinities as `null`, which is no `f64` when it is
read again (`Converts`). A finite number comes back as it was, since `Cargo.toml` asks for
`float_roundtrip`.

### SpectrumCommand
One user runs command after command in one folder. `Preflight` looks for the files
the options name, `ReadConfig` to `ConfigLoaded` take the `-C` document through
`ConfigLoading`, one action per command (`Derive`, `Encrypt`, `PqKeygen`, ...) decides
between an error and a list of files to write, and `Truncate` and `Fill` write them
one after the other; `PrintOutcome` tells what was done, and only then the process ends (`End`).
`WriteFails` may come at every step of the writing and `Kill` at every step of the
command, also between the last write and the end; `PrintFails` is a `println!` on a stdout
that takes nothing, a panic with code 101, as is an error that cannot be told on stderr
(`End`). Between commands the user
replaces the key image. Three abstractions matter: a file is absent, cut (truncated,
or a prefix, which every loader here refuses) or whole; there is one file of each
kind, and the options of a command name distinct paths; a command is not
interleaved with another one, which is what `KeyRecordFile`, `MessageExchange` and
`BatchRun` are about. `Library` is the other user of the crate, a program that loads and
saves configurations.

### WitnessPipeline and its parts
These modules hold the loops of ten image sources between the working picture and
the witness, with the numbers of the code: sizes, scales, strides, caps. What a loop
computes from pixels is left out, or is any of a few outcomes where a later step
depends on it (`flat` levels, `MaximaCount`, the points of a fit). `BoxSampling` takes one
box per step (`Glide`, `Count`) and ends a scale with `EndScale`; `PixelBlocks` cuts one
tiling (`CutTiles`) or picks the pixels of one operator (`BuildOperator`) per step;
`Slide` places one filter along both axes; `Rescale`, `Aggregate` and `Iterate` are one
turn of the Hurst and chaos loops; `DecomposeLevel` is one level of the wavelet
transform, `AnalyzeStep` one step of the ladder of `extract_wtmm`, `Partition` its
spectrum; `ProbeScale` is one scale of `AdaptiveWTMM::analyze`, `MeasureMoment` one moment
of the fractal source and `Legendre` its spectrum; `NormalizeRow`, `CarveSpan` and the
others are one turn of the loops of `normalize` and `create_byte_sequence`. Six
abstractions matter:

- Wavelet scales are powers of two, written as exponents. The code computes
  `min * (max / min) ^ (step / (n - 1))` and a logarithm in doubles; where the exact
  result is a power of two inside the ladder, either side of it is allowed.
- The transform is linear, so a picture with one lit pixel stands for all, and its
  planes are whole numbers, 16 ^ level times too large: its taps are dyadic, and
  doubles add them without rounding. Planes are followed for pictures of at most
  `MaxTracked` pixels; for larger ones the number of levels is all that is kept.
- A moment is a value with a sign, as the code tells 0.0 from -0.0 in one place and
  not in another. Overflow of a partition sum is a point less for the fit. That
  `alpha` may overflow too, and its point be dropped, is left out.
- Filters and windows treat both axes alike and are intervals along one of them.
- Sizes, boundaries of spans and shares of entropy are exact fractions where the
  code rounds doubles. Entropies are finite, as every source clamps its own.
- The sources run one after the other. They share nothing but the picture, and
  `EntropyEngine` has every order of them.

`OwnStrategies` are strategies that a client of the library's public
`create_byte_sequence` may build: with fewer weights than sources, or with weights that
add up to at least the total, as `Strategy` documents ("summing to 1"); with others the
last boundary would not be the end of the values (`MixingAssumption`). The stable sort of
`Strategy::determine` is a rank per source (`Before`, `Rank`), the round-robin of `normalize`
a turn per row. What must reach the witness (`WitnessIsWhole`) is counted from the sources
themselves, and not from the number of rounds the loop takes.

## Runs

| run | question | bounds |
|---|---|---|
| `engine` | does every schedule answer what the contract permits, and answer at all? | three sources, two scales; every set of enabled and failing sources and both scale sets. Two failing closures race while a third is pending, running, done or skipped: the protocol involves at most a winner, a loser and a bystander |
| `key_record` | are torn records refused, keys private, verdicts exact, concurrent exports idempotent? | two exports, one verify, two usable images and a refused one, two configurations, one replacement of the image |
| `exchange` | does exactly an intact message open under exactly the sealing factors? Does the MAC speak first? Does the exchange implement `SealedExchange`? | two kinds of scenario: two classic encryptions into one file, maybe with something in it already, read while they write and while the clock ticks once; and one sender and one receiver with every build, configuration and key pair, three images, one replacement, one bit flip. The two key pairs are interchangeable, so the sender uses one of them |
| `selftest` | does a sound engine pass in every run that is alone and can save its picture, and no broken one in any run? Do runs that end by themselves leave nothing but what they could not save or remove? | three runs over two directories, with and without the file-system check, with leftovers, kills, failing saves and refused removals; a sound engine and eight that break one promise each, a check with an error among them. Runs are interchangeable, and so are the directories |
| `lattice` | do parallel rows amount to synchronous sweeps, from which two moments are signed? Does a flat image stay flat? | three rows of two columns (north and south differ, west and east coincide), three states, two of which are the same byte, every image, zero to four configured sweeps of at most three, so that both refusals occur and the middle is once the first sweep |
| `jpeg_quality` | does the scan find the first table and nothing else, also on a window? Does the gate at 90 decide as the encoder's setting would? Does it end? | every complete file of up to three segments out of eleven, one with an embedded thumbnail whose table is not the picture's; every file of up to two, cut at any byte; one file per IJG quality 1 to 100; a window of 12 bytes |
| `jpeg_bounds` | does the scan stay inside its buffer? Found violated, see below | the same module with `NeverReadsPastTheEnd`; one kind of segment is a table too short for an entry |
| `intake` | does exactly an acceptable picture give a key, of one version of the file whoever writes meanwhile? Is memory bounded, every canonical size in its box, every read at an end? | twelve pictures that differ from a good one in one respect, so that each gate has one that fails it and the limits have one that just passes; seven configurations, among them a zero-sized box, `min_size` above `max_size` and an allow-list that names a JPEG quality; four extensions; unlimited rewriting with three pictures, one above the cap of three cells |
| `batch` | has every requested picture the entry its bytes deserve? Is a manifest that loads whole? | two batches over two names, or one over a list with a repetition and a name that is no image; one change, one output path, kills, a reader |
| `config` | does only a supported configuration run, and can what runs be shared? Does an exit code tell what is in the files, wherever the command was killed, refused a write or unable to print, and whatever was before? | a program with every document with at most one field (and what is below it) missing and at most one unknown field, two versions, two nonce lengths, a number or a null, and with every configuration it can put together, with a number JSON does not have among them. Three sessions: four commands that make keys, seal and open, with texts below, at and above the input cap; three that make and compare records, with every kind of picture; three under `-C` documents, one of them wrong in each way that a load can notice. One replaced picture; two key pairs, interchangeable. The longest way to a wrong outcome, two generations of keys with a message sealed in between, is three commands before the one that goes wrong |
| `config_unknown` | is an unknown field rejected at every level? Found violated, see below | the documents of the program in `config` |
| `witness` | do boxes, tiles, operators, kernels, windows and orbits take the pixels they should, do scales, maxima and moments pair up, do the wavelet levels add up to the picture, does every value reach the witness once? | the tables and limits of the code, and 512 calls: pictures from none over the smallest each source takes to canonical ones that are scaled down, pixel counts that a stride divides, every bucket and density, knobs that cut the ladders short, start them late, leave two steps or are refused; a spot on every pixel of four small pictures, with gaps from one to wider than the picture; rows of pixels around the lengths the Hurst loops ask for; moments in and out of order, with two zeros, twice or too few; profiles that give each strategy name and one without entropy |

Two writers are enough for every pattern of truncation, overlap and padding
between two handles; a third writer adds no new kind of content, since a file
token comes from one write. One reader suffices because readers change nothing.

**Fairness.** Three specifications state weak fairness: of every step of a call
and every closure in `EntropyEngine` (a rayon pool runs every closure it took),
of the iterations of the quality scan, and of the steps of the intake. It is
never stated of the environment, no step is strongly fair, and none needs
another's cooperation: a call that is not killed runs on. The other
specifications are about safety only; their commands are straight lines of
system calls.

### Where code and documentation differ
- `jpeg_bounds`: a table segment of length three that ends the file passes both
  length checks, and the read of the first table entry is one byte past the end
  (`FF D8 FF DB 00 03 00`), while `tests/property_tests.rs` says the estimator
  "never panics on arbitrary buffers of any length".
- `config_unknown`: the configurations of quantum density, lattice and
  fractal-aware source have no field list, and their unknown keys are dropped,
  while `docs/API.md` and `config.rs` have them rejected "at any nesting level".

Seen while modelling, and not the subject of a run:

- `write_secret_file` truncates first, so an interrupted re-export loses the
  earlier record, while `cli.rs` calls the output "safe to overwrite".
- A wrong configuration is stopped by the MAC (`VerificationFailed`), not by the
  image-binding check as the README, the CLI reference and a test comment say.
- The self-test's file name is "derived from a hash so concurrent runs never
  collide", but the hash is of a constant.
- A manifest is plain JSON, while `docs/SECURITY.md` calls manifests
  checksummed.
- `with_config` does not look at the version, while its comment says that the
  document is validated exactly as a loaded one. Nor does it see a NaN or an infinity
  (`validate` looks at `nonce_len` only): an instance built by a program may run with one
  (some sources refuse it when a key is derived, the lists of the multifractal and texture
  sources are not looked at), is saved with a `null`, and nobody can load that document.
- A self-test that cannot save its picture exits with 1 and leaves what it has written of
  this key image in the temp directory; one that cannot remove it leaves it there and may
  exit with 0.
- A plaintext just below the input cap is sealed into a message above it, which `encrypt`
  writes and reports with 0, and no `decrypt` reads.
- The walk of the lacunarity source says "Sample overlapping boxes" (`lacunarity.rs`);
  its stride is the side of the box, and they do not overlap (`BoxesStayApart`).
- Real and imaginary taps of different quantum operators may be the same pixel,
  and if the number of pixels is a multiple of 131 (a picture of 512 by 419 is
  worked on as 160 by 131) even real taps repeat, while the comment of
  `build_hermitian` has "consecutive blocks consume disjoint regions".
- The gliding walk stops after 256 boxes and so samples only the top of a large
  picture at small scales; with the default `max_scale` of 8 the fractal source's
  early stop never shortens its ladder of four.
- `NoiseType::SaltAndPepper` is never chosen: its test wants a third central moment
  above 0.5, and shades from 0 to 1 have at most about 0.1.
- The configuration check of `convergence_threshold` accepts 0, its message says
  (0, 1]; that of the lattice's growth rate accepts 0.0, documented as (0, 4].
- `detection_max_scale` 2 or 3 leaves one box size, hence the neutral dimension.
- `variance_time_hurst` is documented neutral for fewer than 8 samples; rows of 8 to
  15 give one width and are neutral too.
- `q_values` 0.0 and -0.0 pass the check for distinct moments and are one moment
  afterwards, so that three of them may leave an empty spectrum.
- A picture may be self-similar (dimension from 1.15) and `Regular` (below 1.2).
- The pool of the fractal source joins series of several lengths without a prefix.
- `pq-keygen` given one path for both keys leaves the public key there, and exits
  with 0; `encrypt --output` may name the key image.
- `spectrum -C x config` loads `x` and writes the defaults; `batch` exits with 0 even
  if every picture failed; `analyze` reports on a flat picture `derive` refuses.

## Proofs

Every theorem holds for all values of the constants that satisfy the named
assumption of its module, which TLC evaluates in the runs. Each component has one
inductive invariant, a conjunction of named parts; TLC checked it on the instances of
the runs before it was proved.

`ParallelProofs` proves of the engine, for every number of sources and every set of
scales (assuming only `NumSourcesAssumption`):

- `TypeCorrect`: `TypeOK`;
- `NoFailureIsLost`: `FailureIsNeverLost`;
- `FoldIsOrdered`: `FoldNeverMismatches`, which no run checks: it is proved instead;
- `EngineImplementsContract`: every behaviour is one of `AnalysisContract`.

The inductive invariant is `EngineInv`: types, what each task state says about
its source (`TaskTells`: a finished closure holds its own outcome, a failed one
is a culprit, a storing one holds the cell), what the cell says (`CellTells`: its
holder is about to write it, a saved error is a culprit's), what the phase says
(`PhaseTells`: folding means every closure is done) and `FailureIsNeverLost`.
None of them is inductive alone: that a loser's error is covered needs the cell's
holder to be storing, that the fold sees every outcome needs that a skipped or
stopped closure implies a saved error. The refinement maps every step to
a stutter except the three that return.

The same module proves of the lattice, for every size of the torus, every update rule
and every number of sweeps (assuming only `LatticeAssumption`):

- `LatticeTypeCorrect`: `LatticeTypeOK`;
- `LatticeImplementsEvolution`: every behaviour is one of `LatticeEvolution`;
- `FlatImagesNeverWakeUp`: `FlatStaysFlat`;
- `SignatureIsOfTheEvolution`: `SignsMiddleAndEnd`.

The inductive invariant is `LatticeInv`: types, `LoopTells` (where the loop counter
may stand in each phase), `RowsTell` (during a sweep the sites a row has passed
hold their update from the snapshot, the others still the snapshot: this is what
the refinement needs when the last row ends) and `BuffersTell` (the byte buffer of
the previous sweep is that of the current lattice, and the half-way clone is there
from its sweep on). Flatness needs the snapshot's
and, for a running sweep, that every finished site holds the same state. The
signature needs `SigningInv`: one pair of buffers per finished sweep, the last of which
ends in the bytes of the lattice, and past the middle a clone whose bytes the middle
sweep began with. As no sweep count is 0, the last sweep is past the middle and the
fallback for a missing clone is not taken.

`KeyRecordFileProofs` proves, for any number of exports and verifies, any images
and configurations (`KeyRecordAssumption`: no process is both):

- `TypeCorrect`: `TypeOK`;
- `KeysStayPrivate`: `SecretsStayPrivate`;
- `LoadsAreWhole`: `LoadedRecordWasExported`;
- `VerdictsAreExact`: `VerdictIsExact`;
- `ExportsConverge`: `ConcurrentExportsConverge`, if there is an export at all
  (with none, "all exports are done" says nothing and there is no file).

The argument for `LoadsAreWhole` is `TokensTell`: whatever writes, truncations and
paddings did, a token of the file or of a reader's buffer stands at the place where
some export has put it; five tokens whose checksum fits are then those of the export
the checksum token is from. Privacy needs `ModeTells`: once a file is there nobody
creates it again with the wide mode, and nobody writes before his own `chmod`.
Convergence needs `WritesTell`: of every token of the common record, it stands in
the file or somebody is still to write it (`Owes`); a truncation makes its own
process owe all of them.

`MessageExchangeProofs` proves, for any number of senders and receivers, scenarios,
key pairs and configurations (`ExchangeAssumption`: names that stand for nothing or
for damage are not also keys, photographs or senders; a damaged field is never
exactly a good one):

- `TypeCorrect`: `TypeOK`;
- `OpensExactly`: `OpensExactlyWhenEntitled`;
- `MacFirst`: `MacSpeaksFirst`;
- `ExchangeIsSealed`: every behaviour is one of `SealedExchange`.

`ExchangeInv` adds to these what stores and processes hold (`StoresTell`,
`SendersTell`: a sealed message is of the sender's own image, time and key pair), where
each token comes from (`TokensTell`, as above, with damage) and what a receiver has
parsed (`ReceiversTell`: every field is some sealed message's or rotten, `Provenance`).
`MacBinds` is the heart: a message made of fields of several, one of whose tags
verifies, is that very message in everything the MAC covers. It also explains why
nothing that verifies fails in AES-GCM: both subkeys expand the same secrets.
`EntitlementStays` is needed because what a receiver is entitled to is said of
senders that go on running, `FreshIsForeign` because an implicit rejection gives a
secret no sender has used. For the refinement, sealing and printing are the abstract
steps; their parameters are the factors of the sender and receiver.

`SelftestProofs` proves, for any runs, directories, leftovers and engines
(`SelftestAssumption`):

- `GateHolds`: `GateIsFair`;
- `NoKeyImageStays`: `CleansUp`.

`SelftestInv` has, besides types and control (`RunsTell`), `FilesApart` (an inode is
reachable from one directory only, by name or through a handle), `AloneItFinds` (a run
that nobody overlapped finds under the name exactly the prefix it has written) and
`FailuresTell`; without the first, a run elsewhere could spoil a lonely one. A run whose
save was silently cut short finds its prefix too, and fails (`FailuresTell`). `SoundPasses`
relates the answers of an engine to the seven checks in memory.

`ImageIntakeProofs` proves, for any pictures, configurations and extensions, and a
file that is overwritten and grows at any moment (`IntakeAssumption` gives the fields of
pictures and configurations their types):

- `MemoryIsBounded`: `MemoryBounded`;
- `KeysBind`: `KeyBindsWhatWasDecoded`;
- `QuietPicturesAreJudged`: `QuietPictureJudged`;
- `CanonicalImagesFit`: `CanonicalFits`, which is about the arithmetic of
  `smart_resize` for all sides and boxes.

`IntakeInv` follows the buffer through the read (`ReadTells`: what was read of a file
that stood still is a prefix of it, and all of it afterwards), keeps which gates have
been passed (`GatesTell`) and, for the exactness of the verdict, gives every refusal a
reason that can be evaluated on the buffer alone (`VerdictTells`): the order of the
gates then does not matter.

Of the quality scan the same module proves, for any files and any window
(`ScanAssumption` only says what a complete file and an encoder's table are):

- `WindowsAgree`: `PrefixAgrees`, for every file, well-formed or not;
- `FirstTablesDecide`: `FirstTableDecides`;
- `GatesMatch`: `GateMatchesEncoder`, for all hundred qualities.

`ScanInv` says that both scans stand at positions that the scan over the whole file comes
to (`Reached`: they are in every set of positions that is closed under its moves) and have
answered what they see there (`Answers`). A scan that sees less moves as one that sees all
(`MovesAlike`), and there is one position only at which the whole scan ends (`OneEnd`); a
quality is read at such a position, so that both read the same bytes. For the first
table, the starts of the segments with only others before them are a closed set
(`TrackIsClosed`): the scan never stands inside a payload. `GateOfDc` and `GateOfQuality` are the
arithmetic of the gate: both the entries that the estimate puts at 90 or more and those
that an encoder writes from 90 on are the ones up to 3.

`SpectrumCommandProofs` proves, for sessions of any length with any pictures, texts,
documents and key pairs, and for any program that uses the library
(`CommandAssumption`: the inputs are of their kinds, a damaged field is never a good
one, and the list of accepted formats has no part in the witness, since
`preprocess` only compares the container format with it):

- `OnlySupportedRuns`: `RunsOnlySupported`;
- `SavedLoads`: `SavedConfigLoads`, with the refusal of a `null` where the running
  instance had a number that JSON does not have;
- `ExitCodeIsHonest`: `ExitTellsOutcome`.

Without the assumption about the formats the last one is wrong: a message sealed with
`-C` could then be refused under the same image and key pair without it.
`CommandInv` has `PlaceTells` (how far command and load have come, and that nothing is
written before the dispatch is over), `FilesTell` (what may stand in each file: a
message is a sealed one, a secret key was generated here, so that a new pair differs
from the old one), `ConfigTells` (the documents that are loaded, run or saved),
`WritesTell` (what is still to be written is the output of this very command, computed
from files that it does not write), `OnlyOutputs` (in every place nothing but the outputs
has changed, a key pair in its order) and `DoneTells` (between the last write and the end
the exit code to be is already true, also of what is yet to be printed: so a process that
goes away there leaves what `Delivered` says or what it found, `CutShort`). The load needs two lemmas about the field lists:
`CompleteIsKnown` (the walk finds nothing unknown in a complete document) and
`CompleteConverts` (serde takes it and drops nothing). `OpensExactly` says of
`decrypt_message_with_pq` which messages it opens, in both directions.

`BatchRunProofs` proves, for any number of batches over any folder, whose pictures are
replaced at any moment, and a manifest path that anybody may write (`BatchAssumption`
gives requests and names their types):

- `TypeCorrect`: `TypeOK`;
- `ManifestsAreComplete`: `ManifestIsComplete`;
- `LoadedManifestsAreWhole`: `LoadedManifestIsWhole`.

For the first, each batch has what its listing has found (`ListingTells`: of the images
that nobody has touched none that `read_dir` has returned is missing), what is left of it
to derive (`PathsTell`: sorted and without repetition) and an entry for each path so far
(`EntriesTell`: that of the bytes, unless they were touched). For the second, while nobody
truncates under anybody else, either nobody has written or the file is as much of one
batch's manifest as its writer has got done (`WrittenBy`), and a reader has a prefix of it
(`FileTells`); a prefix of a bracketed document that parses is the whole of it
(`PrefixThatParses`). `OneBatchMoves` spares the steps of one batch the others' part.

`WitnessPipelineProofs` proves of the loops of the sources and of the mixing, for every
picture, every knob and limit (`CallAssumption`: calls are records of their fields' types;
`MixingAssumption`, above; `TrackedAssumption`: `MaxTracked` is a number):

- `PlateauEndsSearch`: `StopsOnlyOnPlateau`;
- `ReadsInside`: `ReadsStayInside`;
- `BoxesAreApart`: `BoxesStayApart`, and `BandsAreWhole`: `NoBandSkipped`;
- `PiecesAreWhole`: `TilesAreWhole`;
- `PixelsTakeTurns`: `BlocksShareNoPixel`;
- `NeighboursBelong`: `ScalesPairUp`;
- `TransformReconstructs`: `TransformIsExact`;
- `ValuesReachWitness`: `WitnessIsWhole`.

`Components` splits a step of the pipeline: it moves one component by one of its actions
or takes it back to its beginning, and the call stays (`CallNeverChanges`). So each component has an invariant of its own.

- `ProbeInv`: the plateau counter is the number of steady counts at the end, and it was
  three at no time before. `FilterInv`: the reads are those of the filter placed last, whose
  side fits the picture (`FiltersAreKnown`, `SlidesInside`).
- `BoxInv`: behind the walk no band of the sampled picture is left out, and every box
  before it covers its place once (`Wraps`, `NextBoxApart`).
- `TileInv`: the tiles are those of the tiling that was cut last. `CutsAreWhole` has each
  tiling cover a side once; `SuffixInv`, `WindowInv` and `OrbitInv` are the same for the windows
  of the Hurst loops and the orbit of the chaos source.
- `TapsInv`: the taps of a block are at the strides of its slots. That they differ is
  number theory: `Euclid` (a prime that divides a product divides a factor) for the three
  strides of the code (`Primes`), hence `StrideTakesOnce`; `SlotsAreCells` numbers the cells of
  a triangle, hence the embedding is symmetric (`MirrorsMatch`).
- `LadderInv`: a level of the ladder has the maxima of its own scale, and the rungs climb.
  `PairsInv`, `SlopesInv` and `MomentsInv`: exponents are in the order of their moments, and
  a spectrum is taken between neighbours.
- `TransformInv`: the picture under the transform is a product of one low-pass along each
  axis, a band one of low-passes and details, and what is left and what was taken off
  add up to the lit pixel.
- `MixInv`: while rounds last, `normalized` lists what came in them; while spans are carved,
  the witness is `normalized` up to the cut. It needs that the boundaries rise
  (`CutsRise`), that a determined strategy has weights that add up (`DeterminedIsSound`), for
  which a sum is the same in every order (`SumsInEveryOrder`) and every rank is taken once
  (`RanksAreTaken`), and that lists without repetition join (`JoinLists`).

Where a proof needs induction over numbers it takes the least counterexample (`LeastOf`,
from the well-foundedness of the naturals), since the induction theorems of the library
are out of reach; functions with a bounded domain (`Power`, `LowPass`, `Cumulative`) are
shown to exist once and unfolded step by step.

Lemmas that several proofs need stand in each of them, because a proof module extends the
component it is about: what a file contains after one `write` (`WrittenProperties`) and a
buffer after one `read` (`ReadMoreProperties`).

Only model-checked: liveness under fairness (`AlwaysAnswers`, `ScansEnd`, `IntakeEnds`), which
like ENABLED is out of the prover's reach. Every invariant and every refinement that a
passing run checks is a theorem. The two properties found violated, `NeverReadsPastTheEnd`
and that of `config_unknown`, are counterexamples of single runs.

The type invariants that the runs `engine` and `lattice` check are theorems; those of
`KeyRecordFile`, `MessageExchange` and `BatchRun` are only proved.

## Not modelled

- What the sources compute: floating point, responses, entropies and dimensions,
  the Jacobi iteration of the quantum density source, the classification of
  fractals and of noise, the adaptive normalization of the fractal source. These are
  pure functions of reals; TLC has neither reals nor rounding, and which pixels,
  scales and moments go into them is modelled.
- SHAKE256, SHA-256, HMAC, HKDF, AES-GCM and NTRU-Prime themselves, which are
  ideal; the Dilithium wrapper, which no command calls.
- Morphology and blur in `filter/`, which nothing in the library calls; `load_image` and the
  accessors of the pixel buffer.
- The text of errors, reports and logs; test images, benches and examples.
- A derivation from file to key in one module: `ImageIntake`, `EntropyEngine` and
  `WitnessPipeline` share a picture and a configuration and nothing that changes, so
  that their product has no behaviour the parts do not have.
