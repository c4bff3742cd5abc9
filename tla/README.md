# A verification of unpin-vfs

unpin-vfs serves a directory tree from a ZIP that the executable itself carries.
The calls `open`, `fopen`, `stat`, `lstat`, `access`, `opendir`, `readdir` and
`closedir` are put in front of libc; a path under the mount root is answered
from the ZIP, every other path by libc. On POSIX a file of the mount is inflated
into a fresh anonymous descriptor, on Windows into a temporary file. The ZIP is
made by `tools/unpin-vfs-pack.c`, with the writer of miniz, and read by the
reader of miniz; entries are stored, deflated, or compressed with zstd and a
dictionary that the ZIP carries too.

This directory holds TLA+ modules of all of that, the TLC runs that check them
on small instances, and proofs, checked by TLAPS, for all instances.

## The system

| part | state it keeps | operations | who uses it |
|---|---|---|---|
| path canonicalisation (`path_canon`, `posix_key`) | arrays `segs`, `lens`, `buf`, the static `keybuf` | scan, write back | every call on a path |
| switch and reader (`vfs_off`, `unpin_vfs_init`, `vfs_find`) | `g_disabled`, `g_state`, `g_zip`, the dictionary; in self mode the open executable | settle once, look up | every call |
| calls on files (`OPEN_FN`, `FOPEN_FN`, `STAT_FN`, `LSTAT_FN`, `ACCESS_FN`, `fd_for`, `anon_fd`, `write_all`) | descriptors, a heap block while a call runs | answer, inflate, write, hand over | the program |
| directory iteration (`OPENDIR_FN`, `READDIR_FN`, `CLOSEDIR_FN`) | `struct vfs_dir`: prefix, cursor, the name last returned | open, next entry, close | the program |
| Windows materialisation, marker mode (`materialize`, `win_key`, `marker_key`, `vfs_cleanup`) | cache of temporary files | materialise, clean up at exit | the Windows wrappers |
| ZIP reader (miniz) | the central directory, sorted offsets | find the end record, read the directory, locate, extract | the parts above, the packer |
| self-EOF access (`self_open`, `mz_zip_file_read_func`) | a descriptor and its offset, shared over `fork` | seek and read | ZIP reader |
| ZIP writer (miniz) | the archive being written | add, copy an entry, finalise | the packer |
| packer | both | carry, walk, adjust offsets | the build |
| deflate (`tdefl_compress`, `tinfl_decompress`) | window, hash chains, codes of a block; bit buffer, tables, place to resume | compress, decompress a buffer at a time | writer, reader |
| zstd decoder and its glue | one context and one dictionary for the process | set the dictionary, decompress | reader |
| bindings (`--wrap`, `dlsym`, strong definitions, time64 aliases) | memoised pointers | forward | the linker |

The parts interact by plain calls on one thread. What makes them hard is less
concurrency than failure and history. `g_disabled` and `g_state` are settled by
the first call that needs them and bind all later ones. Opening a file takes six
steps, four of which can fail with resources in hand. Descriptors of the reader,
of the mount and of libc come from one table, and the offset of the reader's is
shared with every forked child. Directory handles are read in any order, each
deduplicating with a single remembered name. The decompressors are state
machines that stop in the middle of anything, keep tables from one block (zstd:
from one entry) to the next, and copy more bytes than they are asked for. The
fields of a ZIP saturate, each on its own, and writer, reader and packer must
agree on what that means. `PROJECT.json` lists these hazards with their lines.

What makes each part correct:

- canonicalisation: the key is the lexical value of the path; the scan ends and
  stays inside its arrays.
- switch and reader: verdicts are final; a failed start leaks nothing.
- files: an opened descriptor holds exactly the entry, rewound, and belongs to
  the caller alone; no failure loses a descriptor or a block; the metadata
  namespaces are out of reach; every call returns.
- directories: a listing shows every visible child once, with the type `stat`
  gives it, and ends.
- materialisation: the cache holds whole copies, what is written is cached or
  removed, and what is cached is removed at exit.
- ZIP reader: the last end record is found, `locate` finds a record whenever one
  matches, an extraction is exact or fails and frees what it took.
- packer: what it ships serves every file of the tree and every carried entry,
  whatever the sizes, with the carried program unharmed.
- compression: what is decompressed is what the formats say, damaged or not;
  nothing is read or written outside the buffers; every call ends.

## Modules

| module | models | |
|---|---|---|
| `VfsPath` | keys and paths, `path_canon` as a function | a path is a sequence of segments; only equality and length of names count |
| `PathCanon` | `path_canon` as its two loops | one action per branch of the scan and per segment written back |
| `VfsArchive` | the archive as the mount sees it, `vfs_hidden`, `is_implicit_dir`, children | operators, no state; `Fold` stands for `MZ_TOLOWER` on names |
| `VfsCore` | `vfs_off`, `unpin_vfs_init`, `vfs_find`, the descriptor table | relations that the handlers conjoin; a handler reads what they leave in the primed variables, as the C code does after the call |
| `VfsFile` | the calls on files | a call that needs only the reader is one step; opening is a step per outside call |
| `VfsDir` | the calls on directories | `readdir` is `ReaddirEntry`, `ReaddirEnd` or `ReaddirReal`; `seen` and `ended` are history |
| `Mount` | the abstract promise of the mount | route and health settled once, answers a function of path and archive; a miss of `open` needs an archive found unreadable for good |
| `Materialize` | the Windows calls of both builds | `materialize` a step at a time, over `VfsCore`; wrappers, cache, clean-up at exit |
| `ZipName` | names as sequences of characters, how miniz compares and folds them | |
| `ZipIndex` | the heap sort of the central directory and the binary search in it | a step per sift-down and per probe |
| `ZipOpen` | the backward search for the end record, a block per step, then `ZipIndex` | |
| `ZipLayout` | an archive as its headers at their offsets, with saturated fields and the extended field | |
| `ZipWriter`, `ZipReader` | what the packer calls to write, what the mount and the packer call to read, and below it miniz's other calls on whole archives | operators; an operation that can fail is a set of outcomes, and so is a look-up of a name that is there twice |
| `Packer` | `main`, `carry_from`, `visit`, `add_file`, `adjust_offsets` | composes writer and reader |
| `SelfRead` | extraction through a `FILE` in processes that share its offset, and close its descriptor | `FileTell`, `FileSeek`, `FileRead` as far as stdio buffers; the three ways through `mz_zip_reader_extract_to_mem_no_alloc1` (stored, a whole frame, chunks to `tinfl`), each with its own comparison of the CRC and its own frees; the heap as a count per pointer; the bytes of the archive and its records are constants, and `ArchiveIsSound` says what a sound one is |
| `HuffTable` | the code tables of miniz, and how they are read | operators over sequences of bits |
| `Inflate` | `tinfl_decompress` and the loop that feeds it | an action per state of the coroutine; a missing byte ends any of them |
| `Deflate` | `tdefl_compress` at level 9 | fill the lookahead, parse one match, flush a block |
| `ZipDeflate` | the two joined by an archive | |
| `DeflateFormat` | RFC 1951, the reference | no tables, no buffers |
| `ZstdCopy` | memory, `memcpy`, `memmove` and the copies of the decoder that move more than they are asked for | bytes out of place are `Unknown`, and remembered as stray |
| `ZstdFse`, `ZstdHuf` | the bit register that is read backwards, FSE and Huffman tables, one stream and four, the general loops and the fast ones | operators over bytes; a stream is the place of its register and the bits used |
| `ZstdHead` | the tables and states of sequences; the headers of frames, blocks and sections, formatted dictionaries | |
| `ZstdXxh` | XXH64 at once and in parts | numbers of 64 bits are 8 bytes |
| `Zstd` | `unpin_zstd_set_dict`, `unpin_zstd_decompress` and the decoder behind them | frame, block, literals, sequence, the queue of the decoder that reads ahead; the context over all calls |
| `ZstdFormat` | RFC 8878, the reference | bit by bit, with prefix codes for tables and sequences for memory |
| `MC...` | small instances | |
| `PathCanonProofs`, `VfsCoreProofs`, `VfsFileProofs`, `VfsDirProofs`, `MaterializeProofs`, `ZipOpenProofs`, `SelfReadProofs`, `PackerProofs` | proofs | `VfsCoreProofs` holds the lemmas that the calls share |

How they compose. `VfsFile`, `VfsDir` and `Materialize` extend `VfsCore`: each
explores the shared state under its own calls. `VfsFile` instantiates `Mount`
with a refinement mapping (`Promise`): `Route` is `g_disabled`, `Health` is
`g_state`, `LastAnswer` carries the bytes of the descriptor that was returned.
`Packer` runs `ZipWriter` and judges what was shipped with `ZipReader`, whose
look-up promises what `ZipIndex` was checked to do: a record of the name.
Neither program calls the rest of miniz's archive interface, but the archives it
would meet are these, so `MCPacker` puts each call to every archive shipped:
adding in place or from a callback leaves the old entries readable and the new
one as it was given, an iterator reaches the verdict of the call that extracts
at once, the validator passes what comes out.
`ZipDeflate` hands what `Deflate` wrote to `Inflate`. In `VfsFile` extraction is
one step that succeeds or fails; `SelfRead`, `ZipDeflate` and `Zstd` are what
that step stands for.

Variables keep the names of the code. Invented ones are `zip` (the archive
carried), `off_env` (the environment), `fds` (the kernel's table), `held` (what
the program has not closed), `ret` and `dret` (the last answer), `dirs` (what
each `DIR` pointer points at), and in the decompressors `stream.means`, what the
format says of a stream. Descriptors count from 1, and 0 is "none", where C has
-1; record positions likewise. Definitions marked *mutant* are plausible bugs;
no specification uses them. `TINFL_GET_BITS` (`miniz.c:2345`) and
`TINFL_HUFF_DECODE` (`miniz.c:2393`) are `GetBits` and `HuffDecode` in
`Inflate`; they take what follows them as a parameter, as the macros are
followed by code, and are therefore not in the map of `PROJECT.json`; nor is
`WithTree` in `ZstdHuf` (`zstddeclib.c:16780`), for the same reason.

The models are of the build with `UNPIN_VFS_DIRS`, in self mode and in blob mode
(`SelfMode`). In a build without `UNPIN_VFS_DIRS` `stat` is `vfs_find` alone.

Abstractions. In `VfsFile`, `VfsDir` and `Materialize` a record is *sound* when
its bytes pass the checks of extraction; extraction of a sound record yields its
data, or fails (memory, I/O); of any other record it fails. A record has a `stat`
if its zip64 field, where it needs one, is whole; without it `entry_size` is 0 and
the entry is served empty (`entry_data`, and under the departures below). Which of several
records with equal folded names `locate` meets is left open there (`Matches`)
and settled in `ZipIndex`. `errno` values other than `ENOENT`, `EIO` and `EROFS`
are one, `EFAIL`. libc's answers for paths that are not the mount's are one,
`host`, except that an open takes a descriptor. The program overwrites bytes of
what it holds but does not extend it. In `Packer` a content is a member of a
small set with a length and compressed lengths. `Deflate` and `Inflate` know
bits, `Zstd` and what it extends bytes and bits; sizes of 2^30 and more, which no
entry here has, are one.

## Runs

| run | shows | bounds |
|---|---|---|
| `path_canon` | the loops compute the lexical key (`CanonIsLexical`, against the definition by surviving names), track it at every step, agree with the function of `VfsPath` even beyond their limits, end | all texts of up to 5 segments over four names, `.`, `..` and the empty one; `segs[]` holds 3, so that it overflows; `buf[]` holds 15 (`PathMax`), one name is of 14 bytes, which the test of `vfs.c:214` refuses even as the first (`JoinStops`), one is of 4, which three times over fills the buffer to the last byte and leaves no room for a fourth segment |
| `file_calls` | `NoLeak`, `ServesPristine`, `HiddenStaysHidden`, and the inductive `PipelineInv` | four archives (with dictionary and metadata; with a damaged record; with a record that cannot be read; absent), five paths, 3 descriptors: the reader's, and two the program keeps, so that a second open meets a used copy of the same entry and a third finds the table full; entries of 0 to 3 bytes, so that writes can be short twice |
| `file_promise` | the pipeline implements `Mount`; `VerdictsLast`; every call returns (`CallsReturn`) | blob mode, where the metadata is not hidden; one descriptor |
| `dir_listing` | `ListsOnce`, `ListsAll`, `ListingAgreesWithStat`, `ListingEnds` | two handles, up to 11 records, three levels, directory records and implied ones, hidden names, a name too long for `d_name` |
| `dir_carried` | finding 1 | an archive that holds one directory in two places |
| `zip_open` | the end record nearest to the end is found (`FoundIsLast`), or there is none in reach (`MissedIsOutOfReach`); the sort sorts and the search finds a record whenever one matches, among equal names too (`IndexInv`, `LocateIsExact`); both end | every file of up to 36 bytes with up to two signatures, read in blocks of 9 with records of 6; every directory of up to 5 records over names that repeat and differ in case |
| `self_read` | an extraction is exact or fails (`ExtractIsExact`), does not fail undisturbed (`LoneReaderServes`), keeps nothing (`NothingHeld`), ends | a parent and its child, 3 calls between them; stored, deflated, zstd and empty records, one of two buffers; the descriptor may be closed under the reader; of the bytes of another entry or of another file a decoder may make nothing, too little, rubbish or, by chance, the entry; the CRC is a sum of one of 251 values that tells the fillings of a buffer apart |
| `self_read_forked` | finding 2 | the same |
| `packer` | the writer keeps what it was given (`EntriesHeld`); what is shipped serves it (`FilesServed`, `CarriedServed`) from the right place (`BaseIsWhereItBegan`); the other calls of miniz agree with that (`EntryPointsAgree`) | every combination of `--carry`, `--dict`, `--base` that the code tells apart, with each call of the writer failing in turn; "16 bits" end at 12 and "32 bits" at 2000, so that counts, sizes and offsets saturate; the carried file is a program of 100 bytes and an archive, moved or not, by this packer or by another linker; a read buffer (`IoBuf`) is 1000 bytes, less than the longest entry and more than the others; six additions in place, fourteen streams that keep to what they announced or do not |
| `materialize` | `CachedIsWhole`, `NothingLost`, `CleansUp`, `ReservedMount`, `CallsReturn` | self mode, so that the reader holds a descriptor; two entries, a hidden one, a damaged one and, in another archive, one that cannot be read; `atexit` takes the handler or not; 3 temporary files, 3 descriptors, buffers of 6 bytes, a path of 8 |
| `zip_deflate` | `DeflateIsExact`, `ArraysSuffice`, `BothEnd` | bytes of 4 bits, codes of up to 7, look-ups of 3, 16 literals, matches of 3 to 8, a window of 128, positions modulo 256; read buffers of 1, 2, 3, 5 bytes and the whole; valid streams with every single bit flipped and cut at every byte, faults made by hand, and the files described in `MCZipDeflate` |
| `zstd` | `EntryIsExact`, `StaysInside` | copies of 2, 4 and 8 bytes (`Unit`) for 8, 16 and 32, 16 bytes of extra literals (`ZSTD_LITBUFFEREXTRASIZE`) for 64 KiB, blocks of 40 or 128 for 128 KiB, windows from 2^5 (`ZSTD_WINDOWLOG_ABSOLUTEMIN`) for 2^10; a history is long from 60 bytes on (`LongHistory`) for 16 MiB and an offset from code 22 on as in the code; `HUF_selectDecoder` has its timings per byte instead of per 256 (`Step256`); the families of sessions `MCZstd` lists: layouts, pairs of entries with each of 5 dictionaries, wrong sizes, Huffman codes, far offsets, a damaged byte at each place |

Each property of a passing run has a mutant of the code that violates it under
the same bounds; that is the evidence that the bounds reach the case.

In `zip_deflate` the case that a block with its own codes does not fit
`m_output_buf` (a comment in the code calls it impossible) never happens, so the
retry with the fixed codes is not taken; `ArraysSuffice` checks that it need not
be. Two details of `tinfl` are kept out of `DeflateIsExact`: a code word that no
symbol of a one-symbol code has reads as symbol 0 in no bits, and the reserved
length symbols are matches of length 0. `ZstdAssumption` states what a static
assertion of the decoder states (`ZSTD_LBMIN`, `zstddeclib.c:17151`): with a
smaller extra buffer split literals are spoiled.

Deadlock checking is off where the system stops by itself: the canonicalised
key is written (`path_canon`), the packer exits (`packer`), the process exits
(`materialize`), the calls of the instance are used up (`self_read`,
`self_read_forked`), the directory was searched (`zip_open`). The reachable cases
do not grow in kind with larger bounds: the table need hold the reader, the
descriptor being filled and one more; two handles give every interleaving that
could disturb a third; three levels are a directory, its child and what hides
below it; two signatures and two blocks are every way to straddle.

### Fairness

Everywhere it says that code which is running goes on; no step waits for another
actor. `VfsFile` and `Materialize`: weak fairness of the steps of a running call
(in `Materialize` not of the choice of the build). A write takes at least one
byte (a `write` that returned 0 for ever would loop; memfd and regular files do
not). `VfsDir`: weak fairness of `readdir` on a handle, the program's own loop
`while (readdir(d))`; a program may also close the handle, which the property
allows. `PathCanon`, `ZipOpen`: the loop runs. `SelfRead`: each process is
scheduled. `ZipDeflate`: steps are taken as long as something is left to do;
written without `ENABLED`, because some step is enabled in every state.

## Proofs

Checked by TLAPS for every value of the constants that meets the named
assumptions (`PathAssumption`, `InputsAssumption`, `ArchiveAssumption`,
`CoreAssumption`, `FileAssumption`, `DirAssumption`, `MaterializeAssumption`,
`ScanAssumption`, `CharAssumption`, `IndexAssumption`, `SelfReadAssumption`,
`ArchiveIsSound`, `CrcTells`, `DecoderAssumption`, `LayoutAssumption`,
`PackerAssumption`). TLC evaluates these on
its instances, and with them `HuffAssumption`, `InflateAssumption`,
`DeflateAssumption`, `CopyAssumption` and `ZstdAssumption`, which no proof uses.

Each proof has an inductive invariant, one lemma or step per action, and under
it one step per part of the invariant that the action can disturb.

- `PathCanonProofs`. `KeysAreNames`: `PathCanon!TypeOK` is invariant, and with it
  that what the second loop writes stays in `buf[]` with its NUL; with it
  goes `SegsAreNames` (the positions in `segs[]` are of names), without which
  the write-back could not be typed. It is why `FileAssumption` and
  `DirAssumption` may take `KeyOf(p)` to be a key: `path_canon` as a fold is out
  of the prover's reach, and `CanonIsLexical` ties the two together by model
  checking. `ScanIsLexical`: the stack is at every step the surviving names in
  their order. Alone that is not inductive: to know that one more `..` takes back
  the top name and no other, `Balance` counts for each entry how many names more
  than `..` lie behind it, which is how many entries lie above it. That the
  stack is *the* enumeration follows from `RisingIsUnique`.
- `VfsFileProofs`: `TypeCorrect`, `NothingLeaks`, `OpensPristine`,
  `PipelineHolds`, `MetadataIsHidden`. The inductive invariant is `TypeOK /\
  NoLeak /\ PipelineInv /\ ServesPristine /\ HiddenStaysHidden`.
  `PipelineInv` says what each program counter implies: which record is served,
  that the path names it and is not hidden, what the block holds, how much of it
  is in the file, that nothing is answered before the end. `NoLeak` is not
  inductive without its first conjunct (a reader that is not up owns no
  descriptor): a second start would overwrite `g_self`. `ServesPristine` is not
  without the contents of the file at every step. The lemmas `Taken` and
  `Changed` say what an open and an update do to the table, `LowestIsFree` (from
  the well-foundedness of `<` on `Nat`) that the kernel returns a free
  descriptor, `Settled` what any call finds after the switch and the reader are
  settled.
- `VfsFileProofs!MountIsImplemented`: the pipeline implements `Mount`. Initial
  states map to initial states; every step of a call, of the program and of the
  environment maps to a step of `Mount` or to a stutter. The invariant adds
  `Serving` (a call that is running was let in by the mount and found the archive
  up), so that a failure in the middle of the pipeline is one `Mount` allows.
  The words the two modules share (`Matches`, `FilesOf`, `DirAt`, what is hidden)
  are first proved to mean the same on both sides of the `INSTANCE`.
  `VerdictsAreFinal` (`VerdictsLast`) follows from it: no step changes a route or
  a health that was settled.
- `VfsDirProofs`: `TypeCorrect`, `ListingHasNoDuplicates`, `ListingIsComplete`,
  from `TypeOK /\ ReadersInv`. `ReadInv` says that a reader has listed the
  children behind its cursor, that its slot holds the last of them, and that the
  records since then have no other child. Without the slot the skip of a record
  could not be justified; for clustered archives a name that differs from the
  slot's is new, which gives the absence of duplicates. `ListingMatchesLookUps`:
  `ShownInv` says that each name returned came from a record and in what part of
  it, and `ChildIsFound`, a fact about archives alone, that `stat` of such a name
  finds a record or an implied directory of the type listed. It is for archives
  in which a name stands for one thing (`Unambiguous`), as the property says.
- `MaterializeProofs`: `TypeCorrect`, and `CachedIsWhole`, `NothingLost`,
  `CleansUp` (where `atexit` took the handler) and `ReservedMount` of both builds. The invariant follows the one
  temporary file that `materialize` is making: whose it is, how much is written,
  which of the failing steps still own it; every other file is in the cache or
  was given up by the one leak listed under the departures.
- `ZipOpenProofs`. `LastEndRecordIsFound`, for every file, block size and word
  width of the assumptions: `ScanInv` says that the part already read, with the
  overlap of the blocks, holds no signature in reach. `NothingIsOverlooked`: what
  the scan misses is out of reach. `DirectoryIsSorted` (`IndexInv`): the offsets
  are a permutation of the directory at all times; while the heap is built every
  place above `start` is a heap, with the one exception of the place being
  sifted; while it is taken down what was taken is sorted and above the rest.
  `LookUpsAreExact` (`LocateIsExact`): the records left of the search interval
  are below the name and those right of it above. That the order of names is
  total is proved from `CharAssumption`, and the arguments by least element
  stand for inductions on the depth of the heap.
- `SelfReadProofs`, for any number of processes, any sound archive and any sizes
  of buffers, and with the other processes moving the offset or closing the
  descriptor between any two steps: an extraction is exact or fails
  (`ExtractionIsExact`), returns every block it took (`BlocksAreFreed`), and does
  not fail on the data while nobody else moves the offset
  (`LoneReadersAreServed`). `ExtractionIsExact` is about what each path compares
  before it reports success, and rests on `CrcTells` (of the buffers of an entry
  only its content has its CRC: an abstraction of 32 bits) and on
  `DecoderAssumption` (a decoder writes inside the output it was given, which
  `ArraysSuffice` and `StaysInside` check). That a size compared alone is not
  enough shows in the mutants: each path without its comparison breaks the
  property. `BlocksAreFreed` counts: at each exit the frees on that path match
  the blocks allocated on the way to it, no more and no less. The invariant has
  two halves: `Tidy` holds whatever the others do (reads lie in the file, the
  buffer is one of the entry's, which blocks are held in which phase), `Lone` is about a process whose offset is its own (what its `FILE`
  believes is so, and what it has read is what it asked for).

- `PackerProofs`, for every command line, every carried archive, contents of any
  sizes, and any limits in place of 2^16 and 2^32: `FilesAreServed`,
  `CarriedAreServed`, `EntriesAreHeld`, `BaseHolds`. The argument follows one
  record. `HeldAt` says that the writer has it and that extraction from the file
  as it stands gives the content, reading nothing behind the writer's offset;
  `HeldOn`, that whatever leaves the bytes below that offset alone (`Grows`)
  keeps it so. `AddMem` and `CarryOne` prove of `add_mem` and
  `add_from_zip_reader`, over all their branches and failures, that they are such
  steps and hold what they report as added: here writer and reader are shown to
  agree on which fields saturate and where the values of the extended field are.
  `Finalized` says what is behind the entries of a closed archive, in either
  form, `Adjusted` that moving the offsets changes the records and the end record
  and nothing else, `Ships` that `read_central_dir` opens the result at its base
  and finds these records; `Serving` and `FoundIn` bring the record to the look-up
  by name. All of it is for any dictionary, so that an entry carried over that
  needs the one of its own archive is followed too: `OwnIsLoaded` says that this
  one, if the archive has no second, is what the program loads. The inductive invariant `IInv` says, phase by phase, which entries are
  held, that what was carried has records that 16 bits count, and that the base
  is settled; in the last phases it speaks of the writer as it was before the
  archive was closed. `PackerAssumption` asks of a file for `--carry` that nothing
  but parts of an entry begins inside one, and that its archive begins right
  behind the program.

What only TLC checks, and why:

- liveness: `CallsReturn`, `ListingEnds`, `BothEnd` and the other properties
  that something ends;
- what a fold or a recursive definition computes for every input, which needs an
  induction over data: `CanonIsLexical` (the length of a text is a fold), and all
  of deflate and zstd;
- what the other calls of miniz make of a shipped archive (`EntryPointsAgree`):
  it compares one call with another on the archives of the instance.

## Findings

Two statements of the repository that the code does not keep, each with a run
that ends in a counterexample; `PROJECT.json` quotes them.

1. `dir_carried`: a listing repeats names when `--carry` splits the records of a
   directory.
2. `self_read_forked`: after a `fork` an entry cannot always be read on demand:
   the other process may move the offset between seek and read. The entry read
   is never a wrong one (`ExtractIsExact` holds), the call fails.

Departures met while modelling, which the models have as the code has them:

- `path_canon` drops the 257th segment, and a name that fills the buffer becomes
  the root (`vfs.c:210`, `vfs.c:214`); `win_key` cuts long paths before
  (`vfs.c:390`), `marker_key` leaves them to the host (`vfs.c:315`).
- Without an archive the calls answer `EIO`, not `ENOENT` (`vfs.c:801`);
  `access` denies every directory of the mount (`vfs.c:846`); `open` ignores the
  flags for writing (`vfs.c:794`); `unpin_vfs_open` passes no mode for
  `O_TMPFILE` (`vfs.c:990`).
- A directory opened in another case lists nothing (`vfs.c:915`); names of 256
  bytes or more are in no listing (`vfs.c:921`).
- `posix_key` answers in a static buffer, which a signal handler would reuse
  (`vfs.c:547`).
- If `_strdup` fails after a temporary file was written, its name is forgotten
  and the file stays (`vfs.c:289`); if `atexit` refuses the handler all of them
  stay (`vfs.c:288`; `CleansUp` is about a handler that was taken).
- A record whose zip64 field is cut short is served as an empty file: `entry_size`
  answers 0 for a failed stat (`vfs.c:187`), and a size of 0 is not extracted
  (`vfs.c:744`).
- The end-record search steps back without a sign and leaves a file shorter
  than a block (`miniz.c:3639`); an entry of 4 GiB that shrinks below keeps a
  superfluous value in its extended field (`miniz.c:6526`).
- The packer: `adjust_offsets` counts records in 16 bits (`:140`); two
  dictionaries can meet, and then the entries of one side cannot be read
  (`:262`; `OneDict`); an archive `--carry` cannot read, or whose
  offsets were not moved, is dropped without a word (`:192`); so is a directory
  that cannot be read (`:107`); a file may be added under the name of a carried
  one. `FilesServed` and `CarriedServed` say where they stop (`Uncounted`,
  `DictServes`, `Clear`, `OneDict`).
- A file of which one size takes 2^32 bytes and the other does not, behind the
  first 4 GiB of the archive: the writer puts both sizes in front of the offset
  (`miniz.c:6404`, `miniz.c:6526`), the reader skips only those that are
  saturated (`miniz.c:4291`) and takes a size for the offset (`Crossed`). It came
  up as a step of the proof that would not go through; entries of a program are
  far from it.

- miniz's other calls. The validator reads a 24-byte descriptor behind every
  entry of a ZIP64 archive, where the writer puts 16 bytes behind a short one: it
  rejects the writer's own archives (`miniz.c:5491`). It passes an empty entry of
  a method that extraction refuses (`miniz.c:5370`). An iterator that is asked
  for exactly the bytes of an entry longer than a read buffer may be told to go
  on and then refuse it (`miniz.c:5172`). A failed addition in place that wrote
  further than the directory and a comment reach leaves a file in which no end
  record is found (`InReach`). A read error in `mz_zip_writer_add_file` counts as
  the end of the file, and a shorter entry is added (`miniz.c:6910`).

## Not modelled

- The bindings: linking and preprocessing.
- miniz: archives in memory, alignment, comments and extra fields of the caller;
  an extended field without a value, which a stream has in front of 4 GiB that
  are announced and get a descriptor or do not come (`HasEmptyField`); zlib
  headers and checksums, output that wraps, resuming after
  `TINFL_STATUS_HAS_MORE_OUTPUT`, bit buffers of 32 bits, greedy and run-length
  parsing, filters, raw-only blocks, `tdefl_compress_fast` (not compiled); how a
  CRC is computed (`Crc` is a parameter of `SelfRead`, compared where the code
  compares it). The result of `mz_zip_writer_end` in the packer
  (`unpin-vfs-pack.c:274`), which nobody looks at, is not a step: the archive was
  flushed before (`miniz.c:7472`).
- zstd: streaming, digested dictionaries, legacy formats, decoding in place, the
  long offsets of 32-bit builds, the loops in assembly (the build has no `.S`
  file). The compressing half of `unpin_zstd.c` calls libzstd, which is not in
  the repository.
- Tests and build files: read for what they claim.

Most of the 33 000 lines are vendored: `zstddeclib.c` alone has 22 000, of which
the one call of `unpin_zstd.c` reaches some 4 000. The map covers most of those,
of `vfs.c`, of the packer and of the archive and deflate parts of miniz.

With copies of 2 bytes (`Unit`) the spreading of a match (`ZSTD_overlapCopy8`) is
reached with offset 1 only; the code has it for offsets below 8. `StaysInside`
judges the writes of steps that go on: what a step wrote before it refused is not
in the model.

`EntryIsExact` leaves open what the format forbids but a decoder need not notice
(`Open` in `ZstdFormat`); there it asks for the text or for 0 only.

## Plan

Done: every component of the list above but the bindings; proofs of the calls on
files and directories, of the refinement of `Mount`, of materialisation, of
opening an archive and of reading it through the shared descriptor, of the
packer with the writer and the reader it rests on; the scan of `path_canon`; the
other calls of miniz on what the packer ships, model-checked.

Left, in order:

1. `ArraysSuffice` of `Deflate`: the parts of it that speak of indices only.
2. `Vfs`: files and directories over one core, listed names opened while other
   handles are read.
