# FSAL, specified in TLA+

FSAL is a C++ library that gives a program one interface to files on disk, in
memory and in archives (ZIP, VPK). This directory holds TLA+ specifications of
its core, the TLC configurations that check them on small instances, and
proofs, checked by TLAPS, that some of the properties hold for every value of
the constants. `PROJECT.json` lists the components, the runs, the mutants, the
source lines of each definition, the findings, the hazards and the theorems.

    tlc -config archive_shared.cfg MCSharedArchive.tla     # a run
    tlapm FileListProofs.tla                               # the proofs of a module

## 1. The system

| Component | State | Operations | Used by |
|---|---|---|---|
| `FileSystem` (`FileSystem.cpp`) | one process-wide `FsalImplementation`: search paths, mounted archives, `searchPathsMutex` | Push, Pop, Clear search paths, MountArchive, Find, Open, Exists, Rename, Remove, CreateDirectory | the program, several threads |
| `Location` (`Location.cpp`) | a path, what it is relative to, wanted types | GetFullPath, GetSytemPath | FileSystem |
| `NormalizePath` (`FastPathNormalization.cpp`) | two iterators, the result, a depth | one call | FileSystem, FileList, archives |
| `Archive` (`Archive.cpp`) | a shared pointer to a reader | forwards | FileSystem, the program |
| `FileList` (`FileListBinarySearch.h`) | entries, a table of depths, `sorted` | Add, FindEntry, Exists, ListDirectory | ZipReader, VPKReader |
| `ZipReader` (`ZipArchive.cpp`) | a `File`, a FileList | OpenArchive, OpenFile (two), Exists, ListDirectory | Archive |
| `ZipWriter` (`ZipArchive.cpp`) | the file, offsets, entries of the directory | AddFile, CreateDirectory, destructor | Archive, the program |
| `VPKReader` (`VpkArchive.cpp`) | a directory file, pak files, a FileList, a mutex | as ZipReader | Archive |
| `SubFile` (`SubFile.cpp`) | window (`m_offset`, `m_size`), cursor `m_pointer`, the parent | ReadData, WriteData, SetPosition, GetSize | ZipReader, VPKReader |
| `StdFile` (`StdFile.cpp`) | a `FILE*` with cursor, end-of-file and error flags; `LStdFile` adds a mutex | Open, ReadData, WriteData, SetPosition, GetSize, ... | File |
| `MemRefFile` (`MemRefFile.cpp`) | a buffer, a cursor | the same | readers, the program |
| `File` (`File.cpp`) | a shared pointer to one of the three | forwards; `LockGuard` | everybody |
| `bfio.h`, `FileStream.h`, shortcuts | none | copy fields to and from a file | headers of archives |

How they interact. A program asks `FileSystem` for a `Location`; `Find` looks
at the place itself, then in the search paths, then in the mounted archives.
An archive answers from its `FileList`, which stores normalised paths and
sorts them by depth, a number `NormalizePath` computes. Opening a stored
member yields a `File` whose `SubFile` shares the archive's `StdFile` with all
other members; opening a compressed one decodes it into a `MemRefFile`.

What is hard in it, and what would make each part correct:

* **Shared stream.** All open members of an archive move one `FILE*`. Each
  access must seek and transfer under the archive's mutex, cut its request at
  its window, and leave the other members' cursors alone. `m_pointer` is read
  before the lock and again under it. *Correct:* a member behaves like a file
  of its own (README.md:12 "as if they were unpacked").
* **Search by depth.** A table says where each depth begins, and the
  comparison skips the prefix both ends of the interval share with the key.
  *Correct:* a lookup finds exactly the path asked for, the search ends, a
  listing gives the entries of its directory.
* **Backward normalisation.** `NormalizePath` writes from the end of a buffer
  that is as large as its source, with a counter of names that a `..` still
  has to remove. *Correct:* it stays in the buffer, yields the normal form and
  the right depth.
* **Lookups against changes.** `Find` takes the mutex twice, iterates over
  vectors that other threads change (`MountArchive` without the mutex), and
  its caller acts on the answer later. *Correct:* an answer is true of one
  instant of the call, a call changes only what its location may stand for,
  what is created is what the location finds, and nobody waits forever.
* **An archive that is written once.** `ZipWriter` counts offsets instead of
  asking the file for them, in 32 bits, looks at no status of a write, and
  leaves the directory to its destructor. The reader trusts the end record it
  finds. *Correct:* a complete archive opens with exactly what was added, and
  what was cut short by a full disk or a stopped program opens as nothing at
  all or as the whole. The reader looks at a signature only, so archives in
  archives are where this is hard, and where it fails.

The hazards, each with its line and the properties that watch it, are in
`PROJECT.json` under "hazards".

## 2. The modules

| Module | Models |
|---|---|
| `StdFile` | a stdio stream as `StdFile.cpp` uses it: operators |
| `UnpackedMembers` | abstract: every member is a file of its own, calls are atomic |
| `SharedArchive` | `SubFile`, `LockGuard`, member access of `ZipReader`, `StdFile::GetSize`, several threads, step by step; refines `UnpackedMembers` |
| `FileList` | `FileListBinarySearch.h`: building, sorting, the depth table, the search loop one probe a step, listing |
| `Places` | locations, paths, attributes, what the operating system's calls do to the disk: operators |
| `PathLookup` | abstract: a lookup answers for one instant |
| `FileSystem` | `FileSystem.cpp`: tables, `Find` loop by loop, the five calls; its lookups refine `PathLookup` |
| `MemRefFile` | `MemRefFile.cpp`, a file that grows and a view that cannot: operators |
| `ZipLayout` | what lies in an archive: headers, names, data, directory, record: operators |
| `ZipWriter` | `ZipWriter`: AddFile, CreateDirectory, destructor, one `File::Write` a step, a program that stops |
| `ZipRoundTrip` | composes it with `ZipReader::OpenArchive`, one entry a step, and `OpenFile` (both) |
| `NormalForm` | reference definition of a normal path, by its entries |
| `NormalizePath` | `NormalizePath` with its iterators, one entry a step |
| `MC...` | instances for TLC |
| `...Proofs` | theorems |

How state and actions correspond to the code:

**SharedArchive.** `file` is the `FILE*` of the archive, `bytes` its content,
`mutex` the one of `LStdFile`, `pointer` is `SubFile::m_pointer`, `member` the
window a handle stands for. A `ReadData` is `Inside` (the test at
SubFile.cpp:34, before the lock) or `AtEnd`, then `Lock` or `LockNull`
(`LockGuard`, File.cpp:98), `SeekParent`, `ReadParent`, `ReturnRead`; a
`WriteData` likewise. `SeekHandle` is `SetPosition`, under no lock; `Extract`
starts the two ways in which ZipReader loads a whole member. `GetSize` of the
archive's own file moves the shared cursor in three steps without the lock.
Opening a stored member asserts a mutex (SubFile.cpp:16, `Construct`), and
`LockNull` locks a null one: either stops the program or, in a build in which
it does nothing, does not. `WriteData` of `StdFile` on an archive opened for
reading moves nothing and leaves the error flag set, unless it was given no
byte. Decoders are abstracted: they accept a member's own bytes and may or may
not refuse others. `UnpackedMembers` names the three things in which a member
is less than a file of its own: a write that was refused makes all later calls
report a failure, end-of-file comes early, and a write that reports it reports
a failure with it.

**FileList.** Paths are sequences of numbers, 0 ends a C string. `Add` is
called by OpenArchive for each entry (`rest` is what it has still to read),
which then looks up the empty path; `Sort` may leave any order that
`std::sort` may; `FillDepth` is one turn of the loop that fills the table
(with `resize`'s fill value), `Bounds`, `Above`, `Below`, `Hit` and `Miss` are
the search with its two counts of shared characters, `Collect` and `Listed`
the loop of ListDirectory.

**FileSystem.** `searchPaths`, `mounted` and `mutex` are the singleton.
`FirstCheck`, `SecondCheck` and `ThirdCheck` are the three parts of `Find`, the
last two one element of their loop at a time, under the mutex that `Lock`
takes. A mount takes no lock: a scan that it meets becomes `torn` and may
return anything an archive could give it. `FindParent` starts the second
`Find` of Open, Rename and CreateDirectory; the actions named like the calls
act on the disk with what was found. A relative path that is pushed or given as
`kAbsolute` means the current directory, as it does to the operating system
(`FullPath`, `Absolute`). Paths have no dot names, so normalisation leaves them
as they are. All system directories are one place. `seen` is a history
variable: what was a search path at some time since a thread's call began; the
properties need it, no action looks at it.

**NormalizePath.** `srcIt` and `dstIt` are the iterators, `skipping` the count
of names to remove, `dst` has one element more than the source (the
terminating zero of the `std::string` the callers pass). `PackOne` is one turn
of the loop that moves the result to the front, `EndOfPack` writes the zero
behind it, and `FindFileName` searches backwards for the name.

**ZipRoundTrip.** The bytes of headers, names and compressed data are not
spelled out: the k-th is the pair `<<piece, k>>`, so the reader recognises a
piece only where all its bytes lie in order. A member that is stored as it is
has the bytes of its source (`Encoded`), and a source may hold an archive, with
headers and an end record of its own: no special case tells them from the outer
archive's. `medium` is `m_file`: a stdio file on a disk with limited room, a
`MemRefFile` that owns its buffer, or a view on a program's memory. `AddFile`
and `CreateDirectory` note the header (`headers`, `currOffset`, `sizeOfCD`) and
put what they are going to write into `todo`; `Write` does one of these writes
and, as the code, ignores how it ended (`refused` remembers it for the
properties only). `AddFileFails` is the way out when deflate fails: the source
has been read, nothing else has changed. `Destroy` queues the `Directory`,
`Close` ends the destructor, which neither flushes nor closes the file;
`Release` does, when the last `File` goes. Until then a program may `Stop`: of
a stdio file some beginning has reached the disk.

`OpenArchive` tests the signature of the last bytes and nothing else
(`IsSigned`); what is signed but no whole record leads to `garbled`, as does
anything that is no header where one is expected (`ScanGarbled`).
`undefined` stands for the comparison of a signature that was never read
(ZipArchive.cpp:81-84). `ScanEntry` is one turn of its loop, `EndScan` the end.
`OpenFile` and `OpenFileInto` begin with `FindEntry`: among entries of one path
it may find any, and in a list without an entry for some depth any entry or none
(what `FileList` shows in detail). Then they lock the mutex of the reader's
file: views, plain `MemRefFile`s and plain `StdFile`s have none (`Mutexes`), and
the program stops or the lock does nothing (`Locked`). Encoders and decoders are
external: what was encoded is decoded again, other bytes are refused or yield
anything.

## 3. The runs

| Run | Shows |
|---|---|
| `archive_private` | two threads, a handle each, reading, seeking, loading, and writing to an archive that refuses it: the stream is where each transfer wants it, each gets its own bytes, and the handles are independent atomic files but for the status after a refused write |
| `archive_shared` | two threads share one handle and read and write without seeking: the same, a write changes only bytes at its own handle's cursor and in its own window, every call returns |
| `archive_unlocked` | one thread on an archive opened as the README does, without a mutex: if the program goes on at all, members are still files of their own around GetSize, seeks beyond the end and refused writes |
| `list_lookup` | the table, the skipped prefix, lookups, listings, and that calls return |
| `fs_calls` | one thread makes the calls, another pushes, pops, clears and mounts: lookups answer for one instant, creations are found again, a call changes only its location's own place or what lies below search paths of its time, calls return |
| `zip_roundtrip` | an archive is written, to its end or not, with an archive stored in it or not, and opened: entries lie where their headers say; a complete one opens, and OpenFile finds under each path what was added under it; of any other one in a file that ends with it, unless an archive is stored in it, the reader finds nothing or everything |
| `normalize` | the backward scan agrees with the definition by entries, in text, depth and (for paths that did not get shorter) the place of the last name, writes to the terminator of a `std::string` only when the path ends in a dot entry and nowhere behind it, yields a normal path whatever it is given, and ends |
| `archive_eof`, `list_gaps`, `fs_places`, `normalize_buffer`, `zip_nested` | the findings of section 5: TLC finds the property violated |

Bounds, and why they are enough:

* *archive\_*: members of 2, 1 and 2 bytes side by side, the last compressed.
  Requests of 0, 1 and 3 bytes end before, at and after the end of a window,
  and a window has a neighbour on each side to be damaged. Two threads are
  enough for every conflict on one mutex and one stream; the theorems drop
  the bounds. Bytes differ from one another, so a wrong offset
  shows. `archive_private` and `archive_shared` open the archive lockable,
  `archive_unlocked` does not. `archive_shared` and `archive_eof` open it for writing; in
  the others a write is refused, and calls after it show what that leaves behind.
  `archive_eof` has one thread, which is enough to violate it.
* *list\_lookup*: all archives of up to four entries over eleven paths of
  depth 0 to 2, duplicates included, in any order of adding, among them
  `a`, `ab`, `a/`, `ab/`, where a slash must not be taken for a letter; and
  all sets of up to five names over two letters that share beginnings, enough
  for three probes with both ends moved. Keys include all paths and some that no
  archive has, below and above each depth. Both are archives in which each
  depth has an entry; `list_gaps` shows what happens in others. Directories
  are given with a slash at the end: without one, the listing also has what
  merely begins with the name.
* *fs\_calls*: ten paths that may exist under three roots: the current
  directory, a directory that may be pushed, and a system place, where a
  symbolic link lies; two names (`f`, `d`), so that a thing of the same name
  may be in each place. Up to two search paths, in both orders and twice the
  same; one archive. Fourteen calls cover each operation with each kind of
  location that takes another way through it. The disk is changed only by the
  calls of the model (one thread makes them, so what `exists` and
  `is_directory` see in one check is consistent), whatever exists lies in
  directories that exist (`Rooted`), the current directory is constant,
  no call names a root, a move out of the ten paths is refused. One of the two directories pushed, and one location, is
  a relative path given as `kAbsolute`. At most one thread mounts
  (`CallsAssumption`): two at once race on the vector itself. `fs_places` has
  only the calls that are meant for the search paths.
* *normalize*: all paths of up to `MaxLength` = 6 characters over two
  slashes, the dot and a letter, and all of up to `MaxEntries` = 5 entries
  `.`, `..`, a short and a longer name: three names may be taken by `..` and
  one written before and after them. The reference definition works forwards on entries, so
  it shares nothing with the algorithm. `normalize_buffer` has the same paths.
* *zip\_roundtrip*: up to two entries (an entry before and one behind each
  thing that may go wrong), files in three encodings and directories; sources of
  two bytes, of none, and one in memory that is an empty archive; some of them
  read from before, also by an AddFile that failed; paths that
  are normal and paths that are not, a directory and a file of one name.
  Headers have 3 bytes, the record 2, its signature 1; `Limit` = 17 instead of
  2^31, so that archives of two entries end below, at and above it. Media: a
  disk with room for everything and one with 13 bytes, which gets full in each part
  of an archive; a new `MemRefFile` and one that was used before and
  whose cursor is not at its beginning; views of 11, 13 and 22 bytes, which some
  archives fit exactly, some do not fill and some do not fit. `MinSize` = 4
  (50 in the code) makes the buffer grow more than once. `zip_nested` stores an
  archive with one entry, offsets and all, on a disk with room for everything: the program's stop
  alone violates the property.

Fairness. `SharedArchive` and `FileSystem` assume that a thread inside a call
keeps running (weak fairness of its steps) and that a thread waiting for a
mutex that is released again and again gets it (strong fairness of that step;
`std::mutex` does not promise it, operating systems give it). Nothing makes a
thread begin a call. `ZipRoundTrip` has only safety properties and assumes
none: a program may stop at any step. `FileList` and `NormalizePath` are sequential: their
fairness is that a running call goes on.

Deadlock is checked except in `archive_unlocked`, where locking a null mutex
may stop the program, and in `normalize` and `zip_roundtrip`, which end (`zip_nested` too).

## 4. The proofs

For every number of threads, handles and members, every layout, archive and
path, under the assumptions named in the modules (`ActorsAssumption`,
`LayoutAssumption`, `PathsAssumption`, ...):

* `SharedArchiveProofs`, for members that are opened, read, written, sought and
  loaded (`Setting`: one thread with or without a mutex, or any number with one
  if none of them asks for the archive's own size, which moves the stream
  without the lock; a handle that is sought has one user, because `SetPosition`
  takes no lock either): `Typing`, `Window`, `Cursor`, `Bytes` and
  `WritesInside`, i.e. `TypeOK`, `PointerInWindow`, `CursorIsOurs`, `OwnBytes`
  and the action property `WritesStayInside`: a byte that changes was changed
  by the write that runs, through the handle it was called on, at that handle's
  own cursor and before that window's end. None of them is inductive alone.
  The invariant adds that a thread in the critical section holds the mutex
  (`Exclusive`), that a call's handle is still the window it entered with
  (`Engaged`), that windows are opened on stored members only (`Opened`), and
  that a write moved what its window let it move (`Clips`). `Implements` is
  the refinement `UnpackedSpec`. It needs more (`Separate`): where
  the archive can be written, members do not overlap, as overlapping members
  share bytes. A refused write leaves the error flag of the one stream set, and
  every later call of any member reports it: the abstract `refused` is that
  flag. The invariant adds what a call carries out of the critical section
  (`Reports`): that flag, never end-of-file of the stream, as windows lie in
  the archive. The refinement maps a read or a load to
  the abstract call when it returns, a write when its bytes reach the stream
  (its return is a stutter), a seek when it happens, everything else to a
  stutter.
* `FileListProofs`, for archives in which each depth has an entry
  (`Setting`): `Typing`, `Table`, `Skipping`, `Lookup` and `Listings`. The
  invariant says
  that the list is sorted, that the part of the table filled so far is right
  for the entries passed so far (no depth is jumped over, because depths are
  gap-free and sorted), and, during the search, that what lies left of the
  interval is below the key and what lies right of it above, and that the
  entries just outside agree with the key on `startL` and `startR`
  characters. `Sandwich` is the heart: what lies between two strings that
  share a prefix with the key shares it too. `Listings`, i.e. `ListingRight`,
  adds what has been listed so far (`Collected`) and, of the order, that paths
  with a common beginning lie side by side in one depth (`LessThrough`).
  ListDirectory finds where they begin by looking up the directory with a
  space behind it, so the theorem assumes (`Named`) that no path has a
  character below the space and that no entry of the directory is named by a
  single space: that one the search hits, and an interval of a hit is empty, so
  such a directory is listed as empty (FileListBinarySearch.h:170).
* `FileSystemProofs`, for any number of threads, any disk, any archives and
  requests (`PlacesAssumption`, `CallsAssumption`): `Typing`, i.e. `TypeOK`
  with the mutex and the iterators in it, and `ChangesStayInPlace`, i.e. the
  action property `StaysInPlace`. At most one thread mounts. The invariant says
  that a thread has the mutex exactly while it is in a loop (`Scanning`), how
  `Find` got where it is (`Passed`: no thread is in the loop over search paths
  for a location that search paths are not for), and that whatever `Find` has
  returned is, on the disk, at the location's own place or below something that
  was a search path since the call began (`Answered`, with `seen`). That is
  enough for what is done with an answer later, however much the search paths
  have changed by then.
* `LookupProofs`: `FindIsAtomic`, i.e. the refinement `LookupSpec`, for any
  number of threads that look up, push, pop, clear and mount, when the thread
  that changes the disk, if there is one, is the only one that looks anything
  up (`QuietDisk`, which the instance of `fs_calls` satisfies). It is needed:
  `Find` tests one candidate after the other with calls of the operating
  system, so what another thread creates at a candidate already passed is not
  true of any one instant. To the invariant it adds (`Seen`) that
  what a loop has passed does not match, now: the mutex keeps the vectors as
  they are for pushes and pops, and a mount turns the scan `torn`. The abstract
  lookup takes effect at the first check that hits, at the hit in the search
  paths, or, when there is none, when the loop over the search paths ends: from
  then on the answer is what the archives say, and a mount may change it.
* `MadeProofs`: `WhatIsMadeIsFound`, i.e. the action property `MadeIsFound`:
  what Open, Rename or CreateDirectory puts at a location is what that location
  then finds, for any disk, archives, requests and number of threads that
  push, pop, clear and mount meanwhile. It needs `QuietDisk`, as above, and
  that no search path lies below another where things are renamed (`Apart`): a
  directory moved to a place above a search path brings things along that are
  found there first. The code looks for the parent directory and puts the
  thing there; that nothing is found before it rests on the order of both
  lookups being the same and on a parent existing wherever the thing does
  (`Rooted`, an invariant of the disk). `Traced` says that what `Find`
  returned is the first match on the disk as it is now, if the search
  paths have not changed since the call began (`steady`).
* `NormalizePathProofs`, for paths of any length: `Buffer`, `Typing`,
  `ResultIsNormal` and `DepthIsOfText`, i.e. `InBuffer`, `TypeOK`,
  `AlwaysNormal` and `DepthOfText`, and `NameIsLast`. The last states of the text
  alone what `NameRight` says with the reference definition, for paths that
  became no shorter; the run checks `NameRight`. For the
  first the invariant is that `dstIt` is never below `srcIt`, and (`Place`)
  what was read last when `dstIt` is near the end: after a dot entry comes a
  slash or the beginning of the path, so two of them never move `dstIt` up in
  a row, and the one element past the end is reached only when the path ends
  in a dot entry. For the next two it adds what the written part looks like
  (`Scanned`: no two slashes in a row, no dot entry, and gaps only where a name
  can begin or nothing is, and what may come before it given what was read
  last), that
  packing keeps it (`Packing`, about the packed part and the rest taken
  together), and that it ends with a zero inside the buffer (`Packed`). The
  gaps are why this is not obvious: what meets when a removed name is closed
  up was never side by side while it was written. For the depth, `ScanDepth`
  says by how much the counter differs at each step from the slashes kept so
  far: by the names still to be skipped, less one if the slash before the
  next of them has been counted though it was not kept (`ToSkip`), and by one
  for dots at the end of the path (`Dots`); `PackDepth` carries it over the
  packing, with the slash at the end (`Lead`). So the depth that comes with a text is
  `Depth` of that text, which is what `FileList` is specified with. For the
  name, `Naming` says that `dst` points behind its beginning only after a
  packing, and that a packing shortens the path.
* `ZipRoundTripProofs`, for any number of entries, sizes of headers, contents
  and encodings, on any disk, `MemRefFile` or view: `EntriesInPlace`, i.e.
  `InPlace`. It is not inductive: while a call runs, its header is noted but
  not written. The invariant adds that the counted
  offset is the file's cursor once nothing is left to write (as long as no
  write was refused and the cursor has not passed `Limit`), and says, for the
  call that runs, which of its writes are done and which are in `todo`
  (`Stage`). The step that matters is that a write at the cursor leaves alone
  everything before it, in all three kinds of file, and that growing a buffer
  copies what was in it.
* `RoundTripProofs`, under the same assumptions: `Typing`,
  `WhatIsAddedIsFound` and `AllIsFoundOrNothing`, i.e. `TypeOK`, `RoundTrip`
  and `AllOrNothing`. On top of the invariant above, `RInv` says what was
  asked of the writer is what it noted (`Requested`), how far the destructor
  has come and what of the directory lies where (`Closing`), and, for the
  reader, that it stands at the entry it has counted to and has read the ones
  before right (`Reading`). Where each entry of the directory ends is a
  function that the invariant claims to exist (`Counted`), so no sum has to be
  defined by recursion. `WhatIsAddedIsFound` is about what a program gets:
  through `FindEntry`, for each path, when every depth has an entry (`GapFree`),
  with a mutex; without one it says that the stop is all that may go wrong. It
  allows archives in archives. All-or-nothing has three hypotheses. The file ends
  where the last write ended (`EndsThere`: in a view a write may be refused and
  a shorter one after it done, and what was there before lies behind). The
  offsets fit (`Fits`). And none of the sources stored as they are holds an end
  record (`Unmistakable`): without that it is false, as `zip_nested` shows. It
  rests on the record's last byte being the last that is ever written
  (`LastIsLast`), so a file that ends in a whole record has all of the archive
  before it; and, as the reader asks for a signature only, on the record's first
  byte being as far from the end as the record is long only when its last one is
  there (`FirstIsNear`). `Known` says that no other byte of the file can be taken
  for the record's, `Extent` where the file ends (a disk that refused something
  is full, so nothing is written after it), and `Left` what a program that
  stopped has left. `Trusted` is what the reader's part is proved from: an
  archive that is complete, or a file of which the three hypotheses hold.

The assumptions on constants, each evaluated by TLC in the run of its module:
what the program's paths are (`PathsAssumption`, `PlacesAssumption`,
`CharactersAssumption`, `SourcesAssumption`), which calls there are
(`CallsAssumption`, `ActorsAssumption`), the sizes and windows of an archive
(`SizesAssumption`, `LayoutAssumption`, `ModeAssumption`), what a writer is
given (`WriterAssumption`), that none of its files holds parts of an archive
yet (`MediaAssumption`: `kWrite` truncates, a new buffer has not been written,
a used one has other bytes), and that names have a normal form
(`NamesAssumption`: it follows from no definition here, as normal paths are
folds).

Only model-checked: that calls return and the scan ends (`CallsReturn`,
`Answered`, `Terminates`: liveness, and `ENABLED`, are out of the prover's
reach); the properties of section 5, which are violated;
`TextRight`, `DepthRight` and `NameRight` of `NormalizePath`. These three
compare it with a reference definition by entries made with folds, which are
recursive inside: what they compute for every input takes an
induction whose hypothesis is a parameter of the library's theorem, which no
installed prover can instantiate. `AlwaysNormal`, `DepthOfText` and
`NameOfText` (of `NormalizePathProofs`) say of the text alone what can be said without it, and are
proved; what they leave open is which names remain. Where an argument by induction is about sets
of numbers, the proofs take a least or greatest counterexample instead
(`LeastExists`, `Greatest`, `Least`).

## 5. Findings

Each is a run in which TLC finds a property that the documentation states
violated by what the code does.

1. `archive_eof`: `SubFile::ReadData` adds the request to a cursor that has
   already advanced, so it reports end-of-file for reads that got everything
   and are not at the end (SubFile.cpp:45, README.md:53); `WriteData` does it
   too, and reports a failure with it (line 60).
2. `list_gaps`: in an archive without entries for its directories, lookups
   miss entries or hit wrong ones (FileListBinarySearch.h:87).
3. `fs_places`: a location relative to the search paths is looked up in the
   current directory first, so with no search path pushed files are made,
   opened and removed there (FileSystem.cpp:102, Location.h:16). The property
   says the same of locations relative to the current directory, which are
   found in search paths (line 116, Location.h:15): with the calls of `fs_calls`
   that is what TLC shows.
4. `normalize_buffer`: for a path that ends in a dot entry the scan writes one
   element past a buffer that is as large as the source, which the header says
   is enough (FastPathNormalization.cpp:94, FastPathNormalization.h:17). The
   callers in the repository pass the buffer of a `std::string`, where that
   element is the terminator.
5. `zip_nested`: when an archive was stored in another and the outer one was cut
   off behind it, the inner record is taken for the outer one's, and what lies
   at its offset for headers, against an assertion (ZipArchive.cpp:84, 111).

The models contain further behaviour of this kind that has no run of its own;
each is listed under "hazards" at its line. The README opens an archive without
`lockable` and loads members of it, which locks a null mutex (File.cpp:98,
README.md:89). A listing of `test_folder` has what merely begins with that name
(FileListBinarySearch.h:179). After one refused write every read of every member
reports a failure (SubFile.cpp:59). `GetSize` of an archive's file moves the
stream under reads of other threads (StdFile.cpp:114). The position of the name
in a path that got shorter is wrong (FastPathNormalization.cpp:152).

## 6. What is not modelled, and what comes next

Not modelled:

* `VPKReader`. Its own promises are few: `OpenFile` changes the map of pak
  files without a lock (VpkArchive.cpp:123-133), and loading a member locks
  the reader's mutex while a window on the same stream locks the pak file's
  (VpkArchive.cpp:164), so nothing holds for two threads; for one, it is
  `SubFile` and `FileList` again. It adds no entries for directories, so what
  `list_gaps` shows applies to it; files of the root are stored as
  `/name.ext` (line 110); a pak that is missing stays a null file (line 132).
* The facade `Archive` (pure forwarding), `bfio`, `FileStream` and the
  shortcuts (no state of their own), `FileListHashMap.h` (nothing includes it),
  the paths of operating systems, decoders (data), empty source files.
* Of what is modelled: OpenArchive called twice on one reader, two first
  lookups of one `FileList` at once (OpenArchive has made the first before the
  reader is shared), two threads that mount at once, a crash of a lookup whose
  vector a mount reallocates, other programs changing the disk, and seeks on a handle
  that several threads share.
* Of `ZipWriter`: a writer on a file opened with `kAppendUpdate` or
  `kReadUpdate`; writes that fail once and succeed later; the 16-bit length of
  a name and number of entries, which the reader does not use;
  `CreateDirectory` of a path that has no names, which indexes an empty
  string (ZipArchive.cpp:479; `WriterAssumption` excludes it). The record is
  written field by field; the model takes its signature and the rest as two
  writes. Archives that others wrote are not read.

What `ZipRoundTrip` does not promise, because the code does not give it: the
content of a source whose cursor is not at its beginning (`AddFile` asks for the
size and reads from the cursor on, so the end is whatever the buffer holds), as
it is after a first read or an `AddFile` that failed; which of several entries
of one path is opened; anything about paths in an archive in which a depth has
no entry; an empty member packed with LZ4; what is left of an archive in a view
in which one write was refused and later ones were not; an archive that passes
`Limit`. What it leaves out: fields of headers, names or compressed data that
happen to have the signature of a record at the right distance from the end, and
sources that contain it without being archives.

What could come next:

1. `VPKReader` for one thread: parsing the directory tree, members with a
   preload part.
2. Proofs of `TextRight`, with a reference definition that needs no folds: for
   instance which entry of the source each name of the text comes from.
