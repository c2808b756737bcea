# WiiUFtpServer: specifications

TLA+ models of WiiUFtpServer (C, directory `src/` of the repository), the TLC
configurations that check them and the proofs that TLAPS checks. Source
positions below are relative to `src/`.

## 1. The system

WiiUFtpServer is an FTP server that runs as a homebrew application on a Wii U.
One thread, started by the loader (`main.c`, `__entry_menu`), initialises the
console, opens the IOSUHAX interface, mounts devices, creates the listening
socket and then loops: `process_ftp_events` (accept at most one connection, then
visit every connection slot once) and a look at the buttons. A file transfer
runs in a thread of its own, at most one per slot, on one of the three cores;
it shares its `connection_t` with the loop without a lock. Below the server are
a virtual file system whose folders are devices, a driver for the file systems
of the console (FSA, reached through IOSUHAX, the USB drive among them), and libfat
for the SD card.

| Component | State | Operations | Interacts with | Modelled |
|---|---|---|---|---|
| Event loop and connections, `ftp.c` | `connections[]`, `activeConnectionsNumber`, `activeTransfersNumber`, `clientIp`, `listener`, `passive_port` | `process_ftp_events`, the handlers with a data connection, `cleanup_ftp` | sockets through `net.c`, files through `vrt.c`, the transfer threads | partly |
| Control channel, `ftp.c` | `buf`, `offset`, `data_callback` of a slot | `process_control_events` | calls the handlers; held back by a data callback | yes |
| FTP session, `ftp.c` | `cwd`, `pending_rename`, `restart_marker`, `authenticated`; the password | `ftp_PASS` ... `ftp_SITE`, `secureAndSplitPath` | its own slot, the files | yes |
| Downloads, Uploads, `net.c` and the end of a transfer in `ftp.c` | `bytesTransferred`, `dataTransferOffset`, `f`, `transferBuffer` of a slot | `send_from_file`, `recv_to_file`, `network_write`, `network_readChunk`, `closeTransferredFile` | the loop polls the two counters and joins the thread | yes |
| Application, `main.c` | `fsaFd`, `mcp_hook_fd`, what is mounted | `__entry_menu` | owns the loop | yes |
| Console, `main.c` | lines, `displayLock` | `display` | called from every thread | yes |
| Virtual devices, `virtualpath.c` | `VIRTUAL_PARTITIONS`, one flag per device | `MountVirtualDevices`, `UnmountVirtualDevices` | libfat, the device table | partly |
| Virtual file system, `vrt.c` | none | `virtual_abspath`, `to_real_path`, `vrt_*` | the table of virtual devices | yes |
| libfat, `fat/` | sector cache; allocation table; files; directories | `cache.c`, `file_allocation_table.c`, `fatfile.c`, `directory.c`, `fatdir.c` | a disc interface; one mutex per partition | yes; the table partly |
| IOSUHAX device table, `iosuhax/iosuhax_devoptab.c` | slots of `devoptab_list`, open files, one mutex per device | newlib's `devoptab` calls, `mount_fs`, `unmount_fs` | requests to FSA (`iosuhax.c`) | yes; `iosuhax.c` partly |
| Socket wrappers, controllers, system libraries | | one call each, buttons, tables of imported symbols | | no |

What is hard in it:

* **Slots.** A connection is put into `connections[activeConnectionsNumber]`
  (`ftp.c:1903`): the number of clients is used as an index, which goes wrong
  as soon as clients leave in another order than they came.
* **Loop against threads.** The loop polls what a thread writes, resets it, frees
  what it uses, and blocks in `OSJoinThread` when the number it polls is not
  positive (`ftp.c:395`).
* **Callbacks.** A command installs a data callback; from then on the slot's
  control connection is not read until the callback ends, fails or times out, and
  pipelined lines have to wait in the buffer.
* **Paths.** Every handler cuts a path into folder and name and writes the folder
  into `cwd`; four of them build the real path in four ways.
* **Failure.** Every reply may fail; `prepare_data_connection` has five ways out;
  a transfer retries some errors, gives up on others; every request to FSA and to
  a disc may fail between two others that did not.
* **Positions.** libfat keeps a position as cluster, sector and byte, with a flag
  at the edge of a cluster; read, write, seek, append and extend each have to
  follow or link the next cluster, never too early and never too late, and other
  handles may shorten the chain meanwhile.
* **Directories** change while they are listed; a long name takes several slots
  and answers to an alias too.
* **Start and exit** acquire and release in many steps with `goto exit` between,
  and the exit does not wait for the transfers.

What makes each component correct is stated by the properties of section 3; the
hazards they are aimed at are listed in `PROJECT.json`, each at its line.

## 2. Modules

| Module | Models | State and actions |
|---|---|---|
| `FtpServer` (`MCFtpServer`) | `process_ftp_events`, the data connections, the transfer threads, `cleanup_ftp`, main loop | `pc`, `cur`: where the loop is; `conn`: the slots; `thread`: what each `transferThread` executes; `fds`: descriptors open in the network stack. One action per branch of `processConnections`, `process_control_events`, `process_data_events`, `transfer` and per command handler |
| `ControlChannel` | `process_control_events` for one client | the buffer as a sequence of bytes; `sent` is what the client has sent, `executed` the lines that were executed, by position |
| `VrtPath` | `vrt.c`'s scans and the path helpers of `ftp.c` | operators only: `SecureAndSplitPath`, `VirtualAbspath` (one fold of the scan), `ToRealPath`, and `Meant`, what a client means by a path |
| `FtpSession` (`MCFtpSession`) | the handlers, over `VrtPath` and a tree of files | `session`: what `connection_t` keeps between commands; `fs`: what is at each path. One action per command |
| `SendFile` | `send_from_file`, `network_write` | the block in flight (`from`, `bytes_read`, `sent`), the counters; `wire` is what the client has received |
| `RecvFile` | `recv_to_file`, `network_readChunk`, `fwrite` on a stream with a given buffer, `closeTransferredFile` | `mem` is `transferBuffer`, byte by byte, in which chunk and stream buffer overlap; `disk` is the file |
| `Transfer` | what a transfer's thread has in either direction | `pc`, `retryNumber`, `offset`, `result`; `SendFile` and `RecvFile` extend it |
| `Application` | `__entry_menu`, `MountVirtualDevices`, `create_server`, `cleanup_ftp`, `UnmountVirtualDevices` | one action per step that can fail; `FtpServer` is what happens at `step = "serve"` |
| `Console` | `display` | one action per step between which another caller may come |
| `FatCache` | `fat/cache.c` | `disc`, and per entry the page, its contents and its flag; one action per turn of a read or write loop, per failure, per flush, and the loss of power |
| `FatDisc` | what `FatCache` promises | one array of sectors, behind which the disc lags |
| `FatTable` | `fat/file_allocation_table.c`, the count in `partition.c` | `fat`, `firstFree`, `numberFree`; the wrap-around search, linking, freeing, trimming, as operators on them |
| `FatFile` (`MCFatFile`) | `fat/fatfile.c` over `FatTable` | `file`: the handles; `dir`: the entries; `op`: the call under way, of which each turn of a loop over clusters is an action |
| `FatTree` (`MCFatTree`) | `fat/directory.c`, `fat/fatdir.c` | `slots`: each directory as one sequence of slots; `iter`: the listing that is under way. One action per call |
| `FsDevice` (`MCFsDevice`) | `iosuhax/iosuhax_devoptab.c` | `slot`, `owner` (the mutexes), `file`, `opened` (FSA's handles), and per thread the call it is in. A call is an entry, a wait for the mutex, a step per request, and a return |
| `*Proofs` | | theorems, section 4 |

The modules compose by abstraction. `Application` sees the server as one state,
`step = "serve"`, whose inside is `FtpServer`. `FtpServer` sees a transfer as a
thread that moves blocks and ends (`ThreadMove`, `ThreadEnd`), which `SendFile`
and `RecvFile` detail; it sees the control connection as a sequence of
commands, which `ControlChannel` delivers; the commands that change nothing but
their own session are the actions of `FtpSession`, and `FtpServer` leaves them
out. `FtpSession` takes the files of the devices as a tree; below that,
`FsDevice` is the driver of the console's file systems, and for the SD card
`FatTree` keeps the entries, `FatFile` extends `FatTable` for the clusters of
what they name, and `FatCache`, shown to be an array of sectors (`FatDisc`),
is under both.

**What is abstracted.**

* Sockets are model values that the network stack hands out and takes back; the
  outcome of each call to it is a choice. Time is not counted: a timer may or may
  not have expired when it is read.
* A file's bytes are their positions in `SendFile` and `RecvFile`, and are left out in
  `FatFile`, where a transfer is where it happens on the disc and which bytes of
  the file it stands for. In `SendFile` `fread` returns the next bytes of the file:
  that the stream's buffer is `transferBuffer` is not modelled there, because the C
  library reads a request that is not smaller than the stream's buffer straight
  into the caller's array. In `RecvFile` the copy of `fwrite` into the stream's
  buffer is newlib's: a memory move of what fits, then a write when it is full.
* In `VrtPath` a string is a sequence of tokens: a slash, a dot, two dots or a name.
  Which names are one character long (`Short`) and which words occur within, at the
  start or at the end of another (`Inside`, `StartOf`, `EndOf`) is given, since `strlen`
  and `strstr` tell these apart. Names differ in more than case, and no path reaches
  `MAXPATHLEN`.
* `FtpSession` lets a new client take any slot, in use or not: which one it is is
  `FtpServer`'s. The file that `SITE CHMOD` changes is not modelled, what it frees is.
  Its files are a tree of at most two levels below a device (`Node`), with some folders
  there at the start (`Folders`); rename is libfat's. A folder that is renamed into
  itself is lost with what is in it. A device whose root is renamed (RNFR `..` in a
  folder of its first level) is no tree any more, and the model ends there (`down`).
* `FatTable`'s entries are clusters, `Free` or `Eof`: the three widths of the table are
  one function. The count on the disc is FAT32's. `FatFile`'s calls hold the
  partition's lock from start to end, so that one is under way at a time; the
  entry of a file is written at the points where the code writes it.
* `FatTree`'s names are opaque: each has its aliases in the order in which they are
  tried (`Alias`). Attributes, dates and the encoding of names are left out.
* `FsDevice`'s requests return anything FSA may return; what is in the files is
  FSA's. Two calls never use one file at a time. The program does not end there
  because it has nothing more to do, but the number of calls is bounded, the
  system stops once it uses freed memory, and a seek from nowhere leaves the device
  locked: for these three reasons its run does not look for deadlocks.
* Speed statistics, wording and layout are left out everywhere.

**Definitions marked "faulty"** are variants with one plausible mistake. They are
used by nothing; each shows that some property notices the mistake when it is put
in place of the definition it precedes.

## 3. Runs

The bounds are small because the interesting cases are: the table says which.

| Run | Bounds | States | Question |
|---|---|---|---|
| `ftp_safety` | 2 slots (the least for one to be overwritten), 4 descriptors (a control connection each and a passive and a data socket in one), 2 clients, `uint32_t` modulo 4; symmetric in descriptors and clients, which are used alike | 2.6 million | the bookkeeping of slots, descriptors, files and threads |
| `ftp_live` | 2 slots, 3 descriptors, 1 client, PASV and RETR, no symmetry | 260,000 | the loop keeps turning, data connections resolve |
| `control` | a buffer of 6 bytes (two commands fit), 8 bytes sent in any pieces | 1.2 million | lines in order and once, which wait only behind a transfer, and no "long line" but a long one |
| `send` | 5 bytes in blocks of 2 (two full and a short one), 2 retries | 2,500 | what the client has, what is counted and what is reported |
| `recv` | up to 7 bytes, chunks of 3, stream buffer of 4 (chunks end before, at and behind its end), 2 retries | 1,500 | the same for uploads |
| `session` | 2 slots, 1 device, 3 names of which one has one character and one begins another, two folders at the start, one in the other and of one name, 8 paths, 3 commands on paths among any number of logins; slots are alike | 310,000 | a login belongs to its client; a session stays where its client was told; handlers act on what was named |
| `application` | 2 USB ports, 2 connections | 61,000 | what was opened is closed, whatever fails |
| `cache` | 2 entries for 3 pages of 2 sectors, the last page cut by the end of the partition, binary contents | 47,000 | the cache implements `FatDisc` |
| `fat_file` | 3 clusters of 2 sectors of 2 bytes, 2 handles, 2 names, 6 calls with lengths within and beyond a cluster; handles and names are alike; stops at a conflict of two writers | 680,000 | one owner for each cluster, each byte at its place |
| `fat_tree` | 4 clusters of 3 slots, two long names of 2 slots that share their aliases, 5 calls | 110,000 | names apart, every directory in the tree, listings complete |
| `devices` | 2 threads, 3 devices for 2 slots, 2 files, 3 calls of requests of up to 2; symmetric | 1.3 million | the mutex, the handles, the positions and results of the driver |
| `console` | 2 callers, 2 lines a screen | (violation) | a finding |

Six calls in `fat_file` are what it takes to open and fill two files, shorten one
and write the other; five in `fat_tree` to fill a directory, remove from it and
grow it under a listing. Three commands in `session` are RNFR, one that moves
the session, and RNTO. Contents in `cache` are binary since only equality counts.

What the passing runs show, by property:

* `FtpServer`. `SlotsWithinCount`: `activeConnectionsNumber` may drift above the number
  of slots in use, never below. `DescriptorOwnership`, `NoDescriptorLeak`: no
  descriptor belongs to two slots, closing one connection closes nothing of
  another, none is lost, until a slot is given away in use (`clobbered`) or a
  failed bind leaves a closed number behind (`staleClose`). `ThreadHoldsTransfer`:
  a transfer thread has its file. `CrashCause`: nothing but the two known causes
  brings the program down. `LoopTurns`, `DataConnectionResolves`: liveness of the loop
  and of passive data connections.
* `ControlChannel`. `LinesInOrder`, `LineWaitsOnlyAfterTransfer`; `LongMeansLong`: the
  full buffer that closes a connection holds one unfinished line, never lines that
  were held back, and never cuts a transfer.
* `SendFile`. A download repeats but never skips, and counts (`CountedIsReceived`) and
  reports (`SuccessIsComplete`) what is true, but for the two cases that the
  property names (`gaveUp`, `emptyFault`).
* `RecvFile`. `BytesAccounted`, `OneChunkIntact`: the same for uploads, but for what a
  `recv` error drops (`lost`), what `fclose` loses (`closeError`) and chunks beyond the
  first.
* `FtpSession`. `OnlyProven`: no slot that is left or given away, and no REIN, hands
  a login on. `StaysWhereTold`: as long as a client names plain paths, no command,
  failing or not, moves its session, although every one rewrites `cwd`.
  `ActsWhereNamed`: the four ways of the handlers to build a real path give the one
  the client meant. `RenamesWhatWasNamed`: RNTO moves what RNFR named.
* `Application`. `NoMountOutlivesFsa`, `ReleasedAtReturn`, but for the USB drive and for the
  exit without devices.
* `FatCache`. `CleanIsStored`, `ImplementsDisc`: it reads as one array of sectors,
  through evictions, flushes, failures and loss of power, except for one page: a read
  that fails leaves its bytes, whatever they are, in the entry of the page it evicted.
  They are read as that page from then on and, when a later write makes it dirty, are
  flushed to the disc with it.
* `FatFile`. `OneOwner`: a cluster is free or belongs to one file or link, in the
  middle of a call too. `FreeCountExact`: the count kept beside the table.
  `TransfersInPlace`: every byte goes to the place the chain has for it, whatever
  runs and edges a call is cut into. `ChainFitsSize`. Excluded by name are files
  written by two handles or from a position that went astray (`conflict`; `astray`
  and `misled` are the handles with such a position), handles whose clusters
  somebody else gave back, what failed calls leave (`uneven`), and a chain that a
  full disc led behind the last cluster.
* `FatTree`. `NamesUnique`, `TreeIntact`, `ListingComplete` (a listing tells each entry
  that lasted once, whatever is added and removed meanwhile).
* `FsDevice`. `OneInside`, `HeldInside` (every way out of a call gives the mutex back),
  `HandlesAccounted`, `PositionTrue`, `ResultHonest`, `FreedOnlyInUse`.

**Finding** (a run that ends in a violation of a sentence of the repository):
`console`: `display` is called by the loop and by every transfer thread; its lock is
tested (`main.c:59`) and set in two steps, so that two callers may be inside and one
frees a line that the other draws. The comment at `main.c:56` says "thread safe".

**What the code does that a reader may not expect.** Each of these is in the models as
the code has it; where a property could not hold, it excludes the case by name.

* A client that closes an earlier connection and opens another one while a
  transfer runs resets the slot of that transfer, whose thread goes on with a
  NULL file (`ftp.c:1903`; README.md promises an end to crashes).
* The server stops when it *could* inform a client of an accept error
  (`ftp.c:1890`; the comment at 1892 says when it could not), and when a client
  hangs up before the greeting (`ftp.c:1907`). `clientIp` is never reset
  (`ftp.c:1896`): after the first client no other address is served.
* A download that lost a block goes on and is reported as successful (`net.c:325`,
  the comment above says that the connection is closed).
* An upload longer than one chunk is corrupted without an error, because the
  chunk is received into the stream's own buffer (`ftp.c:1554`; ChangeLog.txt says
  both that this fixes the CRC errors and that it was removed).
* The menu that is said to time out in 10 seconds does not (`main.c:301`).
* `activeTransfersNumber` is decremented for data connections that end before
  `transfer` has counted them (`ftp.c:411`). `volPath` is freed and not set to NULL
  (`ftp.c:423`). A failed `lseek` closes the file and leaves the pointer in the
  connection (`ftp.c:1475`), where the next RETR or STOR replaces it; no cleanup is
  installed that would close it again. `restart_marker` stays behind a RETR
  that succeeds (`ftp.c:1586`). The timer of a data connection adds microseconds to
  ticks (`ftp.c:1293`). SITE CHMOD in the root frees a literal (`ftp.c:1618`).
  `vrt_rename` ignores the result of `rename` (`vrt.c:321`).
* A path that occurs in the working folder is taken for that folder itself, and the
  command acts on it (`ftp.c:642`), parts of names included: in `/sd/games/games/`,
  RMD `games/game` removes the folder `/sd/games/games`. `VrtPath` has `strstr` with such parts, and
  the properties of `FtpSession` exclude what a client names that way (`Strays`).
* `fs_dev_seek_r` returns with the mutex when the direction is none of the three
  (`iosuhax_devoptab.c:243`), `fs_dev_fstat_r` passes the struct instead of the handle
  (`:365`), and mounting a device when no slot is left loses its mutex and volume
  (`:977`).
* In libfat, a file truncated under another handle leaves that one with clusters
  that may be somebody else's (`fatfile.c:281`), `mkdir` does not give its cluster back
  when its entry finds no place (`fatdir.c:425`), and a directory can be renamed into
  one below itself (`fatdir.c:310`).
* In libfat, a write that ends at the edge of a cluster in the middle of a file leaves
  the position there, as a flag that the next cluster is to be looked up
  (`fatfile.c:889`). A read of less than a sector from there transfers before it looks
  (`fatfile.c:468`): its bytes are those of the sector behind the cluster, although
  the comment at `fatfile.c:511` says that nothing is read if a cluster is due. It
  takes a handle that reads what it writes (r+, w+, a+), while this server's transfers
  use rb, wb and ab. The proof of `TransfersInPlace` found it: the property excludes that
  one read (`ReadAtFlag`), and a handle that such a read left behind counts as astray.

**Fairness.** `FtpServer`: the loop is a thread of its own that never waits but
in `OSJoinThread` (`WF` of `Main`); a client pauses between two commands sooner
or later, so that `recv` answers EAGAIN (`WF` of `ControlIdle`; without it a
client that never stops sending keeps `process_control_events` busy); a transfer
thread ends (`WF` of `ThreadEnd`): the code alone does not guarantee it, since
`network_readChunk` and `network_write` repeat on EAGAIN for ever, so
that this is an assumption on the peer: it goes on, or its connection breaks;
a passive connection that is looked at again and again after its deadline times
out (`SF` of `PassiveTimeout`; strong because a visit to the slot enables it
only for a moment). `SendFile` and `RecvFile`: the thread is scheduled. Nothing else
waits for anything but a mutex, and no liveness is claimed of it.

## 4. Proofs

The theorems hold for every value of the constants that the named assumptions
admit: any number of slots, descriptors and clients (`NBAssumption`,
`FdAssumption`, `ClientAssumption`, and `WAssumption`: the modulus of `uint32_t`
exceeds the number of slots), any buffer, file length, block size and number of
retries, any chunk smaller than the buffer, any number of pages and sectors, of
threads and devices, of sessions, passwords, names and paths.

* `FtpServerProofs`. `TypeCorrect` is inductive as it stands. `CountBoundsSlots`
  needs `CountInv`: besides the type, that a slot the loop waits on in `join` is in
  use (`JoinContext`), or closing it after the join would count down twice; the
  argument is about cardinalities: accepting adds one slot at most and counts
  one, `cleanup_connection` counts down only where it frees a slot.
  `TransfersKeepTheirFiles` is `TransferInv`: callback and thread imply each
  other's context and are only inductive together. `JoinsItsThread` is `JoinInv`:
  a callback that has started has a thread. `OnlyKnownCrashes` is `CrashInv`: as long as
  no slot was given away and the loop runs, every thread holds its transfer and
  no first call meets a running thread. `DescriptorsAreOwned` and `DescriptorsAreKept`
  are `SocketInv`: that the sockets of a slot are open and its own needs to know
  which of them are the same (`SlotSockets`: a passive connection that nobody has
  opened yet has its listening socket as data socket); one lemma (`SlotStep`)
  then covers every action that closes some sockets of one slot and opens others.
* `TransferProofs`, downloads. `TypeInv` adds to the type that the block lies in the file
  (`BlockInv`) and that the count stays behind it. `NoByteIsSkipped`: what the
  client has is closed downwards, since a block starts where the last one ended;
  `CalmDownloadIsTheFile` (`CalmInv`): the wire is the file's prefix;
  `CountIsHonest` (`CountInv`): the client has, of the blocks before the one in
  flight, at least as many bytes as are counted;
  `SuccessMeansComplete` (`EndInv`): success without an empty fault is reached at
  the end of the file only.
* `TransferProofs`, uploads. Lemmas on `Moved` and `Stream` (a memory move keeps the array's
  type; the stream takes the whole chunk) carry `UploadTypeCorrect` (with `Accounted`),
  `NoByteVanishes`, `LengthIsRight`; `SmallUploadsAreIntact` (`OneChunkInv`) follows the
  single chunk through the move, which is onto itself.
* `FtpServerProofs`, of `ControlChannel`. `ChannelTypeCorrect`; `StreamInv` (type and `BufferIsStream`) is inductive only as
  a whole: that a line lies in what was sent needs the position of the buffer in
  it. A lemma on pieces of sequences carries the two steps that move bytes, `Read`
  and `Compact`. `WaitInv` says when a complete line may be in the buffer at the
  head of the loop: only behind a transfer, whose own line has made room; this is
  why a full buffer never holds one, nor is full during a transfer (`TooLongIsHonest`,
  `OnlyTransfersDelayLines`). `LinesAreExecuted` is `OrderInv`: the next
  line (`Here`, by its place in what was sent) begins where the text or a line
  begins, and behind all that was executed. Line ends do not overlap (`CrlfApart`), so
  the only line that ends between `Here` and the first end behind it is the one
  that is executed (`OneLine`, `LineHere`), and a byte that arrives ends no line before
  `Here` (`NoneBefore`).
* `FtpSessionProofs`. `LoginsAreProven` is `LoginInv`: the property and that every slot
  keeps its five fields, whatever folders and names the paths lead to. The other
  theorems are about paths of any length, sequences of tokens of which no two names
  are neighbours (`SessionAssumption`), and rest on what three folds make of them:
  `Walk` (where a client means a path to lead), `Gather` (`to_real_path`) and `Scanned`
  (`virtual_abspath`). The library defines a fold by recursion over sets of indices;
  `FoldExists` and `FoldPrefix` prove by induction (`UpFromZero`) that such a function
  exists and depends on the prefix only, which gives `FoldSteps`, the fold of a sequence by its
  last element, and `SeqUp`, induction over sequences. The invariant of the scan is
  `Kept`: what is written so far is a folder with single slashes (`Tidy`) that leads
  where the path read so far leads, except for the last component, which the state
  of the scan still holds back. `AbspathIs` and `RealPathIs` are what the scan gives in the
  end: the folder the client meant. `SplitIs` says of `secureAndSplitPath` that folder and name
  lead together where the path does; the cases in which they do not are those in
  which a path strays. With these, `PathInv` is inductive: every `cwd` is a
  folder that leads where its client was told, and a pending rename is read, from the
  folder it was asked in, as what RNFR named. `SessionsStay`, `HandlersAgree` and
  `RenamesAgree` follow. `TypeCorrect` adds that nothing is left outside a folder (`FsOK`),
  for which `MoveKeeps` and `LostKeeps` have the arguments: below its new name, each path
  has the parent that its old one had; a folder renamed into itself leaves nothing of
  what was below it. It says nothing of a device once its root was renamed.
* `FtpServerProofs`, of `Application`. `AppTypeCorrect`; what is open and mounted
  follows from the place that `__entry_menu` has reached (`PlaceInv`):
  `MountsEndFirst`, `AllIsGivenBack`.
* `FatCacheProofs`. `Inv`: pages are aligned, hence the same or disjoint; none is in two
  entries; a clean one is what the disc has. With it, what cache and disc stand
  for together is a function of the state that reads leave alone, writes change in
  one sector, and flushes and evictions leave alone: `CacheImplementsDisc` maps every
  step of the cache to a step of `FatDisc` or to none, action by action.
* `FatFileProofs`, for every size of disc, cluster, sector and file and any number of
  handles, names and calls. `TypeCorrect` is `TypeInv`: a file without a first cluster
  is empty, and each kind of call under way has its own bounds on what it has left
  (`CallOK`), or its loops would count below zero. `FileInvariance` is the invariant of
  the chains. It cannot speak of reachability, which takes induction along a
  chain, so `place` records of each cluster for whom and as which of its clusters
  it was taken: a link goes to the next rank of the same name and two links never
  meet (`Links`), a first cluster has rank 0 (`Heads`), an entry and its writer agree on
  it (`OneWriter`), each cluster in use has an owner (`Kept`), positions that are
  trusted and all that a call under way holds are on the chain of its file
  (`Spots`, `CallOn`), and what `clearLinks` is about to free has been cut off before:
  nothing leads to it and no trusted position is behind it (`Clears`). There is one lemma per
  action. `EveryClusterHasOneOwner` follows from it; `FreeClustersAreCounted`
  adds the count, which changes with one cluster at a time.
* `FatPlaceProofs`, of `FatFile` too: where bytes go and how long chains are.
  `EveryTransferIsInPlace` and `EveryChainFitsItsSize` speak of the n-th cluster of a
  chain. A chain is taken as a path through the table (`Reaches`), and as one that
  ends after k clusters (`Tight`); that links which stay keep a path, and that an
  allocation lengthens one chain by one cluster, are lemmas by induction over the
  length (`UpFromZero`), and `LinksKeep`, `EndsKeep` and `AdvanceStands` are all that the
  actions need of the table. `PlaceInv`, inductive together with `FileInv`, has five parts.
  `HandleFits`: a file that is written has the clusters for its size and its entry
  tells them or will be written; one that is only read has its writer's chain, long
  enough for what it expects; read and append positions are where the chain has the
  byte they count, be it at the flag behind a full cluster. `EntryFits`: the same
  of the names nobody writes. `CallFits`: for each loop of each call, what is left to
  walk, to fill, to read or to write from where it stands, and the run of clusters
  gathered so far (`GroupAt`). `IoFits`: the transfers of the last step. `Firm`: only
  readers lose their chain to somebody else. `FileInv` does not suffice: it says that a position
  is on the chain of its file, not how far along, and says nothing of sizes, so
  that a `_FAT_write_r` that begins one cluster too early would keep it. What is excused is what
  the properties excuse: names that a failed call left `uneven`, handles left
  behind (`astray`) or without their chain (`loose`), and the read at the flag. There is one
  lemma per action (`PlaceOf...`).
* `FatTreeProofs`, for every size of disc and cluster, length of long entries, set of names
  and aliases and number of calls. The assumptions are that no name is "." or ".." and
  that any cluster can become the first of a directory, so that `mkdir`
  finds one when a cluster is free. `Invariance` is `IInv`, in four layers. `DirInv`: each
  directory is readable and no two of its entries answer to one name; the lemmas
  `AddedEntry`, `GrownDirectory` and `RemovedEntry` say of the three writes that they change the
  entries by one or none, which is where it matters that a gap lies between whole entries
  (`GapFound`, `Written`) and that a name and an alias are looked for among both
  (`AliasGiven`). `CountInv`: free, file and directory clusters add up to the disc, where
  one set of pairs stands for the sum. `TreeInv`: every directory that can be reached
  hangs in one directory by one entry (`HangsIn`), no entry leads to the root or to a
  cluster that is no directory, and what cannot be reached is recorded as lost. Being
  reached is being in every closed set, so that it needs no induction: `LeafAdded`,
  `LeafRemoved`, `Moved` and `NoCycle` are facts about graphs and carry `mkdir`, `rmdir` and
  the two kinds of `rename`; that a directory moved below itself is lost with all
  below it, and no other one is, is `Moved`. `ListInv`: each entry that lasts stands in
  a slot that the listing has told exactly if it lies before the entry read ahead
  (`Stands`); that names are apart makes this entry the only one of its kind.
  `TypeCorrect`, `NamesStayUnique`, `TreeStaysIntact` and `ListingsComplete` follow.
* `FsDeviceProofs`. `Inv`: which device, file and mutex a call has at each of its steps
  (`CallInv`, `FileInv`, `MutexInv`), from which `MutualExclusion` and `MutexGivenBack`
  follow; and for each of the other properties an invariant over it: what is in
  flight between two requests (`Positions`, `Results`), who was inside when a device
  was freed (`FreedDevices`), where each of FSA's handles is (`Accounted`).

**Only model-checked**: liveness (`LoopTurns`, `DataConnectionResolves`, `Terminates`,
`UploadEnds`), which is beyond the prover. Every invariant and every property of steps that a
run checks is stated by a theorem. `PlaceInv` quantifies over paths of any length and is not
evaluated by TLC; what it gives, `TransfersInPlace` and `ChainFitsSize`, is.

## 5. Not modelled

* Socket wrappers, `disc.c`, `lock.c`, `libfat.c`, controllers: one call each, whose outcomes the
  callers' actions choose. `filetime.c`, import tables and the heap wrapper have no
  behaviour of their own.
* The IOSUHAX client beyond what `FsDevice` sees of it: marshalling of requests.
* Of the event loop, the commands that only answer, and those that `FtpSession` has.
* Of `virtualpath.c`, the order of the table (entries are always removed by name) and
  the texts shown for each device.
* Of `partition.c`, reading a partition's geometry, which is data.
* Loss of power in `FatFile` and `FatTree`: `FatCache` says which sectors the disc has
  then, and libfat makes no promise about the order in which they get there.
