# rs9p in TLA+

A verification development of rs9p, a Rust library that serves a file system
over 9P2000.L (`src/crates/rs9p`), and of unpfs, the file server built with it
(`src/crates/unpfs`). The modules model the listeners, the connection and its
fid table, the wire format, and unpfs: its name space, file I/O, directory
reading and attributes. TLC checks small instances; TLAPS proves the main
theorems about the connection, the listeners, the name space, file I/O, the scan
of a directory and `rsetattr` for any number of tags, fids, servers, requests and
files, and about the wire format for messages of any length. Paths without a directory below are in `src/crates/rs9p/src`
(`srv.rs`, `fcall.rs`, `serialize.rs`, `lib.rs`), `src/crates/unpfs/src`
(`main.rs`, `utils.rs`) or `src/docs` (`filesystem-trait-guide.md`).

## The system

| Part | State | Operations | What is hard |
|---|---|---|---|
| Listeners, `srv_async*` (srv.rs:790-885) | the listening socket, the socket file | accept, spawn a `dispatch` for each connection | an error of accept, a socket file left behind |
| Connection, `dispatch` (srv.rs:721-788) | the reader loop, the writer behind a `Mutex`, one task per message | read a frame, decode it, spawn; encode and send the reply | replies in any order, replies that are lost, a loop that ends while tasks run |
| Fid table, `dispatch_once` (srv.rs:652-719) | a `HashMap` of fids behind a tokio `RwLock` | look up under the read guard, run the method, then insert or remove under the write guard | two separate guards around one change; a read guard held across a method; the fairness of the lock |
| `Filesystem` trait (srv.rs:75-648) | one `FId::aux` per fid | 29 methods, ENOTSUPP by default | a method may end in any way at any time |
| Messages (fcall.rs) | - | the types, which fids a message uses and makes | - |
| Wire format (serialize.rs) | - | `read_msg`, `write_msg` and the `Encodable` and `Decodable` of each type | two lists of fields kept in step by hand, counts, lengths that wrap, short input |
| Errors (error.rs) | - | errno of an `io::Error` | a table, no behaviour |
| unpfs, fids and name space (main.rs:51-162, 266-314, 342-427) | per fid a path, a depth and an open file; the tree of the host | attach, walk, open, create, mkdir, rename, unlink, clunk | a method is several system calls by path, with other requests in between |
| unpfs, file I/O (main.rs:316-340, 397-407) | per fid a `tokio::fs::File` behind a `Mutex` | read, write, fsync | seek and write are two awaits; tokio writes in the background |
| unpfs, `rreaddir` (main.rs:237-264) and `rsetattr` (main.rs:164-224) | - | list by position; up to five system calls | a directory that changes between pages; failure in the middle |

A listener makes a connection; `dispatch` reads messages and gives each to a task;
the task calls `dispatch_once`, which finds the fids in the table and calls a
method of the file system; the method works on the `aux` of its fids under locks
of their own and on the host. Tasks of one connection share the table, the `aux`
of the fids and the writer; connections share only the file system.

## Modules

| Module | Models | Built on |
|---|---|---|
| `Protocol` | what `dispatch_once` sees of a message: fids used, made, clunked | |
| `Session` | `dispatch` and `dispatch_once`, the two locks, the client | `Protocol` |
| `FidService` | the abstract specification: a table of fids on which a request takes effect at once | `Protocol` |
| `SessionProps` | the properties, the inductive invariant, the refinement mapping | `Session`, instance of `FidService` |
| `SessionProofs` | proofs | `SessionProps`, `FoldFacts` |
| `Layout` | the fields of every message, once as encoded and once as decoded | |
| `Codec` | `write_msg`, a stream that may be cut, `read_msg` | `Layout` |
| `CodecProofs` | proofs | `Codec`, `FoldFacts` |
| `HostTree` | external: the directory tree, path resolution, rename(2) | |
| `Unpfs` | the fids of unpfs and the methods that change them or the tree | `HostTree` |
| `FoldFacts` | proofs: induction over numbers and sequences, what a fold computes, queues | |
| `UnpfsProofs` | proofs, first about the tree of `HostTree` | `Unpfs`, `FoldFacts` |
| `UnpfsFile` | rread, rwrite, rfsync over `tokio::fs::File` | |
| `UnpfsFileProofs` | proofs | `UnpfsFile`, `FoldFacts` |
| `ReadDir` | rreaddir: a client that reads a directory page by page while it changes | |
| `ReadDirProofs` | proofs | `ReadDir`, `FoldFacts` |
| `UnpfsAttr` | rsetattr: its system calls between those of another request, reads and writes | |
| `UnpfsAttrProofs` | proofs | `UnpfsAttr` |
| `Listener` | `srv_async`, `srv_async_tcp`, `srv_async_unix`, `DeleteOnDrop`, the end of the process | |
| `ListenerProofs` | proofs | `Listener` |
| `MCSession`, `MCCodec`, `MCUnpfs`, `MCUnpfsFile`, `MCReadDir`, `MCUnpfsAttr`, `MCListener` | constants and symmetry for TLC | the module of the same name |

Operators after a comment `Mutant:` are plausible wrong versions of
the definition below them; they are used by nothing in the specification and
exist so that each property can be shown to notice one.

### Session

`pc[t]` is how far the task of the request with tag `t` has come, `fids` the keys
of the table, `lockQ` the queue of the `RwLock`, `sendQ` that of the writer,
`reader` the loop of `dispatch`, `view` the fids the replies give the client.

| Stage | Code |
|---|---|
| `spawned` | the message is decoded, `tokio::spawn` (srv.rs:744-754) |
| `readWait`, `reading` | `fsfids.read().await`, the lookup (668-702) |
| `calling` | `fut.await` under the read guard (704) |
| `unlocked`, `writeWait`, `writing` | the guard is dropped, `fsfids.write().await`, `insert` or `remove` (707-716) |
| `replying`, `sending` | the reply, `framedwrite.lock().await`, `send` (762-780) |
| `silent` | the task returned without a reply (762, 769-780) |

A method is its outcome: a reply, a reply the frame codec refuses, a message that
is no reply, an error, or a panic, which ends the task alone (srv.rs:754), drops
the read guard and leaves the table and the client as they are. The tokio `RwLock` is external: one queue, served in
order, which is what its documentation promises. `Disciplined` is the client that
does not use a fid before the reply to the request that makes or clunks it, as
the Linux client does; without it, the client sends anything at any time.
`Awaits` says that a method of one type returns only after one of another type
(a read of an empty pipe and the write that fills it). A new fid is shared by no
one until it is in the table, and the value in the table is not modelled, only
the key.

### Codec

A byte is a digit of base `Base` = 4, so that a length of two bytes wraps at 16
and a count of four at 256: every length the code treats in a different way is
within reach. A field of a message has a kind, `Layout` gives the kinds of each
message, and `Encode` and `Decode` treat kinds the way the implementations for
`u8` to `u64`, `String`, `Vec`, `Data` and `DirEntryData` do. The type byte and
the names of the mask bits are abstracted; a mask keeps the bits below `Known`.
That a string is UTF-8 is left out, since what is written is a `String`.

A decoder is a cursor over the body (`Reader`: the bytes, the position, the
values read so far), or is `Stuck` after an error, which is what `?` makes of the
first one. What runs over fields, items or bytes is a recursive function of how
many are done. `IsMessage` gives the messages, values of the types of fcall.rs,
with one restriction: four bytes count the data and the entries of a frame, since
four bytes count the frame. `SamplesAssumption` says that what is sent is one.

### Unpfs

`tree` is the tree of the host as a set of links from a directory by a name to
an inode, `fids[f]` is a `UnpfsFId`, `op[t]` a running method with its locals. An
action is a method up to an await at which other requests matter, or from one to
the next: `rwalk` reads the path and the depth of the fid (main.rs:96-107),
`rwalk_next` is a turn of the loop (109-137), `rlopen` the first `get_qid`
(266-273) and `rlopen_open` the open (274-285), `rlcreate` the open (287-301) and
`created_qid`, `rlcreate_path` and `rlcreate_file` what follows, one after the
other. `Reply` also does what `dispatch_once` does to the table after the method:
`ConnectionIsLinearizable` below says that a client that waits for the replies it
depends on cannot tell. The client here is that client, and it has one request at a
time that changes a fid (open, create, clunk, or make anew), and none that uses
it meanwhile. The guide allows a client to do otherwise ("Same fid may be accessed
from different tasks", filesystem-trait-guide.md:165); two such requests would set
the path and the `File` of one fid across one another (main.rs:304-313), which is
not in the model.

The history variables `moved` and the fields `made`, `stirred` and `changed` are
read by the properties only.

A path is a sequence of names of entries, "." and ".."; the names a client gives
to create, rename and unlink are those of entries, never the dots. `Above` is what
is above an inode, the least set that has it and is closed under the links
upwards: rename(2) refuses to move a directory into itself, and what a rename does
to the paths of others depends on it.

`Root` is the "/" of the host, which is its own parent. The export is the directory
at `realroot`, anywhere below it (or "/" itself): every path of a fid begins with
`realroot`, as in the code (main.rs:76-90, 111-123), and is resolved from "/", so a
walk that has more ".." than names leads above the export, and on from there to
whatever the host has. A request that got there may rename or remove the export
itself, after which rattach fails. An open of a directory for writing fails, and
one for reading does not. O_TRUNC is left out, as the tree has no contents. There are no
symbolic links, no hard links (rlink and rsymlink are not implemented by unpfs),
no names with "/" in them, and no errors but those that follow from the tree:
permissions and I/O errors are left out. Nothing but the server changes the tree;
other connections are other tasks.

### UnpfsFile

One file of blocks, each fid with a `File` of its own: position, write under way,
error kept. The tokio `File` is external, modelled from version 1.48: `write`
copies the data, starts the write in the background and answers; `seek` and
`sync_all` wait for a write under way and keep its error; the next `write`
reports it; a `File` that is dropped leaves its write running. The mutex is a
queue. `rlopen` of a fid that is open puts a new `File` in the place of the old
one, which is dropped; a request that is at the mutex meanwhile is left out, as in
`Unpfs`. A block holds the number of the write it was last written by.

### ReadDir

`dir` is the directory, `op` the rreaddir that is running: `left` the entries
`skip` has still to pass, `i` and `data` the locals of the loop, `buf`, `cursor`
and `remain` the `tokio::fs::ReadDir`, which reads as many entries ahead as it
likes (external, like the order of the listing: `buf` is a set, and the next
entry its least). `pos` and `got` are what the
client has: it takes a page whole or its first few entries and
gives back the offset of the last one it took, 0 if that is "."; it takes an
empty page for the end, and asks again after an error. The
directory is not removed during the scan.

| Action | Code |
|---|---|
| `rreaddir` | the dots, `fs::read_dir(..).skip(offset)` (main.rs:237-251) |
| `skip_next`, `list_next`, `list_end` | `entries.next().await`, in `skip` and in the loop (254-261) |
| `Reply` | the reply and what the client makes of it |
| `MakeEntry`, `RemoveEntry` | any other request that changes the directory |

### UnpfsAttr

An attribute holds who gave it its value, so that a property can say whose value
is there. `op[t].at` is the system call that is next: `set_permissions`, `chown`,
open and `set_len`, `metadata`, `set_file_times` (main.rs:175-221). A call is
passed over (`Passes`), done, or fails (`FailsAt`), and `set_times` may fail
without telling. The mask has all nine bits of `SetAttrMask` (fcall.rs:268-278):
`ATIME`, `MTIME` and `CTIME` too, which the code never looks at. `landed` and `refused` are history. The path of the fid denotes
one file all the time; what a rename in between does is the same as in `Unpfs`.

### Listener

A member of `Servers` is one process from its start to its exit, so a restart is
another member. `file` is the server whose listener the socket file belongs to,
`conn` where each connection is: in the backlog (`queued`), with a `dispatch`
(`open`), ended by its own client or messages (`closed`), or cut off (`lost`).
`closing` is `srv_async_unix` between its loop and the drop of `DeleteOnDrop`
(srv.rs:866-868), whose `remove_file` may fail and leave the file with a warning
(837-847: `kept`), `returned` is `main` before `std::process::exit` (main.rs:479).
A kill, an operator who removes the file and the clients are external.

## Runs

| Run | Instance | Question |
|---|---|---|
| `session_client` | 3 tags, 2 fids, all kinds of message and outcome, disciplined client | Does what the client knows agree with the table (`ViewAgrees`)? Is it ever told EBADF of a fid it has (`NoUnjustEBADF`)? Does only a success change the table (`TableChangesOnSuccess`)? Can some task always go on, after errors, panics and lost replies too (`NoStandstill`)? Is the connection a `FidService` (`Linearizable`)? |
| `session_live` | 3 tags, 1 fid, any client, fair | Do the fids of a running method stay in the table (`OperandsStayBound`), with the FIds they had (`OperandsNotReplaced`)? Is every message dealt with although later ones keep coming (`EveryTaskEnds`)? Do the tasks run out after the loop (`Drains`)? |
| `session_pipe` | finding | `MethodsRunConcurrently` |
| `codec` | every message type with 4 samples each, every cut | Is what is read what was written (`RoundTrip`), is a short frame an error (`CutIsAnError`), does the count of an RReadDir count its bytes (`ReadDirCountsBytes`), and is an RReadDir read as itself or not at all (`ReadDirNeverOther`)? |
| `unpfs` | 2 requests, 2 fids, 2 names, "/" with the export in it and one inode more, paths of 3, 9 walks, max_depth 1 | Is the depth in step with the path, above the export too (`DepthBounds`)? Do path and open file of a fid agree (`HandleNeverOther`)? Are qids those of the file (`QidIsFile`)? Does a request that fails after it changed the tree only do so when disturbed (`ErrorAfterChange`)? |
| `unpfs_walk` | finding | `WalkRepresents` |
| `unpfs_file` | 2 requests, 2 fids, 2 blocks, 2 writes | Do writes go where they were asked to (`WritesLand`)? Does a fid read its own writes (`ReadsOwnWrites`)? Does rfsync wait (`FsyncWaits`)? Is a background error told (`FailureIsTold`)? |
| `unpfs_fsync` | finding | `FsyncMeansWritten` |
| `readdir` | up to 4 entries, one with a long name, 4 counts, 2 changes, fair | Is every entry seen that was there all the time, if none was removed (`NothingMissed`)? Is none given twice, if none was made (`NothingTwice`)? Does a page fail only for an entry that went away (`FailureIsDue`)? Do the entries of a page keep to count (`EntriesFit`)? Does the client come to an empty page, unless it stops after "." again and again (`ScanEnds`)? |
| `readdir_count` | finding | `PageWithinCount` |
| `unpfs_attr` | 2 requests, the 47 masks of at most two of the nine bits or all | Does a success show (`AskedShows`)? Is the rest left alone (`OnlyAsked`)? Does an error end the calls where they are (`InOrder`)? Is a change of a time undone only where the other time was asked for (`TimeComesBack`)? |
| `listener` | 3 processes, 2 connections, either protocol, fair | Can a server that serves be reached (`ServingIsReached`)? Is a stale file left only by a kill or by a drop that could not remove it (`StaleIsDue`)? Are connections independent of one another (`LostWithServer`)? Is one that waits accepted (`QueuedIsServed`)? |

### Bounds

- Session: three tags give a reader and a writer in the queue with a third task
  inside the lock, which is where the fairness of the lock and the pipe matter.
  Two fids give requests that meet on one and requests that do not; the fair run
  has one, where all meet, and the properties it shares with no other run are
  proved for any number and any client.
- Codec: 0, 1 and 2 items, strings of 0, 2, 15 and 16 bytes: the last is the
  first length that wraps. `RoundTrip` and `CutIsAnError` are limited to lengths that fit.
- Unpfs: `MaxPath` bounds the components of a path from "/"; the first is the name of the
  export, and two more are enough for something in it, both kinds of dots, and a walk
  out of it to "/" and to what else is there. The inodes are "/", the export and one
  more, which is a file or directory in the export or beside it, is moved from
  the one to the other and is used again; the export itself can be renamed and,
  when it is empty, removed or replaced. A host without an unused inode is full, an error of the
  code's own kind. `max_depth` 1 has walks the limit refuses. What two
  directories below the export add is in the proofs.
- UnpfsFile: `MaxWrites` bounds the acknowledged writes. Two give a write under
  way beside another, from one fid or two, and one that follows a failed one.
- ReadDir: the counts have room for no entry, one, the dots with a short or a long
  one, and all. Four entries give a page that ends before, at and after a long
  name, `MaxChanges` = 2 an entry made and one removed on either side of the page.
- UnpfsAttr: a pair of bits is a pair of steps, of one request or of two, which is
  what the steps have to do with one another; the full mask has them all. Reads
  and writes are not bounded.
- Listener: three processes give one that ends, one that fails to start or takes
  over, and one after a kill; two connections one that lasts and one that waits.

### Fairness

`session_live` and `session_pipe` assume `WF_vars(TaskStep(t))` for each task:
tokio polls a task again once it can go on, a method comes to an end, and `send`
comes to an end with success or an error: so a client reads its replies or goes
away (one that does neither stops the writer, srv.rs:776, and all tasks behind it).
A method comes to an end by a panic too. The client need not send anything, and
nothing else is assumed of it. In `session_pipe` a method that waits is not able to go on, so
fairness does not ask it to. `Grant` is part of `TaskStep`: a lock that is free
is handed to the head of the queue. `readdir` assumes `WF_vars(Scan)`: the server answers and the client
goes on until it has an empty page. That is not enough for an end where the client
stops after ".", as its offset is 0 and the scan begins anew (main.rs:241), which `ScanEnds`
says; nor is the empty page always the end, as it is also the answer to a count
below the size of one entry. `listener` assumes that a loop whose `accept`
is ready takes a connection and that a loop that was left drops its listener; it
assumes nothing of clients, and a process may be killed at any time.

Deadlock is checked in all passing runs but `codec`, where a message that was
read is the end. `session_pipe` may stop, which is its finding.

### Findings

- `MethodsRunConcurrently` (srv.rs:668): the read guard is held across the
  method, and a waiting writer holds back all later requests, so a method that
  waits for a later request is never woken; the guide says "Multiple methods may
  run concurrently" (filesystem-trait-guide.md:164).
- `PageWithinCount` (main.rs:241): the dots are in the first page whatever its
  count is; srv.rs:346 says "Maximum number of bytes to return". `EntriesFit` says
  what does hold: a page with an entry in it has no more than count bytes.
- `WalkRepresents` (main.rs:131): a walk that ends half way succeeds, and newfid
  is the path of the component that is not there; srv.rs:548 says newfid
  represents the final destination.
- `FsyncMeansWritten` (main.rs:402): a write that failed after its RWrite does
  not make the rfsync fail that follows it; srv.rs:356 says all modified data is
  written.

Read in the code while modelling, and not the subject of a run:

- A fid stays in the table after a TRemove that succeeded (srv.rs:708); srv.rs:614
  says "Remove a file and clunk the fid".
- A walk with more ".." than names leads above the export, and its depth stays 0
  (main.rs:107-123); the guide asks to "Handle `.` and `..` specially"
  (filesystem-trait-guide.md:280). `DepthBounds` says what the depth is worth then: a
  fid is at no place less deep in the host than its depth, and no deeper below the
  export than its depth and what rlcreate appended.
- rlcreate takes a fid deeper and leaves its depth (main.rs:306), so `max_depth`
  (main.rs:47-49) bounds what a walk adds and not the path. `DepthBounds` says by
  how much the two may differ.
- rsetattr looks at ATIME_SET and MTIME_SET only (main.rs:203); fcall.rs:261-262 says
  that ATIME and MTIME alone set the time of the server. `OnlyAsked` shows that
  they change nothing, and the answer is RSetAttr.
- A failed `set_file_times` is not told (main.rs:217), and a set-user-ID bit set by
  a request may be gone after its own change of owner or length (main.rs:175-189):
  `AskedShows` names both as its exceptions.
- The entry "." carries offset 0 (main.rs:241), and the guide tells the client to
  "use previous entry's offset for continuation" (filesystem-trait-guide.md:414): a
  client that stops after it starts over, for ever if its buffer takes one entry.
  `ScanEnds` names it. Its qid is that of the working directory of the server.
- The decoder takes the byte count of an RReadDir for a number of entries
  (serialize.rs:622-631), against what the encoder writes: `ReadDirIsReadOnlyEmpty`
  proves that with an entry in it an RReadDir is always an error, and without one it is
  read. Only a client built with the crate decodes one.
- A String or Vec of 65536 or more is written with a length that wraps
  (serialize.rs:172): `RoundTrip` and `CutIsAnError` are about lengths that fit.

## Proofs

### Session

The theorems hold for every set of tags, fids and types, every choice of
outcomes and of methods that await one another. They assume what the ASSUMEs of
`Protocol` and `Session` say of the constants, and, where stated, `Disciplined`.

| Theorem | States | Argument |
|---|---|---|
| `Typing` | `TypeOK` | inductive |
| `OperandsBound` | `OperandsStayBound` | with `WriterAlone`: a task writes the table only when no task reads it, so no `Apply` comes between a lookup and the end of the method |
| `OperandsKept` | `OperandsNotReplaced` | as before: the task of an `Apply` is alone with the table |
| `TableChanges` | `TableChangesOnSuccess` | with `StageResult`: a task between the method and the write has a result, and it is no error |
| `ViewIsRight` | `ViewAgrees`, disciplined client | `ClientInv` |
| `EBADFIsJust` | `NoUnjustEBADF`, disciplined client | `ClientInv` at the lookup |
| `NeverStandsStill` | `NoStandstill` | `Queued`: who waits for a lock is in its queue, once, and nobody else is |
| `ConnectionIsLinearizable` | `Spec => Service!Spec`, disciplined client | `ClientInv` and one step for each action |

`ViewAgrees` is not inductive: that the table will agree with the view once the
reply is sent depends on no other request having touched the fid since the
change. `ClientInv` adds what each stage knows of its result (`StageResult`), that
no two unanswered requests meet on a fid one of them changes (`Exclusive`, which
is what the discipline of the client buys), that a change which was valid at the
lookup is valid when it is made (`StaysValid`: the gap between the two guards) and
that it is there until it is answered (`TookEffect`). A request takes effect, in
the sense of `FidService`, in `Apply` if it changes the table and in
`MethodReturns` otherwise; a failure in `LookupFails` or `MethodReturns`; waiting
for locks and being handed them is invisible.

`NoStandstill` is what the deadlock check of the runs says, for every instance and
more exactly: a connection with a task that has not ended has one that can go on
(`Ready` lists the guards of `TaskStep`), or it is left with methods that wait for
other requests, as in `session_pipe`. A task that waits is behind the head of a
queue, and that head waits only for tasks which hold the lock. It is the part of
`EveryTaskEnds` and `Drains` that is not about fairness.

### Codec

For every base of a byte from 2 up (so for 256), every `Known` and every set of
messages.

| Theorem | States | Argument |
|---|---|---|
| `RoundTripHolds` | `RoundTrip` | `DecodeWhole` |
| `CutIsAnErrorHolds` | `CutIsAnError` | `DecodeCut` |
| `ReadDirCountsBytesHolds` | `ReadDirCountsBytes` | `DirSizeIsLength`: `DirEntry.size` is what the encoder of an entry writes |
| `ReadDirIsReadOnlyEmpty` | what an RReadDir is read as: itself without entries, else an error | `DecodeReadDir` |
| `ReadDirIsNeverAnother` | `ReadDirNeverOther` | from `ReadDirIsReadOnlyEmpty` |

That what is decoded comes from a message's encoding or a part of it is a lemma
(`CodecInvariant`). The two lists of fields are the same for every type (`Layouts`, a theorem), `Number` undoes
`Bytes` for a number that fits (`NumberOfBytes`), and each member of a sequence of
parts is found at its place in the whole (`FlattenPlaces`). The rest is one lemma,
`ReadAll`: if each step of a decoder reads what one step of the encoder wrote,
as far as there are bytes, then the decoder has all the values where the bytes
suffice and is `Stuck` where they end before. It is used for the fields of a
structure (`FieldsRead`), the items of a vector (`ItemsRead`) and the fields of a
body (`BodyRead`). A cut is part of its statement and not a case beside it: the
bytes of the frame are asked to agree with the encoding only as far as they go,
and this is why the same lemmas give `DecodeWhole` and `DecodeCut`.

An RReadDir is where the two sides disagree. The decoder looks for as many entries
as there are bytes; each takes a byte at least (`ItemTakes`), so after the entries
that were written there are none left and it runs into the end (`EntriesWhole`),
and all the more so in a part of them (`EntriesCut`).

### Listener

For every number of servers and connections and each protocol.

| Theorem | States | Argument |
|---|---|---|
| `Typing` | `TypeOK` | inductive |
| `ServersAreReached` | `ServingIsReached` | with `OwnFile`: while nobody meddles, the server that listens owns the file at the path, so there is one, and a `drop` removes no other |
| `StaleFilesAreDue` | `StaleIsDue` | together with `OwnFile` |
| `ConnectionsAreIndependent` | `LostWithServer` | with `LoopEnds`: a server is past its loop only after an accept that failed |

### Unpfs

For every host (its inodes, names and first tree), every place of the export in it, every
number of fids and of requests under way, all walks and every depth limit.

| Theorem | States | Argument |
|---|---|---|
| `UnpfsInvHolds` | `UnpfsInv` | inductive, one lemma for each action |
| `UnpfsTyping` | `TypeOK` | `Tree`: no inode is in two places, no name twice in a directory, and what has entries is a directory |
| `DepthFollowsPath` | `DepthBounds` | `Deep`, for the fids and for the new fid of a walk under way |
| `ResolveNormal` | a path that leads anywhere leads where it leads with its dots taken out, above the export too | induction over the path: "/" is its own parent and the parent of what a name leads to is where the name is |
| `PathAndHandleAgree` | `HandleNeverOther` | `Leads`, and `ResolveNormal` from the path without dots to the path |
| `QidsAreTrue` | `QidIsFile` | `Settled`: what a request found out holds until somebody else changes the tree |
| `ErrorsChangeNothingAlone` | `ErrorAfterChange` | `Settled`: the call after the change finds what the change made |

`HandleNeverOther` is not inductive: a file that is not on its path may come back
to it. `Leads(path, i)` says what keeps it off: as long as the inode is there and
nothing above it was renamed, the path without its dots leads to it. With the
dots the path may lead nowhere, when a directory it goes through and out of
again is removed, but nowhere else (`ResolveNormal`). What creates, removes and
renames do to `Leads` comes from one notion: a change keeps everything but what is
below some inodes (`Keeps`), and `Still` says that a path to an inode that is not
below them goes on leading there (`KeptResolve`). A created file is below nothing
that was there (`GrownFinds`), what is removed has nothing below it
(`PrunedTree`), and what is renamed is in `moved` (`MovedTree`). `StepKeeps`
puts these together for the fids and all the requests that a step does not
concern, and `Proceeds` for the request that takes the step; the requests keep out
of one another's way because the fids they own are disjoint, which is what the
client waits for. Between `rlcreate_path` and `rlcreate_file` the path of a fid is
that of the new file and its `File` the old one (`HalfMade`).

Induction over a path is induction over a set: `FoldFacts` derives it from the
well-foundedness of the naturals (`WFMin`) and shows that `FoldLeft` passes
through one value for each element; `ResolveAppend` and `NormalAppend` are what
`Resolve` and `Normal` make of one component more.

### UnpfsFile

For every number of fids, tasks, blocks and writes.

| Theorem | States | Argument |
|---|---|---|
| `Typing` | `TypeOK` | inductive: a queue knows the tasks at its mutex, each once, so one task holds it |
| `WritesLandWhereAsked` | `WritesLand` | `Positioned`: between its seek and its write a task has the mutex, and the File is where it put it |
| `FsyncWaitsForWrites` | `FsyncWaits` | `Accounted`: a write through a File that is open has ended or is the one under way |
| `FailuresAreTold` | `FailureIsTold` | `UnderWay`: a File with an error has no write under way, so no second error takes its place |
| `ReadsSeeOwnWrites` | `ReadsOwnWrites` | all of the above and `ContentIsLast`: a block holds the last write that landed there |
| `TheMutexPasses` | `MutexPasses`: who waits, waits for one of its own fid that can go on or for a write under way | `Typing` and `UnderWay` |

`FileInv` is the conjunction, and inductive. Its parts need one another: an
error is kept by a write that lands late only because the next write waits in its
`seek`, and a read sees a write only because the writes of the File have ended
(`Accounted` with `Positioned`) and those of other Files come before or after it
in the order in which they landed.

### ReadDir

For every directory, all lengths of names and all counts, with any number of
entries made and removed during a scan, pages that fail and pages taken in part.

| Theorem | States | Argument |
|---|---|---|
| `ReadDirInvHolds` | `ReadDirInv` | inductive, one lemma for each action |
| `ReadDirTyping` | `TypeOK` | `Typed`, `Listing`: an offset leads to a number of entries, never below none |
| `ScanMissesNothing` | `NothingMissed` | `AllGot`, `AllPage`, `AllListing`: no offset leads past an entry that is not yet given |
| `ScanGivesNothingTwice` | `NothingTwice` | `OnceGot`, `OncePage`, `OnceListing`: no offset leads before the entry it was given with |
| `PagesFailForAReason` | `FailureIsDue` | `Listing`: what is in the buffer is in the directory or was removed under way |
| `PagesKeepToCount` | `EntriesFit` | `Fitting`, with `SizeAppend` for the sum of the sizes |

An offset counts entries, and entries come and go between two requests, so what an
offset means is a matter of cardinalities. When nothing is made, the entries up to
the last one given are at most as many as the offset says, as removals only make
them fewer: what is skipped has them all, and nothing comes twice. When nothing is
removed they are at least as many: what is skipped was given before, and nothing
is missed. `Passed` ties the count of the loop to the entries it has passed, a set
of that many which has all entries of the directory so far (nothing made) or is
part of the directory (nothing removed); it is why `2 + i` is right for the entry
just listed. The same counts hold while `skip` is under way, of the entries that
are still to come (`Pending`), the ones in the buffer that are gone among them.

### UnpfsAttr

For every number of requests and every set of masks, with calls that fail and
reads and writes that land at any time.

| Theorem | States | Argument |
|---|---|---|
| `Typing` | `TypeOK` | inductive |
| `NothingElseChanges` | `OnlyAsked` | `Base`: what an attribute holds is owned by who asked for it (`Owned`) and within the reach of the requests sent (`Reached`) |
| `SuccessShows` | `AskedShows` | `Shown`: a request that is past the call for an attribute finds it there, until somebody else has to do with it |
| `ChangesAreInOrder` | `InOrder` | from `Shown`: who sets an attribute is past those before it (`SetIsPast`) |
| `TimesComeBackFromRequests` | `TimeComesBack` | `Base` at `set_times` |

None of the four is inductive. A time that was read from the file by `metadata`
is in the hands of a request that did not ask for it, and can come back to the
file much later under the name of a third; `TimesOwned` says that whoever it
belongs to has succeeded. `Shown` says of each stage what `AskedShows` says of
the end, and is kept because a disturbance, once there, stays
(`DisturbanceLasts`): a request that has been sent keeps its mask.

Only model-checked: liveness (`EveryTaskEnds`, `Drains`, `ScanEnds`,
`QueuedIsServed`), which is out of the prover's reach. Every invariant and every
action property of a passing run is a theorem.

## Not modelled

- The errno table of error.rs, which has no state; splitting an address at its
  exclamation marks (`parse_proto`); rgetattr, rreadlink and rstatfs of unpfs,
  which change nothing.
- The framing of tokio_util, but for the errors it gives `dispatch`.
- TFlush and TVersion are requests without effect in `Session`, as in the code.
- Memory: a task per message without a bound.
- Visibility of a write to another fid after the RClunk of the first: the code
  promises nothing, and the background write makes it false.

## Plan

1. An abstract name space in which a fid is a file, implemented by `Unpfs` as
   long as nothing is renamed.
2. `Session` with the `aux` values in the table, for a request that makes a fid in
   use (lib.rs:87).
