# A verification of the remote file system

TLA+ models of the remote file system of this repository, the TLC
configurations that check them on small instances, and proofs checked by TLAPS.
Every definition is written from the Rust code; `PROJECT.json` maps each one to
the lines it stands for. All paths below are relative to the repository.

## 1. The system

A client process mounts a directory that lives on a server. The kernel's calls
reach the **FUSE adapter** (`client/src/fuse/unix.rs`), which turns inodes into
paths and calls the **file system model** (`client/src/fs_model.rs`). That one
answers from a **cache** of items, from one **read buffer** and one **write
buffer**, or asks the server through an HTTP **client** with retries and a token
store. The server authenticates the request, checks permissions on its own disk,
applies the operation to the exported directory and keeps extended attributes,
users and revoked tokens in SQLite. Calls run concurrently on both sides: fuse3
spawns a task per call, actix runs handlers on several threads.

| Component | State | Operations | What makes it hard |
|---|---|---|---|
| Cache (`client/src/cache.rs`) | map of path to item with put time, access clock and counter; policy, capacity, TTL | get, put, put_new, remove, invalidate | several critical sections per call; TTL, eviction and merge at once |
| Paged files (`fs_model/file.rs`) | page table per cached file, one valid interval per page | write_content, read, merge | page arithmetic; a bounded table |
| Buffers (`rw_buffer.rs`) | (path, offset, data) each, shared by all files | write, read, fill, clean | one buffer for every file and every task |
| File system model (`fs_model.rs`) | the three above | read, write, flush, create, rename, remove, attributes, listings, links | uploads after the lock is released; responses lost or late |
| FUSE adapter (`fuse/unix.rs`) | inode paths | the kernel's calls | ordering of flush, release and fsync |
| Windows adapter (`fuse/windows.rs`) | handles with the path they were opened by | WinFSP's callbacks | a handle outlives the name it was opened by |
| Network (`network/*.rs`) | token store | one request per operation, up to 3 retries; login, logout | at-least-once delivery, lost responses |
| Start and shutdown (`lib.rs`, `daemon.rs`) | attempts, notification | login, daemonise, serve, signals | a signal at any moment |
| Mount (`mount/unix.rs`) | the session handle | mount, wait, unmount, lazy_unmount | an unmount that is refused or comes from outside |
| GUI (`gui/logic.rs`, `gui/app.slint`) | daemon slot, active flag, loading overlay, settings | login, logout, mount, unmount, retry, settings | closures queued from other threads, jobs and runs beside the event loop |
| Authentication (`server/src/middleware.rs`, `db.rs`) | the clock, the revoked tokens | verify_token, insert and clean_revoked_token, authenticate_user | expiry and revocation looked up one after the other |
| Accounts (`server/src/commands.rs`, `db.rs`) | the table `users` | create, rename, change password, delete, each a process | checks and statements without transactions |
| Storage (`server/src/storage.rs`, `attributes.rs`) | the exported directory | write, mkdir, delete, rename, exchange, symlink, set_attributes, is_allowed | several system calls per request, no lock |
| Routes (`server/src/routes.rs`) | none | one handler per request | check, then disk, then database |
| Extended attributes (`server/src/db.rs`) | the table `xattributes` | set, remove, move rows | row moves that can fail half way |

What makes them correct: bytes written by a program are never lost silently nor
put elsewhere, and sent again only while the answer of the server is awaited;
what is cached is what the server has, within the TTL the README promises; the
cache stays in its bound; fsync is durable; a deleted file stays deleted;
attributes stay with their item; a signal ends the client and leaves no mount
behind. `PROJECT.json` lists, under `hazards`, where each of these can go wrong
and which property watches it.

## 2. Modules

| Module | Models | Its actions |
|---|---|---|
| `Cache` | `cache.rs` | one per critical section: `GetHit`, `GetExpired`, `PutUpdate`, `PutInsert`, `PutNewInvalidateParents` then `PutNewInsert`, `RemoveEntry` then `RemoveInvalidateParents`, `Invalidate`, and the clock |
| `FilePages` | the operators of `fs_model/file.rs` and `cache_write_file` on one file's pages | none: pure functions |
| `PagedFile` | one cached file and the server's version of it | `Fill`, `Upload`, `Forget` |
| `FileData` | `fs_model.rs` and `rw_buffer.rs` on file contents, with the server's files | each request starts with one action (`WriteFile`, `Flush`, `Fsync`, `ReadFile`, `CreateFile`, `SetSize`, `Remove`, `Rename`) and goes on with one action per critical section, server effect and response |
| `Names` | what the server does to the tree of names for each request: `storage.rs` behind `routes.rs` | none: a change is the set of trees it can lead to |
| `NameService` | the abstract specification of names: one tree, each call one step, each answer true when it is given | `Change`, `Reply`, `Taken`, `Excuse` |
| `ClientFs` | the handlers of both adapters that deal with names, the calls of `fs_model.rs` they make, cached directories, links and attributes, and requests with their retries | one per handler to start it; then the look into the cache, the request, its reply, what is cached of it, the answer |
| `Daemon` | `lib.rs`, `daemon.rs`, `mount/unix.rs` without a window | main task, signal task, and the world outside |
| `Gui` | `gui/logic.rs` and the guards of `app.slint`, composed with `Daemon` | the buttons; the event loop (callbacks, queued closures, timers); a job per click that asks the server; a run per mount; umount commands |
| `Sessions` | login, logout and the check of tokens, on both sides: `network/client.rs`, `network/middleware.rs`, `server/src/middleware.rs` and the token part of `db.rs` | `Call`; `Send` at each try; on the server `CheckExpiry` then `CheckRevoked`, then `HandleAccess` or `HandleLogout`; `Authenticate` then `CleanRevoked` for a login; `QueryFails` at any statement; on the client `Succeed`, `Refused` and `TryAgain`; and the clock |
| `Store` | files, directories and renames of `storage.rs` and `routes.rs`, and the xattributes part of `db.rs` | a request starts with its permission check and goes on with one action per system call or statement; `Fails` at any of them |
| `Accounts` | `commands.rs` and the table `users` of `db.rs` | one per statement of a command |
| `Access` | `is_allowed`, `get_permissions`, `set_attributes` and the write of `storage.rs`, `routes.rs` and `attributes.rs`, composed with `Accounts` | a request starts with one action and goes on with one per check and system call |
| `CacheProofs`, `SessionsProofs`, `AccessProofs`, `FileDataProofs`, `PagedFileProofs`, `StoreProofs`, `ClientFsProofs`, `GuiProofs` | theorems about the modules they extend | |
| `MCCache`, `MCFileData`, `MCClientFs`, `MCGui`, `MCSessions`, `MCStore`, `MCAccess` | the instances that TLC checks | |

How they hang together:

* `FileData` extends `FilePages`, so cached pages in it are the real page tables.
  The cache's expiry and eviction show in `FileData` and `ClientFs` only as
  `Forget(p)`, which drops an entry at any time; `Cache` is where their rules are
  checked.
* The server's write is `Overwrite` in `FileData` (bytes), `WriteFile`, `Stat`,
  `Open`, `Chown` in `Store` (name and owner), `StorePut` in `Access` (permission
  and mtime) and `Touch` in `Names` (the name, as a client is told of it).
* `ClientFs` extends `Names` and instantiates `NameService` over the same tree,
  with the answer under way and the excused paths as the rest of its state:
  `Service == INSTANCE NameService WITH excused <- Excused, answer <- Latest`,
  and `Refines == Service!Spec` is a property of the run `client_names`.
* `Gui` extends `Daemon`: its step `Process` is a step of `Daemon`, and its runs
  are those of `run_async` under a window.
* `Access` extends `Accounts`: the commands that make users race with the
  requests of those users.

Operators and actions whose comment starts with "Fault:" are not part of any
specification. Each is the neighbouring definition with one plausible mistake,
and shows that the property named in `PROJECT.json` notices it.

### How the models stand to the code

* A Rust task is a task or a request; an `.await` is where others may step in.
  In `Cache` each `RwLock` section of `Cache::items` is one action; in
  `FileData` so is each section of `write_buffer` and `read_buffer`, each effect
  of a request on the server and each piece of code that runs on its response.
  On the server a system call or a statement is one action.
* Bytes are tagged with path, offset and number of the write that made them.
  Lengths are a few bytes, pages of two or three bytes, buffers of two.
* Cache items keep whether they are directories and have attributes, and when
  they were put. The two LRU and LFU comparisons are `Rank`.
* The middleware of the HTTP client sends again what had no answer or got a
  server error, up to three times (`client/src/network/client.rs:32`). In
  `FileData`, when `Lossy`, a request whose answer is awaited may act once more
  any number of times, and its caller gives it up at any time, before or after
  the server acted (`UploadFails`, `ResponseLost`). A first try that arrives
  after its retry has been answered is not modelled.
* In `ClientFs` a request and its reply are lost one by one, up to `Retries`
  repetitions. The server may also fail before it does anything, or after the
  change with its rows not done (`server/src/routes.rs:168`, `:262`): an
  `"error"`, which the middleware repeats and of which the caller hears in the
  end only that it failed. What a caller is told of a request the server has
  carried out is what `ReportsTrue` is about. A lookup that fails is reported as
  an item not found; the model calls it failed.
* An item of `Names` is its kind and the number of the change that made it; the
  number stands for its attributes and the target of a link. `ClientFs` reads the
  children a `readdir` finds in the cache in one step, and takes it from the
  kernel and from WinFSP that they resolve a path from the root before they call
  (`Seen`). A handle of WinFSP keeps the path it was opened by.
* `Store` gives every item an identity, and a row of xattributes remembers the
  identity it was set on, so "the row follows its item" can be stated; rows set
  where nothing is, which `set_x_attributes` allows, remember `NoItem`. Any step
  of a request may fail (`Fails`): the system call or the statement returns an
  error, what it finds does not allow it, or the server stops; what was done
  before stays. `Left` marks a row whose item a rename has taken away, `NoItem`
  one whose item a failed request has, and `Orphan` the owner of an item that
  will stay the server's. Modes are the defaults, so only owners write; requests
  refused by the permission check change nothing and are left out, as `Access`
  has them. Symbolic links are items of `Names` and `ClientFs`, not of `Store`.
* In `Access` items are there all the time, so that every refusal is one of
  permission; the fallback of `is_allowed` to the parent of a missing item is in
  `Store`. A mode is its nine bits, and `PermissionType` takes them
  apart as `try_to_target` does; `Rights` is the reference, by the digits of
  chmod(1). `chmod` and `chown` by the server process itself do not fail
  there; in `Store` they may.
* In `Sessions` a token is its number and its expiry, the signature of a JWT
  being beyond question; whether a password is right is a free choice.
* In `Gui` all runs mount at one mount point, mounts lie on top of each other and
  an unmount takes the topmost. The settings are one value. An edit view opened
  before MOUNT stays open behind it, and its OK changes the settings while a file
  system is mounted; the page shown without a server lets clicks beside RETRY
  through. Closing the window drops the runtime with its tasks, which may leave
  what they had mounted. `wait` may fail with its file system still mounted
  (`RunFails`, and `SessionFails` of `Daemon`; `client/src/lib.rs:202`).
* History variables (`accepted`, `applied`, `failed`, `erased`, `synced`,
  `names`, `aged`, `untold` in `FileData`; `untold`, `overlapped` in `ClientFs`;
  `overlaps` in `Store`; `signals`, `missed` in `Daemon`; `early`, `late`,
  `stacked`, `stuck`, `restored` in `Gui`; `ended`, `unclear` in `Sessions`;
  `joined` in `Accounts`; `had`, `lacked`, `did`, `seen`, `retimed` in `Access`)
  record what a property speaks of. No guard reads them, except that bounds are
  guards.
* `scope` in `FileData`, `ClientFs` and `Gui`, and `instance` in `Access`, are
  bounds too: each names the requests, items and numbers of a behaviour, so that
  one run can take few files with many writes and many files with few.

## 3. Runs

| Run | Question | Bounds |
|---|---|---|
| `cache` | In every interleaving of two requests: does the cache stay in its bound, are hits fresh, does a removal drop what its parents cached, and is the victim the least used? | 2 tasks, capacity 2, paths `/`, `d`, `d/f`, both policies, TTL 1, clock 2, one access per entry; 343k states |
| `paged_file` | Do pages, their table and their merge keep offsets and agree with the server? | file of 10 bytes, pages of 3, table of 3, chunks of up to 4, 1 version; 77k states |
| `file_data` | Do concurrent writers lose or misplace a byte in the shared write buffer, or send one again for no reason, when uploads can fail? Can concurrent readers get bytes of another file or offset? | 2 tasks, 2 files of 2 bytes; 3 writes, or reads only; buffer 2, pages of 2, a lossy network; 398k states |
| `file_data_serial` | One request at a time on a lossy network: is fsync durable, is a newer byte never overwritten by an older upload, does the cache follow the server and the names? | 1 task; either 1 file and 3 writes of up to 2 bytes, or 1 file, 2 writes and reads, or 2 files, 1 byte and truncate, remove and rename; 4.32M states |
| `client_process` | Does a signal or an unmount stop what it is for, is no mount left, does every start and every click conclude, does the window show what is mounted and how? | 3 login attempts, 2 signals, and of the window three scopes: two mounts, the settings, and a user who does not wait; 272k states |
| `server_store` | Are attributes with their items, owners set and items conserved, two requests at a time, when any step can fail? | 1 user, 2 requests, 2 items, 3 paths, 2 rows, 1 overlap; 759k states |
| `sessions` | Is a logged-out token refused, and does its client drop it, whatever is repeated, fails or expires? | 2 clients, 2 calls at a time, lifetime 2, clock 3, 2 tokens, 1 retry; 1.76M states |
| `client_names` | Is what a handler is told of a change what the server did, and does the cached name space answer as one tree would? | eight scopes: one handler and the changes of two directories, with messages lost and server errors, exchanges, links, open files, WinFSP with a handle, and two handlers; up to 3 changes, 1 retry; 473k states |
| `server_access` | Do commands tell the truth when they race? Is every change and every answer rightful when modes, owners and accounts change between a check and its use? Do mtimes tell of the last change? | 3 commands, 2 requests, 3 users, 1 file or the top directory, 3 modes, 3 changes; 612k states |
| `file_data_own_writes` | Is a write that has returned seen by the next read? (violated) | 1 task, 1 file, 3 writes, no losses |
| `file_data_zombie` | Does a removed file stay removed? (violated) | 1 task, 1 file, 3 writes, no losses |
| `server_xattrs` | Do attributes follow whatever the other requests of the item do? (violated) | 2 users, 3 items, requests one at a time |

Passing runs explore their whole state space, `server_store` that with two rows.
The bounds are chosen so that the case each property is about happens (the
mutants confirm it):

* `cache`: capacity two and three paths, the root, a directory and its file, so
  that the third insertion evicts and every change has parents to invalidate;
  two tasks, so that any two critical sections can interleave; both policies,
  chosen in `Init`; a TTL of one and a clock up to two, so that entries expire.
* `paged_file`: ten bytes are four pages of three, the last of them short, and
  the table has room for three. So writes span two pages, also with room to
  spare, which is what `RoundTrip` asks for; they leave gaps, and find the table
  full.
* `file_data*`: two tasks on two files for the questions about interleaving,
  one task for those the code answers only one request at a time. Two bytes of
  buffer make every second byte fill it. The files of these runs fit into the
  page table; what a full one does is in `paged_file` and in the proofs.
* `client_process`: three login attempts as in the code; two signals, one to be
  consumed and one that could be missed; two runs, so that one can still unmount
  while the next one mounts, and settings can change while the first one serves;
  two jobs, so that a logout can meet a mount.
* `client_names`: two directories with one name in each are the smallest tree in
  which a rename moves something between parents; three changes make, fill and
  move a directory; one retry repeats a request once. The kernel asks for one
  thing at a time in all scopes but the last, since with two handlers under way
  the code promises nothing of what is cached.
* `server_store`: two requests that overlap once, two items, the names `x`, `d`
  and `d/x`. One overlap is the shortest that can go wrong; requests that do not
  overlap are not bounded. Two rows are what a conflict of keys takes, and an
  exchange of two items with an attribute each. One user is enough for the three
  properties: an item is owned by the server or by the user of a request, and
  whose permissions count is the question of `server_access`. The run gives
  `Left` and `NoItem` one value, which merges states that differ only in why a
  row is without its item.
* `sessions`: a lifetime of two and a clock up to three, so that a token can
  expire while it is checked and a second one can be issued before that; one
  retry, so that a logout can be repeated; two calls, so that one can be between
  any two steps of the other. Calls and logins after logouts are not bounded,
  except by the two tokens.
* `server_access`: `MAX(user_id) + 1` reaches `UidModulus` and the count exceeds
  `CountLimit` within three creations; modes that differ for the owner, the group
  and everybody; users who share a group and users who do not.

The runs of `FileData`, `Store` and `Access` do not check for deadlock, since the
bounds on writes, items, overlaps or commands can leave nothing to do, nor does
that of `Gui`, whose process ends.

### Fairness

`Daemon` and `Gui` state liveness. In `Daemon`, weak fairness of the main task,
of the signal task and of the spawned `umount`; in `Gui`, besides, of the event
loop, of each job and of each run: the event loop turns, tokio polls a ready
task, the server answers or the connection fails, the user types a password, and
an external command ends. Nobody is obliged to send a signal, to click or to
unmount, and no session to fail. `TimelySignalsStop`, `LeavesNoMount`,
`StartConcludes`, `StopEnds` and `OverlayEnds` hold under it. The other modules
state no liveness: what their requests wait for is a network that may lose every
message.

### Where the code departs from its documents

Three runs end in a counterexample:

* `file_data_own_writes`: `read_file` (`client/src/fs_model.rs:259`) never looks
  at the write buffer, so a write that has returned need not be seen by the next
  read, while `tests/consistency.rs:199` says it is.
* `file_data_zombie`: `remove` (`client/src/fs_model.rs:415`) leaves the write
  buffer alone, and a later flush creates the file again
  (`tests/persistence.rs:201`: deleted files stay deleted).
* `server_xattrs`: `rename` (`server/src/routes.rs:262`) does not remove the
  rows of a replaced item nor move those below a renamed directory. If both
  items have an attribute of the same name the request fails after the rename.

Properties that pass are stated so that they exclude exactly these and the
following, which the models show as well (drop the exemption to see them).

Bytes on the client (`FileData`, `PagedFile`):

* Two uploads of different requests are not ordered
  (`client/src/fs_model.rs:349`): `LastWriteWins` holds with one task and fails
  with two; so does `FsyncDurable`, as an fsync does not wait for bytes another
  request has in flight.
* Cached pages survive a truncation, a change whose response was lost for good,
  and a rename onto their file from an uncached source: the files in `untold`.
* The upload of a request that gave up after the server had it is reported as an
  error although its bytes are there: they are in `applied` and in `failed`.
* A rename moves the cached item after its response
  (`client/src/fs_model.rs:400`). If another rename brings a different file to
  the old path before that, and a read caches it, its bytes go to the new path:
  see `RenamesApart` in section 4.
* The read buffer is not told of writes, truncations, removals and renames, and
  answers for 100 ms after it was filled (`client/src/rw_buffer.rs:25`). A hit
  then puts the old bytes back into the pages (`client/src/fs_model.rs:290`):
  `aged` says that the file of the buffer has changed since, and a hit of an aged
  buffer makes the file `untold`.
* `merge` and `write_content` stop at a full table even where the page they are
  to write is present (`fs_model/file.rs:79-166`), and a later read finds the
  bytes from before the write there. An upload that meets this (`FillsTable`)
  makes the file `untold`, too.
* A cached page has one valid interval, so a gap between two writes reads as
  zeros (`fs_model/file.rs:32`); with the table full, `merge` stops before the
  pages it already has (`:157`). `ExactUnlessGapOrFull` says that nothing else
  goes wrong in the pages.

Names on the client (`ClientFs`):

* A mkdir, rename or remove whose answer was lost is sent again, finds its own
  work done and is reported refused; the cache is not told, so the entries of
  its paths are in `untold`. A repeated remove can take an item made meanwhile.
* The same happens with no message lost: a remove or a rename is done on disk,
  the statement for its rows fails, and the answer is 500
  (`server/src/routes.rs:168`, `:262`). The middleware repeats it, and the caller
  hears that it failed. `ReportsTrue` counts these answers with the lost ones
  (`lost`): a change was reported as not done only if some answer did not say
  what the server did, or an exchange went half way.
* A rename of an uncached source leaves the target's entry
  (`client/src/fs_model.rs:400`), and the rename of a directory leaves its cached
  children under their old paths.
* An exchange with an item that is missing leaves the other one under its
  temporary name: `HalfExchange`.
* When two handlers overlap, what one has read may be put into the cache after
  the other has changed it: everything is excused then, and only `ReportsTrue`
  and the types speak.
* Paths of open handles do not follow a rename; on Windows a delete on close and
  a write go to the path of the open, and `create` tests `FILE_CREATE` and
  `FILE_OPEN_IF`, which are numbers, as bits of the options.

The window and the process (`Gui`, `Daemon`):

* `notify_waiters` (`client/src/daemon.rs:96`) stores nothing: a signal between
  the registration of the handlers and the first poll of the `select!` in
  `run_async` is used up. `TimelySignalsStop` is about the signals after that.
  `trigger_shutdown` uses `notify_one`, which keeps a permit.
* `health_check` lifts the loading overlay before the login or logout it is part
  of is done, so a click can cross it: `early`.
* The crash event of an old run clears the active flag while a newer run serves
  (`late`). The next mount then shares its `Daemon`, and `notify_one` wakes one.
* Mounts lie on top of each other, and an unmount by path takes the topmost,
  whoever made it: `stacked`.
* An unmount can be refused for good, and `wait` can fail with its file system
  still mounted (`client/src/lib.rs:202`), which nobody unmounts then: `stuck`.
* The OK of an edit view works while a file system is mounted
  (`client/gui/app.slint:248`, `:331`), which is not told: what is mounted is
  what the window showed when MOUNT was clicked, and need not be what it shows
  later.
* RESET shows the defaults and leaves the configuration that mounts use as it is
  (`client/src/gui/logic.rs:582`): `restored`. The buffer-size field calls back
  with a string, for which no arm exists, and changes nothing.

The server (`Store`, `Access`, `Accounts`, `Sessions`):

* A `write_file` that found its file and lost it to a delete creates it anew
  without setting an owner, a rename can move a new item away before its owner is
  set, and a write or a `set_owner` that fails returns before it
  (`server/src/storage.rs:79`, `:190`, `:272`): these items stay the server's
  (`Orphan`), and nobody else can write them.
* A statement that fails after the change on disk leaves the rows to whatever
  gets the name next (`server/src/routes.rs:168`, `:262`): `NoItem`. Attributes
  can be set on a name without an item, if its parent allows it
  (`server/src/routes.rs:326`), and then are those of the next item there.
* NOREPLACE and EXCHANGE are sequences of system calls, so `ItemsConserved` holds
  only while requests come one at a time. An exchange does not look whether both
  items are there (`server/src/storage.rs:221`): without the second one the first
  ends up under its temporary name, where the next exchange of that name
  replaces it.
* The parts of a `set_attributes` before a refused one stay done. A time before
  1970 panics the handler (`server/src/attributes.rs:187`) after the parts before
  it; the connection closes, and the client sends the request again.
* Every `set_attributes` sets the times it has read, so the mtime of a change in
  between is taken back: `retimed`. An atime is set without a check. The top
  directory is open to everybody, and user 0 is not above ownership.
* `delete_user`, `edit_username` and `edit_password` refuse exactly when the
  account exists (`server/src/db.rs:361`, `:381`, `:425`), so an account once
  created stays as it is. `edit_group_id` is malformed SQL, and no command calls
  it. `MAX(user_id) + 1` wraps in a release build and panics in a debug build;
  with more than 255 users the count is refused.
* A logout whose answer was lost is sent again with the token it has revoked and
  gets 401, so the client keeps a token it can neither use nor log out
  (`client/src/network/client.rs:125`): the tokens in `unclear`. A logout clears
  whatever token the store has by then, even one of a later login.
* `clean_revoked_token` deletes what expires in the second of a login
  (`server/src/db.rs:145`, `=`), so rows of other expired tokens stay for ever.
  A login just then can take the row of a token whose expiry was checked the
  second before; it is accepted once more, which `LogoutSticks` allows for.
* `set_x_attributes` binds name and path of its UPDATE the wrong way round
  (`server/src/db.rs:488`): setting a present attribute changes nothing.

## 4. Proofs

Eight modules prove invariants of the runs for every value of the constants.
Each theorem is `Spec => []P`, by an inductive invariant: it holds at first,
every step keeps it, and it implies `P`. `NamesImplemented` is an implementation,
`Spec => Service!Spec`, step by step under such invariants. Four theorems of
`FileData` have hypotheses, because what they state is false without: requests
that come one at a time for three of them (`OneTask`), renames that do not cross
for the fourth (`RenamesApart`); the sections below say which code breaks them.
The assumptions are the named ones of the modules, which TLC evaluates in the
runs; none bounds the number of tasks, files, users or bytes.

| Module | Theorem | Property |
|---|---|---|
| `CacheProofs` | `TypeCorrect` | `TypeOK` |
| | `CapacityBound` | `WithinCapacity` |
| | `Freshness` | `HitsAreFresh` |
| | `ParentInvalidation` | `AncestorsDropped` |
| | `EvictionIsRight` | `EvictsLeastUsed` |
| `SessionsProofs` | `TypeCorrect` | `TypeOK` |
| | `LogoutIsFinal` | `LogoutSticks` |
| | `LogoutIsRemembered` | `RevokedIsDropped` |
| `AccessProofs` | `TypeCorrect` | `TypeOK` |
| | `CommandsTellTheTruth` | `CommandsTellTrue` |
| | `AlwaysRightful` | `Rightful` |
| | `MtimeAlwaysTells` | `MtimeTells` |
| `FileDataProofs` | `NothingIsLost` | `BytesAccounted` |
| | `RoomIsLeft` | `BufferHasRoom` |
| | `TypeCorrect` | `TypeOK` |
| | `BytesStayInPlace` (under `RenamesApart`) | `NoCrossWiring` |
| | `FsyncIsDurable` (under `OneTask`) | `FsyncDurable` |
| | `LastWriteStays` (under `OneTask`) | `LastWriteWins` |
| | `CacheIsCoherent` (under `OneTask`) | `SerialCoherence` |
| `PagedFileProofs` | `TypeCorrect` | `TypeOK` |
| | `TableStaysBounded` | `PageTableBounded` |
| | `NoByteMoves` | `ReadsKeepOffsets` |
| | `ReadsAreExact` | `ExactUnlessGapOrFull` |
| | `WritesReadBack` | `RoundTrip` |
| `StoreProofs` | `TypeCorrect` | `TypeOK` |
| | `OwnersAreSet` | `OwnersSet` |
| | `XattrsFollowRenames` | `XattrsFollow` |
| | `ItemsAreConserved` | `ItemsConserved` |
| `ClientFsProofs` | `TypeCorrect` | `TypeOK` |
| | `ReportsAreTrue` | `ReportsTrue` |
| | `SingleInductive` | the cache is true of the tree (`SingleInv`, below) |
| | `NamesImplemented` | `Refines` |
| `GuiProofs` | `NoMountIsLeft` | `RunsLeaveNoMount` |
| | `MountsAsShown` | `MountsWhatIsShown` |
| | `ShownWhenActive` | `ActiveIsShown` |
| | `TypeCorrect` | `ClientTypeOK` |

### The cache

All five follow from `IndInv` in `Cache`, which adds to them what a single step
needs to know:

* `TypeOK` carries the order of an entry's clocks, and the map is finite, so
  that cardinalities can be reasoned about (`FiniteSetTheorems`).
* `WithinCapacity` is preserved because room is made and the entry inserted in
  one critical section; `MakeRoomSize` and `InsertionStep` bound the size.
* `LeaseKept` ties `created_at` to the history variable `first`, the time the
  entry came in. Without it `HitsAreFresh` is not inductive: a merge would be
  free to have renewed the lease.
* `DueIsPending` says that ancestors are left to drop only while a `remove` is
  between its two critical sections, and that they are ancestors of its path,
  which is what `RemoveInvalidateParents` drops.

`EvictsLeastUsed` is an action property; `MakeRoomEvicts` says which entry leaves
for another. It needs the invariant too, in `InsertionEvicts`: a `put` that
replaces an expired entry must not evict a second one, and it does not because
the map was within its capacity before the expired entry was dropped.

`InvStep` has one step per action; `RemovalStep`, `InsertionStep` and `TouchStep`
say once what removing, inserting and updating entries preserve, and each action
cites the one that fits.

### Sessions

`LogoutSticks` looks at one call that has passed both checks. To know that it
had to fail the second, `IndInv` of `Sessions` adds:

* `RowsUntilExpiry`: a logged-out token has its row until it expires;
* `CleansThePast`: a clean-up under way uses a time that has come, which is why
  it takes no row too early;
* `BarredIsEnded`: a token that was logged out when the call was sent is still
  one that was logged out.

`Split` states the invariant as one condition on the tables (`BaseOK`) and one
on each call (`CallOK`). A step changes one call; `Later` shows that what time,
logouts and logins add disturbs no other, and `OneCall` puts the two together,
so each action is left with its own record and the tables.

`RevokedIsDropped` needs to know whose a token is. `OwnInv` says that no two
stores hold the same token, that the calls which carry it are its client's, and
that one a login has received is nowhere else yet and not logged out. `DropInv`
names, for each logged-out token still in a store, the logout under way that will
drop it (`Witness`), unless one has seemed to fail; `LoginsAuthenticate` keeps
the password check to logins.

### Accounts and permissions

`AccountsInv` says of each command, by the statement it is at, what it knows
(`CommandOK`): a user id that was given is the one it inserts, and one it has
computed is free unless another account has joined since or the ids are used up.
`Grown` shows that a command under way keeps what it knows when another account
is inserted.

`AccessInv` says of each request which checks it has passed (`Stage`), what a
denial goes back to (`Denial`), and that what it may do now is already in its
history (`Seen`); the rest is `ChangeRightful`. `AllowedIsRight` is the heart of
it: the arithmetic of the code on the digits of a mode grants exactly what
chmod(1) says they grant. `DigitBits` takes a digit apart. `ProceedStep`,
`CheckStep` and `EffectStep` say what passing on, asking for a permission and
changing an item do to one request and to all the others, and each action cites
one of them.

`MtimeTells` is inductive with `MtimeInv`: a request about to set the times has
read an mtime that told of the change it saw (`ReadRightly`), unless the item
was exempt already.

### The write buffer

`DataInv` is `Numbered`, `Typed`, `BufferHasRoom` and `Divided`. `Numbered` gives
a write a number no byte has yet, so that its bytes are new. `Divided` is the
argument: the accepted bytes are those in the buffer, those each task has still
to send (`Left`), the applied and the failed; nothing in the buffer is also in an
upload or on the server; of what a task is sending (`Sent`) the part that is no
longer left has been applied; and no two tasks send the same byte. It is needed
because an upload whose answer is awaited has been applied and is still in the
queue, from where it may be sent again: `Awaited`, the only bytes that are both
pending and applied.

`HandOver` covers the actions that take bytes out of the buffer, with or
without a write, `UploadsMove` those that carry an upload on, and `NoByteMoves`
the rest. `BufferWriteFacts` says what the buffer takes of a write,
`QueueOf` how the bytes of a queue split into its head and its tail.

### Where bytes may be

`TypeOK` and `NoCrossWiring` are two cases of one induction. Let `R` give the
bytes that may be at each offset of each path. `Held(R)` says that every byte is
one of these wherever the code keeps bytes: on the server, in both buffers, in
the cached pages (the bytes outside their valid interval too, which a later merge
can expose), in the queue, the fetched data and the moved item of every task,
and in the last answer. `NextHeld` shows that each step keeps `Held(R)` if `R`
allows the bytes of new writes and follows renames; `HeldMore` widens `R`. Below
it are lemmas about what the pages do with bytes: `PageWriteHeld`, `ChunkHeld`,
`WriteContentHeld`, `CacheWriteHeld` for storing, `ByteHeld`, `PageDataHeld` and
`ReadHeld` for reading.

With `R = Anything`, all written bytes and zero, it gives `TypeInv` and with it
`TypeOK`. With `R = Places(names)`, the bytes written at that offset under a name
the file bears or bore, it gives `PlaceInv` and with it `NoCrossWiring`.

The second has a hypothesis, `RenamesApart`: no rename is made onto a path that
another rename, sent and not yet answered to its task, has moved a file away
from. It is needed because `rename` (`client/src/fs_model.rs`) moves the cached
item after the response. Let one task rename `a` to `b` on the server; before it
goes on, another renames `c` to `a` and a read fills the cache of `a` with the
bytes of `c`; the first then moves that cached item to `b`, where reads answer
with the bytes of a file that never bore the name. TLC finds this with two tasks
and three files; with the hypothesis as a constraint it finds nothing there. In
the runs the requests that overlap rename nothing, and those that rename come one
at a time, so `RenamesApart` holds of their states.

`ZeroAssumption` says that the zero of a hole is no byte, `AbsentAssumption` that
the mark of a missing file is no file.

### One request at a time

The other three speak of one task, `OneTask`: an application that waits for each
answer. With two, a `flush` returns while the other task still uploads what it
took from the buffer, and the uploads of two tasks arrive in any order: nothing
in `client/src/fs_model.rs` waits for an upload of another call. The number of
files, every capacity, and what the network loses stay arbitrary.

Requests are repeated while their answers are awaited, so a task that waits for
one may act again. `DoneInv` says that the server is then as the request has left
it: the uploaded bytes are in their file, a new size is its size, a removed or
renamed file is gone from its path. So a repetition finds its own work done and
changes nothing (`WrittenTwice`, `ActedTwice`), and the three arguments below see
each request act once. With a second task this is false: what it has done in
between is undone.

*`FsyncDurable`*, by `SyncInv`. Alone, an idle task has nothing left to send
(`AloneIdle`), so that what was accepted is in the buffer, applied or failed, and
an `fsync` that flushes the buffer has all of it in its queue. `DueDone` follows
it from there: the bytes an `fsync` will vouch for (`due`) are applied, failed or
left in its own uploads.

*`LastWriteWins`*, by `OrderInv` and `LandInv`. `OrderInv` is that the client is
first in, first out: each byte sent has a smaller number than those behind it in
the queue and in the buffer, through every split of a write over the buffer, and
what was applied is older than what was not. The buffer and the queues are
`Solid`, made of written bytes alone, so that no upload carries a hole over a
byte. `LandInv` is that the server has nothing but what was applied, what it held
at first, and zeros; it is what an upload meets there.

*`SerialCoherence`*, by `CohInv`. The bytes the pages of a file may hold are
`Now`: at each offset the server's byte or a zero. While an answer is on its way
they are another set: once the server has an upload, the pages may hold anything
in the range of the upload, and must be true outside of it (`Since`, `Seen`);
once a rename or removal is done there, the pages of its paths say nothing until
the cache is told (`Changed`); and `CallTrue` says of what the call carries, an
upload to be put into the pages, data fetched, a cached item on its way to its
new name, that it is the server's. `untold` holds the files `SerialCoherence`
exempts. Each action either leaves pages and files as they were, or writes into
the pages what the server has (`CacheWriteOver`), or forgets the entry, or is one
of those above (`CohPass`, `CohPut`, `CohDisk`).

The read buffer needs an invariant of its own, `BufferTrue`: it holds what the
server has of its file, unless it is `aged`. Since it is not told of changes and
may answer after any of them, a hit puts into the pages what is true of the file,
or the file is `untold` from then on. An upload puts into the pages what the
server has just written, or meets a full table (`FillsTable`); then the page
keeps bytes from before the write, and the file is `untold`, too. Both exemptions
are the steps that make the cache lie, at the file where they do, and end with
the entry.

### Pages

`PagesInv` adds to `TypeOK` and `PageTableBounded` that the server's bytes carry
their offset (`Tagged`), that a byte of a page is in its place or a zero, and a
valid zero is in a gap (`InPlace`), and that without gaps and a full table every
valid byte is the server's (`Exact`).

Most of the proof is about the operators. `Place`, `Bases` and `PageOfOffset`
tie an offset to its page and its place in it; `PartOfPage` says which part of a
write falls into a page; `CacheWriteIs` reduces `CacheWrite`, which splits,
patches and merges, to the pages it changes and what each then holds;
`ReadPagesIs` does the same for the reader's walk from page to page, which ends
at the first page that has no more: `Minimum` provides it. `HullIsOldOrGap` shows
that a byte a write makes valid without writing it was valid before or is in a
gap. `StoreKeeps` puts these together for both actions that store bytes.

`ZeroAssumption` says that the zero of a gap is none of the bytes of the file.

### Names

`OwnersInv` of the server says that the requests under way are made by users, who
alone can become owners, that every item has an identity, a kind and an owner,
and the property itself. `OtherStep` is the argument for the steps that leave no
owner to be set: an item that is the server's was there before, as the same item.
What a rename takes from under a request that is about to set its owner, and what
a request leaves that fails before it, is an `Orphan` from then on
(`OrphanedIs`). The work is in these two, `FsRenameOwners` and `FailsOwners`.

`TypeCorrect` of the server needs the tree as `Rooted`: every item has a
directory at *each* path above it, and no identity is there twice. The parent
alone, which `TypeOK` asks for, is not inductive without an induction over paths:
a rename takes everything under a path away, and what lies between that path and
an item under it must be known to be there, too. `Moved` says what `Renamed` does
in terms of `Rebased`, the path an item gets to, whose inverse and order are
`RebasedBack` and `RebasedOrder`; `RenameRooted` follows a path above an item
through the three cases, above the target, in it, or aside. `Arrows` lists the
steps a request can go on to, with what it remembers of what was asked (`GotoIs`,
`CallOK`).

`XattrsFollowRenames` and `ItemsAreConserved` are about requests that come one at
a time (`overlaps = 0`); runs show what is lost otherwise. `Single` says that at
most one request is under way and that it is `Fine`, or that, with none, the idle
state is. `Stage` is what the request alone has made of the tree when it gets to
a step, for instance that in the middle of an exchange the name its next rename
goes to is free. `Home` is the path where the item is by now that the rows of a
path were set on: the path itself when no move is half done, and a composition of
`Swapping`s between the renames of files and the updates of rows. Every rename of
p to q composes `Home` with the swap of p and q on the side of the tree
(`RowsHomeMove`), every update of rows on the side of the table
(`RowsHomeUpdate`), and at the end of a rename or an exchange they cancel out.
This is said of the rows of an item (`RowsHome`). The others are marked, and may
be anywhere: those a rename leaves behind (`Left`), of the item it replaces and
of what is under a directory it moves, and those whose request failed before it
got to them (`NoItem`). `FailsSingle` is the argument for the failures: `Behind`
names, for each step, the paths whose rows are not at the path of their item, so
that with these marked the others are, and the idle state is `Fine` again. A
request that fails in the middle of an exchange leaves an item under its
temporary name; `ItemsConserved` exempts the exchange that replaces it there.

The assumptions of `Store`: paths are nonempty sequences of components;
`SwapAssumption` says that no request names what an exchange uses, neither the
name with the extension `.swap_tmp` (`storage.rs:222`) nor the path
`__tmp_exchange__` in the table. The code does not check it: a file of that name
would be replaced by the exchange. `BoundsAssumption` makes the set of tasks
finite, so that the requests under way can be counted.

`ClientFsProofs` proves of the client that it implements `NameService`, in four
layers.

*Paths and trees.* `PathsAssumption` says that paths are sequences of components
and that with a path its beginnings are paths; from it follow what `Up`, `Below`,
`Above` and `Rebase` do (`BelowOrder`, `RebaseIs` and the lemmas around
them). `TreeOK` is the shape of a tree with *all* directories above an item, not
the parent alone: a path taken from under another is then known to have no item
left below it, without induction over its length. Each change of `Trees`, and
`HalfExchange`, keeps it, and `Touched` bounds the paths a change can alter.
`AbsentAssumption` says that no item is `Absent`.

*State.* `StateOK` adds to `TypeOK` the fields of each call at each step
(`CallOK`) and the count of its effects (`Counted`): while a request is being
sent it was carried out at most as often as answers did not say what the server
did, lost ones and errors after a change, and once more when it was answered.
`TypeCorrect` and `ReportsAreTrue` follow. An action is one of a few moves of one
task (`Moves`, `Becomes`, `Learns`, `Starts`) and one of a few changes of the
cache (`Dropped` and a single entry put), so each is proved by naming the move.

*Cache coherence.* `SingleInv` holds unless two handlers have overlapped. It says
that what the cache holds of a path is true of the tree (`Coherent`), but for the
paths in `untold`, whose change nobody could tell the client, and those the call
under way has changed and not reported yet (`Pending`: the paths of the change
and their parents, `Around`). The invariant is about the call, too: a listing
that will be stored still is the directory's (`ListTrue`), a creation that was
accepted made the item it was told of, and the entry a rename will put under the
new name is true of what is there now (`ChangeTrue`). Without these the cache is
not inductive, because each of them becomes an entry one step later. `untold`
alone would not do either: between the reply to a rename and the moment the
handler hears of it the cache is wrong and no history variable says so.

*Refinement.* The answer of the service is `Latest`, the one a task is about to
give, and its excused paths are `Excused`: `untold`, or all once handlers have
overlapped. A step that gives the answer back is `Taken`, one after which a
task has its answer is `Reply`, for which `SingleInv` shows `True`, a step
of the server that alters the tree is `Change`, and all others are `Excuse` or
stutter. A request sent a second time is a second `Change`; it is refused or
leaves the tree as it is unless another handler came between, in which case it is
a change in its own right.

### The window

`MountsOK` says that a mount on top of no other belongs to a run that has still
to unmount it (`Holding`), unless an umount command is on its way, or one was
refused or the session failed (`stuck`); so a run that ends has nothing left.

`SettingsOK` is about the queue of closures between the threads: a setting that
the window does not show yet is in the queue as a change, there is none from the
click on MOUNT until the run has its copy, and the defaults come back only in a
history that says so (`restored`). `Aside` covers the many steps that touch
neither settings nor queue.

`ActiveIsShown` rests on two more invariants. `DaemonsInv` is about the daemons,
which the model names after the run that created them: runs start in order, a
daemon in the slot, in a run or with a permit has been created, one that was told
to stop has left the slot for good, and the queue of waiters holds each run once,
while it serves and has not been notified. `ShownOK` holds while no click was
early and no crash late: no two live runs share a daemon, the daemon of each is
in the slot or has a permit, none goes on while a mount begins, and one that goes
on will be shown once the queued closures have been handled (`Showing`: a
"mounted" with no "unmounted" or "logged out" behind it, or the window shows a
mount already and nothing queued takes that back) or is about to be queued as
"mounted". The slot must be empty when a logout's sleep ends, which is `JobsOK`:
only a logout that sleeps holds the lock, and nobody fills the slot meanwhile.
`StopSlotDaemons` and `Goes` say what a notification and a step of a run do to
the other runs; a notification reaches the only live run of the daemon or leaves
a permit it will find, and this is where `NotifyWaiters` would fail. `CutIs` is
about a queue with one element taken out.

`ClientTypeOK` follows, with `ProcessOK` for the process below: it has a login
left as long as it is up. `umounts` is bounded because a run spawns at most one
command, when it ends. `NobodyAssumption` says that the mark of an empty slot is
no daemon and no job.

### Only model-checked

All liveness (`TimelySignalsStop`, `LeavesNoMount`, `StartConcludes`, `StopEnds`,
`OverlayEnds`), which TLAPS does not prove. Every invariant and every action
property of a passing run has a theorem; those of four theorems of `FileData`
hold under the hypotheses named above, and the runs check them under the same:
`file_data_serial` has one task, and `file_data` no renames. What is false
beyond the hypotheses is said where they are explained.

## 5. Not modelled, and the plan

Not modelled:

* argument parsing, configuration files, logging and error types, on both sides,
  and the end-to-end harness: they keep no state that requests share;
* `fallocate`, `copy_file_range` and `lseek` of the FUSE adapter
  (`client/src/fuse/unix.rs:617-695`), reads of extended attributes, `statvfs`,
  volumes and security descriptors of the Windows adapter, the path checks of
  the server: calls passed on or computed from one answer;
* passwords, hashes and signatures: whether they match is a choice of the model;
* fuse3, WinFSP, the kernel, the file system below the server and SQLite, except
  for what the code relies on.

What would come next, in order of importance:

1. An abstract file (a sequence of bytes with write, truncate and read) that
   `FileData` with one task implements between flushes, as a refinement; the
   exemptions of `SerialCoherence` would become steps of it. `CohInv`, `OrderInv`
   and `SyncInv` are what its proof would need to know of the files, the cache
   and the buffers.
2. Messages that are delayed, not only lost: a first try of an upload that
   arrives after its retry and after later requests.
3. `copy_file_range`, which sets the size of its target before it copies, on top
   of `FileData`.
