# Freighter in TLA+

Freighter is a registry for Rust crates. This directory models the parts of it
that keep state or run concurrently, checks them with TLC on small instances,
and proves the most important properties with TLAPS for instances of any size.
`PROJECT.json` lists every run, property, proof and the source lines behind each
definition; this text explains them.

Contents: [the system](#the-system) · [modules](#modules) · [runs](#runs) ·
[fairness](#fairness) · [proofs](#proofs) · [findings](#findings) ·
[not modelled](#not-modelled) · [plan](#plan)

## The system

The server (`freighter-server`) answers HTTP requests of cargo, each in a task of
its own. It is put together from three exchangeable providers, which it calls and
which do not know of each other:

| part | state it keeps | operations | source (under `src/crates`) |
| --- | --- | --- | --- |
| publish and download handlers | the bucket's tarballs | `publish`, `serve_crate` | `freighter-server/src/api.rs`, `downloads.rs` |
| file index | one metadata file per crate, in a directory or an S3 bucket | `publish`, `yank_crate`, `unyank_crate`, `get_sparse_entry`, `confirm_existence`, `list`, `search` | `freighter-fs-index/src/lib.rs` |
| its file locks | a table of weak references to locks, by crate name | `CrateMetaPath::new`, `exclusive`, `shared`, two `Drop`s | `freighter-fs-index/src/file_locks.rs` |
| PostgreSQL index | crates, versions, keywords, dependencies | the same as the file index | `freighter-pg-index/src/lib.rs`, `sql/` |
| storage | files, objects | get, put, delete, list | `freighter-storage/src/fs.rs`, `s3_client.rs` |
| file authentication | owners in memory and in `owners.json` | `register`, `publish`, `add_owners`, `remove_owners`, checks | `freighter-auth/src/fs_backend.rs` |
| Cloudflare Access | cached signing keys | verification, `refresh` | `freighter-auth/src/cf_access.rs`, `cf_backend.rs` |
| yes and no authentication | none | constant answers; the one that says no cannot be constructed | `freighter-auth/src/yes_backend.rs`, `no_backend.rs` |
| index endpoints, root, health | configuration (`auth_required`, `allow_registration`, `crate_size_limit`), metrics | `config.json`, sparse entries, `/all`, three checks under a timeout | `freighter-server/src/index.rs`, `lib.rs` |
| client | its token, and whether it believes that the registry requires auth | `new`, `fetch_index`, `download_crate`, `publish`, `list`, `register`, `set_token` | `freighter-client` |

How they interact. The publish handler asks the authentication for permission,
then calls the index's `publish` with a future, the *end step*, that uploads the
tarball. The index awaits it in the middle of its update: under the crate's
file lock, or inside a database transaction. When the index fails after the
upload, the handler deletes the tarball. Downloads confirm the version with
the index and then fetch the tarball. `/all` and the search read the index
without its locks. The client asks for `config.json` once, keeps whether auth is
required, and from then on sends its token with reads only if it is; its
publications carry it always. Every handler is a future that hyper drops
when the client disconnects, so that each of them may end at any `await`.

What is hard, and what makes each part correct:

- *Locks that are created and dropped on demand.* Whoever drops the last
  reference removes the table entry, in two steps that are not atomic. There must
  never be two live locks for one name, no entry may stay for ever, and whoever
  waits must be served.
- *Read, wait, write back.* `publish` and `yank` rewrite the whole file after an
  `await` of any length. No update may be lost, and no entry may disappear, move
  or change its checksum, although requests are dropped and the server dies.
- *Two stores without a transaction.* A tarball and its index entry are written
  and undone separately: whatever is listed must be downloadable.
- *READ COMMITTED.* The statements of a publication see different snapshots, wait
  for other transactions, may deadlock, and a commit may take effect although its
  answer is lost.
- *A file and its copy in memory.* Operations change memory first; writing may
  fail, and a restart throws memory away. What was answered must survive.
- *A cache that is refreshed on demand* by requests that race, fail or are
  dropped while they download.
- *Reading a directory while it is written.* A listing sees directories one after the
  other and files later still, among temporary files that appear, are renamed or are
  left behind; no crate that was there may be missed.
- *Two sides that remember.* The client acts on what it learned from answers, some
  of which are lost, while the server restarts with less than it had, or with another
  configuration. A token once handed out must serve.

## Modules

| module | models | state and actions |
| --- | --- | --- |
| `KeyedRwLock` | what the index expects of its locks: one fair reader-writer lock per name | who waits, who holds, who is ahead of whom; `Ask`, `Enter`, `Leave`, `GiveUp` |
| `AccessLocks` | `AccessLocks`, `CrateMetaPath`, `LockedMetaFile` | `table` (the `HashMap` of `Weak`s), per request its position, name, `Arc` and mode. `NewPath` is the lookup under the mutex; `Unlock`, `TakeArc` and `on_unlocked` are the drop of the guard and the two halves of `Drop for CrateMetaPath` |
| `IndexFile` | the contents of a metadata file | `WithVersion` (append and new last line), `WithYanked` (`rfind` and rewrite) |
| `AtomicIndex` | "Operations performed via this client MUST be atomic" (`index/mod.rs`) | `index`; `publish`, `set_yanked` |
| `FsIndex` | the file index on a directory or a bucket | `file`; per request `pc`, `op`, the versions it read (`seen`) and its answer. One action per `await`: `Begin`, `Locked`, `Read`, `EndStep`, `Put`, `Return`, with their failures, `Cancel`, `Crash`, and `Land` for an abandoned S3 put that takes effect late |
| `PublishFlow` | the publish and download handlers over `FsIndex` (which it extends) and the tarball bucket | `bucket`, `stored` (`stored_crate`); `Accept`, `StoreCrate` (`EndStep` with `put_crate`), `IndexReturns`, `DeleteCrate`, `Pull`, `Disconnect` (with `Cancel`), `ServerDies` (with `Crash`); the other steps of the index are `InIndex`; `strays` is a history of the faults that leave a tarball behind |
| `Listing` | `list` and `search` of both indexes, with `append_dir`, `put_file` and `list_objects` below them, and the client that asks for page after page | `index`, `dirs`, `temp`, `left` are the storage; `state`, `todo` (directories still to be read), `keys` (`index_keys`) and `shown` the request. One action per step a writer can come between: `Walk` for a directory, `Pull` for a file, `Create`, `Write` and `Persist` for `put_file`; `ListObjects`, `ListRows` and `SearchRows` are one call each; `Page` cuts the rows by their `Rank` in the order of names |
| `PgIndex` | the PostgreSQL index, statement by statement | `rows`, `known`, `words`, `tags` are what is committed; `held` is what a transaction has inserted or locked; `Insert` passes over keywords the crate has (`got`), waits (`stuck`) for a transaction that is inserting the entry or, since "on conflict do nothing" waits for updates too, publishing the crate, and `Resume`s with the snapshot it started with: an entry that was there then (`"present"`) is used, one that came since is not found; `Commit` applies everything at once; `Fail`, `Deadlock`, `Cancel` |
| `FsAuth` | `FsAuthProvider`: every operation runs under one lock without an `await`, so each is one step | `mem` and `disk`; `Register`, `AddOwners`, `RemoveOwners`, `Publish`, `Look`, `Restart`, each write with its outcome |
| `Framing` | the body of a publish request: two lengths of four bytes and what they count | `Frame` (client), `Parse` (server); pure operators on sequences of bytes |
| `Session` | a client, the configuration of the server and the endpoints that look at the token, over `FsAuth` or the backend that says yes | `client` (its token, `auth_required`, made or not yet), `config`, `backend`; `FromReqwest` and `FromReqwestAgain` (the two requests of `from_reqwest`), `ClientReads`, `ClientPublishes`, `ClientRegisters`, `SetToken`, `Exit`, `OtherRequest`, `ServerRestart` |
| `CfAccess` | `CfAccess` and `CfAuthProvider` | `keys`, `next_fetch`, a clock; `Check` (under the read lock; `Granted` says what becomes of each kind of token), `StartFetch`, `Respond`, `Install`, `FetchFails` (under the write lock), `Rotate` for Cloudflare |
| `MC…` | model values for TLC | |
| `…_proofs` | proofs | |

`FsIndex` uses the lock of `KeyedRwLock`, which `AccessLocks` is shown to
implement. `PublishFlow` extends `FsIndex`: what a handler does with the index is a step of
`FsIndex` (`IndexSteps`), though it may start on files that an older server left. `FsIndex` and
`PgIndex` are both shown to implement `AtomicIndex`, with the committed versions
as the abstract index. `Session` extends `FsAuth` and `Framing`: its requests are those of `FsAuth`,
as `SessionIsAuth` proves. `Listing` stands beside the indexes: of their state it keeps how
many versions a crate has, of their writers what can be seen without the locks.

Variables marked *history* record what was answered; no guard reads them. One
exception keeps tokens, which are random numbers, from being drawn twice
(`Register` in `FsAuth`).

Definitions named `X_Something` under a comment "Mistake" are variants of `X`
with a bug somebody might well introduce. They are used nowhere: putting one
in the place of `X` makes the property listed beside it in `PROJECT.json` fail,
which shows that the property looks at the code.

What code outside the repository does is modelled from how it is used:
`tokio::sync::RwLock` is a fair queue; S3 may serve a request that the caller
takes for failed; PostgreSQL's locks on rows and unique indexes are held to the
end of the transaction, a statement's snapshot is taken when it starts, and
cyclic waits are aborted; Cloudflare serves some set of keys that changes.

## Runs

| run | asks | instance | states |
| --- | --- | --- | --- |
| `AccessLocks` | Are the on-demand locks one fair lock per name (`ImplementsFairKeyedLock`), never two live ones (`MutualExclusion`, `LiveEntryKept`), without leaks (`NoLeakedEntry`) or starvation (`WaiterServed`)? | 3 requests, 2 names, 3 addresses | 40 129 |
| `FsIndex_bucket` | Are publishing and yanking atomic over failures, cancellations and crashes (`ImplementsAtomicIndex`), with nothing lost (`SnapshotCurrent`, `AckedStay`, `EntriesImmutable`) and the last line right (`PublishLine`), and is no reader disturbed (`ReadersUndisturbed`)? | 3 requests, 1 crate, 2 versions, 2 checksums | 288 025 |
| `FsIndex_fair` | Does every request end (`RequestsEnd`), and is no version listed twice even if abandoned puts land late (`UniqueVersions`)? | 3 requests, 1 crate, 1 version, 1 late put | 86 748 |
| `Listing` | Does an answer show every crate that was there (`NothingMissed`), and nothing that was not published (`ShownIsCurrent`)? | 3 backends, 2 crates, 2 versions; lists, pages, searches | 3 432 668 |
| `Listing_leftover` | Does `/all` without pages list all crates? *Violated.* | directory, 2 crates, 1 version, no faults | |
| `Session` | Do tokens (`TokensKept`) and answered changes of owners (`OwnersAsAnswered`) survive failing writes, torn files and restarts; do logins stay unique (`UniqueLogins`) and crates owned (`NoOwnerlessCrate`); does the server take a frame for what was sent (`AsSent`); is the client's token never refused (`TokenServes`)? | 2 users, 2 tokens, 1 crate, lists of 3, 3 tarballs, 1 client | 47 000 |
| `FsAuth_claim_lost` | Does the first publisher keep the crate? *Violated.* | 2 users | |
| `PublishFlow_directory` | Is whatever is listed, or confirmed to a download, available (`ListedIsAvailable`, `ConfirmedIsAvailable`)? Is the undo justified (`FailedIsUnlisted`), and does it miss nothing but what a fault left (`StraysExplained`)? | 3 requests, 1 crate, 2 versions, 2 checksums | 213 001 |
| `PublishFlow_same_tarball` | Is it available when two requests carry one tarball? *Violated.* | 2 requests | |
| `PgIndex` | Do the transactions amount to atomic operations (`ImplementsAtomicIndex`)? Do keywords belong to the newest publication (`TagsOfNewest`), tarballs precede their versions (`ListedAfterEndStep`), acknowledged versions stay (`AckedStay`)? | 2 requests, 2 crates that depend on each other, 2 keywords in opposite orders | 977 556 |
| `PgIndex_raced` | Without faults, is no operation answered ServiceError? *Violated.* | the same | |
| `CfAccess` | Are the cached keys those of the newest reply (`KeysAsServed`), recent (`KeysRecent`), downloads apart (`FetchesApart`), and do requests end (`RequestsEnd`)? | 2 requests, 2 keys, 4 kinds of requests (one with a token that nobody was given), refresh every 2, clock to 4 | 278 713 |

Why the bounds are enough. Every module treats requests and names alike, so a
bound matters only if an error needs more of them. A lock error needs one request
that drops, one that holds and one that looks up: three requests; two names show
that entries do not touch each other, and the third address lets a lock be
replaced while two others are alive. In the file index everything happens per
crate: one crate, three requests (a holder, a waiter, one that fails), two
versions so that something is lost when the file is rewritten, two checksums so
that a retry may carry another tarball. A deadlock or a keyword race needs two
transactions and two things to insert; one crate has two versions whose keyword
lists differ. A listing treats crates alike
but for their order, so two of them are one that is shown and one that falls behind a
limit, between pages, or in a directory read later; the limits (`ObjectLimit` 1,
`DefaultLimit` 1, `MaxLimit` 2 for 1000, 10 and 100) lie where two crates reach them;
a client that wants pages begins with the first (`QueriesAssumption`), as whoever wants all of them does,
and two versions tell an old file from a new one. In `Session` the second user is the
one who takes a login or an ownership; lists of three names hold both users and one of
them twice, and the tarballs have the lengths 0, 1 and 257, where the parser decides,
where a good request is smallest and where a length needs its second byte; the limit of
12 bytes for a body lies between them. For the keys, the clock reaches the time when what was
first downloaded falls due again. The invariants that are proved (below) do not
depend on any of these bounds.

Bounds named in the modules: `MaxLate` (abandoned puts under way), `MaxListed`
(users in one request), `Publications` and `Requests` (what may be
asked), `MaxTime` (the clock), `MaxPage` (pages a client reads), `MaxLeft` (crates with a
temporary file that a crash left), `SharedTarballs` (`FALSE`: no two requests carry one
tarball *at the same time*; the run with `TRUE` shows why). Processes return to
idle and begin again, so the number of requests over time is unbounded. Symmetry
is used over requests, and over interchangeable values where the `MC` module says
so, and only in runs without liveness properties. Deadlock is checked in all
runs.

Three bounds deserve care. `FsIndex_bucket` has `MaxLate = 0`: puts that are
reported as failed may have taken effect, but at once; what later ones do is the
subject of `FsIndex_fair` and of the finding about late puts below. `PublishFlow_directory`
keeps the index in a directory (`Remote = FALSE`): with an index in a bucket a put
may be applied and reported as failed, and then `FailedIsUnlisted` does not hold,
as its mutant shows. And in `PublishFlow` a put or delete of a tarball that fails or is given up on
has been served when its handler ends, or never is (`MayHaveStored`, `MayHaveDeleted`). S3 may
serve it later: a delete that is served after a retry of the same tarball was listed takes that
tarball away. The danger is that of `PublishFlow_same_tarball`, but with the retry after the first
request instead of beside it; `ListedIsAvailable`, `ConfirmedIsAvailable` and their theorems
do not speak of it.

## Fairness

- `AccessLocks`: weak fairness of every step of a request except `NewPath` and
  `Cancel`. The executor polls a task that was woken, destructors run, and a guard
  is held for an operation that ends. Weak fairness is enough for `Grant` because
  the queue is a FIFO (`tokio::sync::RwLock` is documented to be fair): whoever is
  first stays first, and so stays enabled once the holders have left.
- `FsIndex`: weak fairness of `Step`, what a request does of its own accord:
  calls to the storage return, if only with an error. Nobody has to begin, cancel
  or crash, and a late put need not land.
- `CfAccess`: strong fairness of the steps that need the lock, since it is taken
  and released by others in between and the queue is fair; weak fairness of the end of a
  download. `reqwest::get` has no timeout of its own: that a download ends is an
  assumption, and without it every request waits behind it.
- `PgIndex`, `PublishFlow`, `Listing`, `FsAuth` and `Session` state no fairness and are
  checked for safety only. In all of them a client may stop asking, and what a handler
  must come to in the end is what `FsIndex` and `CfAccess` show of the locks it waits for.

## Proofs

Every safety property that a passing run checks is proved as well, for every value of the
constants that satisfies the assumptions named in the modules (`NoLock \notin Locks` and
the like) and, where a theorem says so, two more about the environment: `MaxLate = 0` and
`~Remote`, explained below. That requests to S3 for tarballs are served early or never is part of
the actions of `PublishFlow`, and so of every theorem about them.

*AccessLocks_proofs.* `TypeCorrect`, then the inductive invariant
`IInv == TypeOK /\ ArcInTable /\ OneName /\ MutualExclusion`. Mutual exclusion per
*name* is not inductive: it needs that all requests on a name share one lock, which
holds because the lock a request refers to is the one the table has for its name
(`ArcInTable`), and that a lock belongs to one name (`OneName`), which in turn needs
that an address is reused only when no weak reference is left. From it follow
`LocksExclude`, `LiveEntriesKept`, `TableIsTidied`, and `TableIsKeyedLock`: every
step of the table is a step of `KeyedRwLock` or leaves it unchanged.

*IndexFile_proofs.* Lemmas: what appending and yanking do to a file: unique versions, the
last line, and the entries are kept.

*FsIndex_proofs.* In two layers. `LockInv == TypeOK /\ LocksMatch /\ Lock!Exclusion`:
a request that reads, waits for its end step or writes holds exactly the lock
its operation asked for (`LockDiscipline`), and asks, enters and leaves only as
`KeyedRwLock` allows (`LocksUsedAsSpecified`, the other half of `TableIsKeyedLock`). On top of it
`DataInv` says that what a writer read is still in the file (`SnapshotCurrent`),
that it was allowed to write (`ReadyToWrite`), and the properties of the files. A write
of one request leaves the snapshots of the others alone because a writer is alone
(`OneWriter`). Results: `IndexSafe`, `FilesOnlyGrow`, `ReadersHaveTheFile`, `AcknowledgedStay`, and
`IndexIsAtomic`, the refinement of `AtomicIndex`. They assume `MaxLate = 0`, in words: no
abandoned put takes effect after the lock was released. The directory satisfies this; a bucket
need not; the finding about late puts below says what happens then. `TypeCorrect` and
`LockDiscipline` hold without the assumption, and so do `VersionsUnique` and
`LastLineIsNewest`: whatever lands late, a file is one that some request once
meant to write. Their invariant, `FilesInv`, says just that of the file, of what a
writer has read and of every put that is still under way, and needs no lock.

*PublishFlow_proofs* extends them, since every step of a handler is a step of the index or
leaves it alone. `FlowInv` adds to the index's `IInv` what the place of a handler says of
its request (`Handlers`), that an answer of the index still holds while the lock does (`Answers`:
what was confirmed is what the file has, what was published is in it), and that what is being pulled is
listed (`PulledIsListed`). It needs no more than the module assumes (`MaxLate = 0` among it), and yields
`FlowTypeCorrect`, `StraysAreExplained` and `IndexSafeInHandlers`. `FailedAreUnlisted` needs
`~Remote`: in a bucket a put may be applied and reported as failed. `ListedAreAvailable` and
`ConfirmedAreAvailable` need `~SharedTarballs` too (without it, the finding below). The difficulty
is the delete, which runs when the lock is gone and somebody else may have published the version:
`BucketInv` says that then the listed tarball is another one, and is there (`UndoHarmless`), because
the two publications carry different tarballs (`Apart`) and whoever publishes finds its own in the bucket
until the index has answered (`StoredThere`). The delete also removes the old path, where an
older server stored the tarball; `UndoHarmless` covers it by asking for the tarball at its new path.

*PgIndex_proofs.* `IInv == LockInv /\ DataInv`. `LockInv`: no entry is held twice (`HeldApart`),
and from `get-or-insert-crate` to its end a publication holds the row of its crate, from `insert-version` on
also the entry of its version (`EntriesHeld`). Hence what it has seen is still so (`SeenCurrent`),
although every statement has a snapshot of its own: the keywords it found are those of the crate, and nobody has
listed its version. That makes a commit one step of `AtomicIndex` (`PgIsAtomic`), and gives
`TagsAreOfNewest`, `ListedAreStored` and `AcknowledgedStay`; deadlocks, lost answers of commits and waits
change nothing committed. The module's assumptions suffice. `AtomicIndexSound`, about `AtomicIndex` alone, says that
its versions are unique and its entries immutable; with the refinement, `RowsUniqueAndKept` follows.

*Session_proofs.* First the owners alone. `LoginsUnique` and `TokensStay`, from
`OwnersInv`: the reverse index that `register` consults is empty or
complete and knows nobody twice (`Sound`), in memory and in the file, and tokens that
were handed out are known in both (`Knows`). The file must be in
the invariant, since a restart makes it the memory; and a torn file has to be
left out, since it can be neither loaded nor trusted. `CratesHaveOwners` and `ChangesStay`, from
`AuthInv`, which adds that the owners of each crate, in both copies, are some, finitely many, and as the
answered requests left them (`Good`). They rest on `RemovalKeeps`: whatever list of names is to be removed,
and in whatever order, somebody remains, and nobody is removed who was not named. That is an induction over the list;
`AfterRemoval` is a recursive function, of which it has to be shown that it exists (`RemovalExists`).
Then the composition. `FrameIsParsed`: `Parse` inverts `Frame` for all metadata and
every tarball that is not empty, when both lengths fit into 32 bits, because a
length is its four bytes and `split_to` undoes a concatenation; hence `PublicationsAsSent`.
`SessionIsAuth`: every step of the composition is a step of `FsAuth` or leaves the owners alone, so that
all that was proved of them holds in it (`OwnersWithClients`). With it `TokensServe` follows
from `ClientInv`: a client's token, if it is a token at all, was handed out (or the backend
asks for none), and the client believes that auth is required unless it is only since it was made.

*Listing_proofs.* `NothingMissed` looks at finished answers; the invariant says where a crate
is that is looked for and not shown yet (`Sought`). In an index of files (`FilesSought`), it lies in a directory still to be
read, or its file is among the keys; and no rename removes that key, since `put_file` replaces
the file and only the temporary name is lost. In PostgreSQL (`RowsSought`), its rank is not below the
pages read so far; publications between two pages can only raise it (`RankGrows`). A page behind
which there is none therefore leaves nobody out (`AnswersMissNothing`). `AnswersAreCurrent` needs that
no crate has fewer versions than when the listing began (`Grown`), which holds because a put under
way carries exactly the next version (`PutsFine`).

*CfAccess_proofs.* `KeysAsServed` is not inductive, since it says nothing of a reply that
is under way: `IInv` adds that at most one download is (`OneDownload`, from the
write lock) and that its reply is newer than what is cached (`ReplyAsServed`).
`RetryLater` and `DueInTime` relate `next_fetch` to the attempts. Results:
`TypeCorrect`, `CacheIsAsServed`, `DownloadsApart`, `VerifiedWithRecentKeys`.

The induction theorems of the library take an operator as a parameter, which the installed
provers cannot instantiate. `NatInd` in `Session_proofs` states induction for a *set* of numbers instead, and is
proved from the well-foundedness of the natural numbers.

Only model-checked: the liveness properties `WaiterServed` and `RequestsEnd` (of `FsIndex` and of
`CfAccess`) and `ImplementsFairKeyedLock`, since the prover does not handle fairness and `ENABLED`.

## Findings

- `FsAuth_claim_lost`: the ownership that `publish` gives to the first publisher is
  not written to the file. After a restart the next publisher gets the crate.
- `PublishFlow_same_tarball`: the undo runs after the lock was released, and a
  retry with the same tarball may have stored and listed it again by then: a listed
  version loses its tarball.
- `PgIndex_raced`: `on conflict do nothing`, followed by a select with the snapshot of the
  same statement, finds nothing when the other transaction commits while the
  insert waits; a publication fails with ServiceError. The order in which keywords and
  dependencies are inserted also allows deadlocks, among them one of two publications
  whose crates depend on each other, also when a row was there before: the insert of a
  dependency waits for whoever updates its row.
- `Listing_leftover`: the file index lists every file below `index/`, also the temporary one
  that `put_file` has created and not filled yet. It has no versions, `list`
  looks at the first one for a name, and `/all` is answered with status 500. A crash between
  the two makes that last until the file is removed by hand.

What the models show as well, without a run of its own:

- With `index_s3`, a put that was given up on (its future was dropped) may reach the
  bucket after the lock was released and overwrite a later update, though the trait says
  operations MUST be atomic. To see it, give `FsIndex_bucket.cfg` `MaxLate = 1`:
  `ImplementsAtomicIndex` is violated, and so are `SnapshotCurrent` and `ReadersUndisturbed`.
- `sync_owners` writes through a `BufWriter` that is dropped without a flush, so that an
  error of the last write is lost, and the truncated file replaces the good one while
  `register` answers with a token (the outcome `"torn"` in `FsAuth`). The server goes
  on from memory; once restarted, it answers every request about owners with an error.
- A lost answer of `register` leaves the login taken, with a token nobody has.
- At a registry that requires auth a client cannot be made without a token, so that
  the command line tool cannot register there (`FromReqwest` panics).
- `per_page.map_or(10, |x| x.max(100))` makes 100 the least number of results of a search
  that names one, where `request.rs` says "Number of results, default 10, max 100"; the
  file index caps it again, PostgreSQL does not. `chunks(0)` panics for pages of no crates, and the file index ignores pages.
- `/all` of a file index that is still empty is answered 404 in a directory and with an
  empty list in a bucket; `list_objects` gives at most 1000 keys and is asked once.

## Not modelled

- Puts and deletes of tarballs that S3 serves after their handler has ended (see the bounds
  above); those of metadata files are (`Land` in `FsIndex`).
- A token that names no key at all, which `validated_user_id` refuses before it looks at the keys.
- The endpoints that check a token and forward to one operation (yank, unyank, owners) as
  handlers of their own: in `FsAuth` and the indexes they are the operation. Routing, metrics,
  static pages, start-up: no state that anything else depends on. The health check: three
  checks joined under a timeout, whose only effect is the refresh of the keys (`CfAccess`).
- Validation of metadata, paths of index files, parsing of tokens and cookies, the
  repair of old entries when they are read (`ensure_correct_metadata`): pure functions
  about the spelling of strings.
- The command line tool's part of `freighter-client`: it reads a manifest and writes
  downloads to files, in one process, without going back.
- The number of dependents by which PostgreSQL orders what it finds: `SearchRows` takes
  any order. Of an entry, `Listing` keeps its crate and how many versions it shows.
- HMAC of tokens, SHA-256 of tarballs, signatures of JWTs: values are told apart
  by model values.
- Spelling of names: the owners are kept by the name as spelled, the index by the
  lowercase name, the tarballs by the publisher's spelling. The modules use one set of
  names (planned with the composition of ownership and publishing).
- In the PostgreSQL index, features and the contents of dependencies, which are rows of
  the new version alone, and registries of dependencies; keywords stand for
  categories as well, which the code treats alike.

## Plan

Done, in this order: the locks and their abstraction; the file and the atomic index;
the file index; the handlers over it; the file authentication; the PostgreSQL
index; the cached keys; proofs of the locks, the file index and the cache; the listings of
both indexes beside their writers; client, framing and configuration over the
authentication; proofs of the file authentication, the composition with the client,
and of the file index with late puts; proofs of the handlers over the file index, of the
PostgreSQL index and of the listings, and of what removals leave.

Next:

1. Safety lemmas that the liveness properties rest on: a request waits only behind
   requests that wait for the same name, and these queues have no cycle, so that somebody
   is always first.
2. `ListedIsAvailable` for an index in a bucket, under the weaker condition that no put is
   applied and reported as failed, in place of `~Remote`.
3. Ownership and publishing composed, with names spelled in different ways, which the
   three stores fold differently.
4. The handlers over `PgIndex`: a commit whose answer is lost is followed by the delete of a
   listed tarball, which no property looks at yet.
5. Deletes of tarballs that are served late, with `Admissible` widened to the requests whose
   delete is still on its way.
