# Gokapi: TLA+ models, model checks and proofs

Gokapi is a self-hosted file sharing server written in Go: files are uploaded,
get a limit of downloads or a date of expiry, and are removed when the limit is
used up or the date has passed. It keeps its data in SQLite or Redis and the
contents in a data directory or in S3. Every HTTP request is a goroutine of its
own; background goroutines delete files after a delay and clean up every hour.
There is no transaction that spans two calls of the database, so what is
interesting is what happens between two calls. The browser side is JavaScript
without a framework: its pages change their documents from the answers to
requests that run at the same time, and several tabs share one event stream.

All paths below are relative to the repository.

## 1. Inventory

The components, the state each keeps, its operations, what it calls, what is
hard about it, and what makes it correct. `PROJECT.json` lists the same parts
with their files, and every hazard at its line.

| Component | State | Operations | Interacts with | Hard | Correct when |
|---|---|---|---|---|---|
| Download allowance (`storage.GetFile`, `ServeFile`, `apiEditFile`, `apimutex`) | row of a file: `DownloadsRemaining`, `DownloadCount`, `UnlimitedDownloads`, `ExpireAt`; 256 striped mutexes | look up, recheck and count, edit, change owner, save without the mutex | database, clean-up | stale rows, lost updates, locks on return paths | no download beyond the limit, none lost from the count, everybody is answered |
| Stored files (`FileServing.go`) | rows, sources (named by SHA1), hotlinks, status of downloads | upload, duplicate, replace, delete now or later, restore, edit, download, `CleanUp` | database, file system, `downloadstatus` | rows that share a source, snapshots in `CleanUp`, crashes, lost goroutines | live files keep their content, nothing is orphaned, deleted files go |
| End-to-end lock (`e2emutex`, `/e2e/*`) | per user: mutex, `isLocked`, timer; the information | lock, unlock, 30 s timer, get, set | clients: command line uploader, upload page | a timer against unlock, clients that vanish or ignore errors | sessions exclude each other, no entry is lost, no lock for ever |
| File requests, reservations (`filerequest`, `chunkreservation`, `public_upload.js`, `admin_ui_filerequest.js`) | limits, reserved uploads with expiry; queue of the guest's page; row and list of the owner's | reserve, upload, complete, expire; edit, delete, restore | API, rows | check then reserve, expiry during an upload, pending deletions left out of counts, answers that are lost or late | no more files than allowed, each stored once and whole, pages that settle and tell the truth |
| Chunked uploads (`chunking`) | partial files | new, write at offset, complete | stored files | chunks that come again, late or after the completion | the file is complete when it is processed |
| Upload status and events (`processingstatus`, `pstatusdb`, `sse`, `sse-worker.js`) | highest status per chunk, listeners with a buffer of 64; ports of the worker, its stream and timer | set, publish, listen; connect, relay, shut down | upload page | reordering by goroutines, drops, a listener that joins late, tabs that vanish | one stream while tabs listen, and every upload is shown in the end |
| Upload page (`admin_ui_upload.js`, `end2end_admin.js`, `admin_ui_zip.js`) | tables of several tabs, progress bars, the encrypted list of keys, selections for an archive, the edit dialog | upload, delete, undo, edit, archive | API, event stream, WASM | tabs that act on the same file, chains of promises on one document, dialogs with old values | tables tell what the server has, no key is lost, an archive is whole |
| Sessions and tokens (`sessionmanager`, `csrftoken`, `downloadPasswordToken`, `presign`) | sessions, tokens with expiry | create, renew, log out, delete all of a user | users | renewal against deletion, one-time use | a user stays logged in, nobody who is deleted or has logged out gets in, a URL serves one download |
| Users, permissions, API keys (`users`, `tokengeneration`, API, `admin_ui_users.js`, `admin_ui_api.js`) | users, keys, permission bits, temporary tokens, the two pages | create, change permission or rank, reset, rename, delete, adjust keys | sessions, files | rows saved whole after a read, mutexes that do not match, cascades of requests | no key has a permission that its user lacks, the pages are true |
| Log (`Logging.go`, `admin_ui_logs.js`) | the file, what the page has of it | append, read since, delete, poll, filter | all | stamps of a second, late goroutines | the page lacks no line |
| Server statistics (`serverstats`) | traffic, saved periodically | add, save, clear | downloads | a struct replaced with its mutex, a save that never becomes due | totals do not go back, and are saved |
| Rate limiter | token buckets | allow, clean | web server | none of its own; buckets are a library's | - |
| Database providers (SQLite, Redis), `dbcache`, migration | tables | one call each | all | non-atomic pairs of commands in Redis | both promise the same |
| Configuration, setup, environment | JSON, environment | load, upgrade, save | start of `main` | none after the start | - |
| Encryption, WASM clients | keys | encrypt, decrypt | uploads, downloads | streams, cryptography | - |
| S3 storage | bucket | as the local driver | stored files | an external service | - |
| API routing, authentication front ends, other web pages and scripts, command line uploader, helpers and tests | little | parse, redirect, render | all | mostly input and output | - |

### How the modelled components interact

A public download calls `GetFile`, which reads the row and looks for the source.
`ServeFile` locks the stripe of the file, reads the remaining downloads again,
counts, unlocks, opens the source and registers in `downloadstatus`. `CleanUp`,
started every hour and by each deletion, reads all rows, drops those that have
expired and have no registered download, and removes a source when no other row
has its SHA1. Uploads look for a source of equal content before they store
theirs. No lock is held by both sides: `apimutex` serialises `ServeFile` and some
edits, but neither `CleanUp` nor an upload or a deletion takes it.

A guest reserves an upload (a uuid), sends its chunks, and completes it; a
goroutine then turns the chunk file into a stored file, releases the
reservation, and tells nobody when it fails or is lost in a restart. An upload of a logged-in user
reserves nothing; its goroutine sets statuses, which are saved and published
to the event stream. The shared worker of the browser relays them to its tabs, and
relays among the tabs what they add and delete. The page asks for the row of a
finished file and, when it is encrypted, adds its key under the end-to-end lock.
The pages of users and keys call the API with temporary tokens, which are
API keys as well, and which a change of permissions sweeps as it does the others.

## 2. Plan

| Order | Module | Subject | State |
|---|---|---|---|
| 1 | `DownloadAllowance`, `Downloads`, `Downloads_proofs` | the allowance and its implementation | checked, proved |
| 2 | `E2eMutex`, `E2eMutex_proofs` | the end-to-end lock and its clients | checked, safety proved |
| 3 | `Storage`, `Storage_proofs` | files, sources, hotlinks, `CleanUp` | checked; types, live sources, served rows and orphans proved |
| 4 | `FileRequests`, `PublicUpload`, `FileRequestPage`, composed in `FileRequestSystem`; `FileRequests_proofs`, `FileRequestFiles_proofs` | reservations, chunks and completion, the page of the guests, the page of the owner | checked; types, pages, quota, stored files and the owner's list proved |
| 5 | `SseWorker`, `UploadStatus`, `UploadPage`, `EndToEndPage`, `ZipUpload`, `EditDialog`, composed in `UploadSystem`; `UploadSystem_proofs` | the upload page in several tabs, with what it talks to | checked; types, the worker, the tables, keys of encrypted files and the edit dialog proved |
| 6 | `AdminApi`, `UsersPage`, `ApiKeysPage`, `LogPage`, `Admin_proofs` | users, keys and tokens with their pages, the log | checked; types, bounds of keys, true pages and the log proved |
| 7 | `Sessions`, `Sessions_proofs` | sessions with overlapping requests, logouts, deleted users; presigned URLs; composed with the pages of administrators in `AdminSystem` | checked, proved |
| 8 | traffic, `dbcache`, the Redis provider | what has state and is left | open, see section 6 |

Abstract specifications worth stating are the allowance of a file (done) and the
quota of a file request, which is stated as an invariant.

## 3. Modules and the code they stand for

### `DownloadAllowance` and `Downloads`

`DownloadAllowance` is the promise of "Allowed downloads": `Grant` only below the
limit, and `SetLimit` starts anew. `Downloads` is the code. One step is one access
to the database or one operation on the mutex.

* `meta` is the table, `lock` the stripes, `Stripe` the hash of a file id,
  `snap[p]` the `models.File` variable of handler `p`, `pc[p]` its next step.
* Requests: `LookupFound` / `LookupMissing` (`GetFile`), `ServeLock`, `Recheck`,
  `Refuse`, `Count`, `ServeUnlock` (`ServeFile`). `ServeLock` chooses between a public
  download, which is checked again, an API download with `increaseCounter`, which
  is not, and an API download that is not counted.
* Editors: `EditLock` ... `EditUnlock` with `apiEditFile` and `apiChangeFileOwner`.
* Writers: `DeleteFile`, `DeleteFileSchedule`, `CancelPendingFileDeletion` and
  others that read a row and save all of it without the mutex
  (`WriterRead`, `WriterWrite`).
* `DeleteMetaData` removes a row at any time, as `CleanUp` and `apiDeleteUser` do.
* `limit`, `granted`, `counted` and `exceptions` are history variables.

Three things take a file out of the protocol that keeps its allowance, and
`exceptions[f]` records which have happened: it was `"unlimited"` for a while, an
`"unchecked"` download was counted, or an `"unguarded"` save took place. Each of
them really does harm: an unguarded save writes an old count back
(`FileServing.go:1015`), two unchecked downloads overdraw a limit of one
(`Api.go:630`), and a download that looked up an unlimited file is granted against
a limit set since. The properties hold up to the first such event and say so.
After a switch to unlimited downloads `ServeFile` may also refuse a file that has
not expired, as it decides on the row it read before (`FileServing.go:642`).

### `E2eMutex`

The critical sections of `timedMutex` under `stateMutex` are one step each:
`MutexLock` (waiting for the mutex), `SetLocked`, `unlock`. `IsLocked` reads without
it, so `GetChecked`/`SetChecked` and the database call that follows are two steps. A timer
fires (`TimerFires`) and then waits for `stateMutex` (`TimerUnlocks`), because
`Timer.Stop` does nothing to one that has fired. `Client` is lock, get, set, unlock
of `addE2EFileInfo` and of the upload page. A user is `disturbed` once a client has
kept the lock for 30 seconds, or has unlocked after its lock request failed.
From then on the timer of one lock or the unlock of one client may release
the lock of another, as `unlock` does not look whose lock it releases. A lock request
fails before its handler runs (`LockRequestFails`), or its answer is lost after the lock was granted
(`LockAnswerLost`): the client unlocks in both cases, in the second what is its own.

### `Storage`

`files` is the table, `source[h]` the file `h` of the data directory with the key
that encrypts it, `hotlinks` and `downloading` the other tables. One
constant, `Scenarios`, gives the requests, the files at the start and the bounds;
the variable `scenario` picks one of them at the start and never changes. A process that
deletes goes on as `CleanUp`, and one that schedules a deletion goes on as the
goroutine that sleeps. `GetFile` (a row, then the presence of its source) is one
step. `CleanUp` is modelled call by call: the snapshot
(`CleanUp`), the choice of an element in any order, as Go iterates over a map
(`CheckElement`, `SkipElement`), the inner loop (`CheckReferenced`),
`RemoveSource`, `RemoveRow`, the recursive call (`LoopEnds`, counted in
`run[p].calls`), `cleanHotlinks` (`CheckHotlink`, `DeleteHotlink`) and
`CleanUpReturns`. `Crash` forgets all requests, goroutines and the download status.
`SaveMetaData` keeps a history, `revived`: files whose row was due for removal or
gone when a save of an older copy made it live again. `RemoveOldSource` is what a server that encrypts
does with a source that no row knows: it removes it, and `NewFileFromChunk` fails, having removed and closed
its chunk file before (`NewFile`, which still has the content, goes on).

What the properties leave out, because the code does it: a crash between the two saves of an upload and the
deletion of a user leave sources without a row, and so does a `CleanUp` that drops the row of a file whose content was
replaced since its snapshot (`NoOrphans`); that `CleanUp` takes a row of a live file as well, whose old content it finds gone
(`ReplacedSince` of `AvailableRowsKept`, which the scenario `ReplacingCleaned` reaches);
files that a late restore, an edit or a cancellation has `revived` may lose their row or their source (`AvailableRowsKept`,
`LiveFilesStored`).

### `FileRequests`, `PublicUpload`, `FileRequestPage`

`FileRequests` is the server: `request` the row and its API key, `reservation` the
map of `chunkreservation`, `chunkFile[u]` the chunks in the partial file of uuid `u`,
`jobs` the goroutines of `doBlockingPartCompleteChunk` with the rows they save, `wire` the
requests that have not been answered. A handler is as many steps as it makes
separate calls: `ReserveCheck` reads the count and `ReserveNew` reserves, `AddCheck`
extends the reservation and `NewChunk` writes, `JobOpen`, `JobMove`, `JobSave` and
`JobRelease` are the completion. A job misses its chunk file (`JobMisses`), or fails for another reason: size, hash,
encryption, disk or move (`JobFails`). Either way it removes the chunk file by its name (`JobDiscards`), keeps its
reservation, and the page goes on showing the file as completed. `ServerRestart` ends handlers and jobs and forgets the
reservations; `Restart` of `FileRequestSystem` cuts the connections with it. `late` and `exceptions` are history: uploads that were
written to by a request its page had given up, and what has happened that lets a
file request have too many files: two reservations that passed the check at once
(`overbooked`), a file saved without its reservation (`unreserved`), a deletion
taken back (`restored`), a new limit (`edited`).

`PublicUpload` is the page of a guest. A step is what runs between two events of
its event loop: `createUploadBox` (a file is selected), `initUpload`, `StartEntry` and
`Resume` (what an answer makes `startUpload` and `withRetry` do), `removeBtn`,
`setUnload`, `ConnectionFails` (before the request was handled, or when it was and the answer is lost). `loop[p]` is where the asynchronous function is: the
entry, the chunk, the attempt. The server's answer is put into `answer[p]`.

`FileRequestPage` is the page of the owner: the row, its list of files, the toast
with the undo button, the dialog with its limit, and `calls` to the API. A row
that the script has built (`createFileRequestRow`) differs from one of the template
in ways the model keeps (`row.built`).

### `SseWorker`, `UploadStatus`, `UploadPage`, `EndToEndPage`, `ZipUpload`, `EditDialog`

`SseWorker` is the shared worker: `ports` its array, `source` and `timer` its two
variables, `streams` the connections that exist, `outbox` and `inbox` the messages
between a tab and the worker. `UploadStatus` is the server: `job[f]` the
completion of an upload, `saved` the status map, `publishers` the goroutines that will publish,
`listener`, `replay` and `queue` one call of `GetStatusSSE`. `UploadPage` adds the tabs:
`rows[t][f]` the rows of file `f` in the table of tab `t` (a row is shown, busy, or in the
290 ms of its disappearance), `rowCount`, the undo toast, `upload[f]` the state of the
progress bar, `calls` the requests. `EndToEndPage` adds the encrypted page:
`chains` are chains of promises (lock, get, parse, store, unlock), `fileInfo` and
`uploads` the variables of the WASM program that all chains share, `storedKeys`
what the server has, `lock` the mutex of `E2eMutex` for one user. `ZipUpload` and `EditDialog`
share no variable with the others: the first is the selection, naming and
compression of an archive, the second the dialog of one file with the two
requests that save it.

### `AdminApi`, `UsersPage`, `ApiKeysPage`, `LogPage`

`AdminApi` has the tables `user` and `key` (temporary tokens are keys) and `calls`. A
call is a record with what it asks for and where its handler is: it needs a token (`token`,
`generate`), is `sent`, has `arrived` (the caller's rights are checked), is at
`work` with the row it has read, the mutex it holds and what it has still to save,
and has an answer. The two pages are what the user sees: cells with an indicator, the names, the
rows, the dialog of a new password. `LogPage` is independent of them: the log file
as a sequence of lines with their second, `writers` the goroutines that will append, `poll` the
request of the page, `logContent` and `textarea` what it has and shows.

### `Sessions`

`account` is the table of users, `session[s]` the row with the number `s` (numbers stand for the random strings and are
never given out twice), `cookie[b]` the cookie of a browser, `request[r]` a request with its handler,
`admin[a]` a call of `apiResetPassword` or `apiDeleteUser`, `url[k]` an entry of
`presignedUrls`. A step is one access to a table, to the map or to a cookie:

* `Send` takes the cookie along, unless it has expired in the browser. `GetSession`, `GetUser` and
  `useSession` are `IsValidSession`; the renewal saves the new session there and deletes the old one
  in `DropRenewed`. `VerifyPassword` and `Login` are `showLogin`, `LogoutSession` is `/logout`.
* `ShowChangePassword` and `SavePassword` are `changePassword`, which saves the row of
  the user that `requireLogin` has read; `SaveReset` does so in `apiResetPassword`.
* `Presign`, `GetPresigned`, `GetFile`, `DeletePresigned`, `ServeFile` are `presign.go` and
  `downloadPresigned`. `ServeFile` may fail when the URL is already deleted, which loses the URL:
  the caller ignores its result. `cleanExpiredSessions` and `cleanUp` are the garbage collections.
* `Answer` sets the cookie, in any order of the answers. `AnswerLost` and `Restart` are
  the faults; a restart forgets handlers and presigned URLs and keeps the tables.

Which races are named by the properties is kept in history variables: `evicted` has the browsers whose
session was ended by something but its expiry (a logout, a reset or deletion, a lost answer), `out` those
that have shown the answer to a logout, `raced` those where another request had already passed
`GetSession`, or had another session, when the logout was answered, and `revived` the users that
were saved again after their deletion. `request[r].late` says that a request was sent after
the deletion of its user. The clock-like comparisons are those of the code: a session is
renewed strictly after `RenewAt`, and invalid strictly after `ValidUntil`. In `AdminSystem` a
scenario is about the pages, the log or the sessions, which do not touch each other's variables:
`apiResetPassword` appears in `AdminApi` with the row that it saves and in `Sessions` with the sessions that it ends.

## 4. Runs

| Run | Module, cfg | Question | Size |
|---|---|---|---|
| `downloads` | `MCDownloads`, `Downloads.cfg` | mutex, exact count, conserved allowance, no overdraw, refinement, every handler answered | 161,905 states |
| `downloads_stale_limit` | `DownloadsStaleLimit.cfg` | violation: a limit is exceeded by a download that began while the file was unlimited | |
| `e2e_mutex` | `MCE2eMutex`, `E2eMutex.cfg` | releasable, exclusive, no entry lost, own release, lock requests answered | 40,764 states |
| `e2e_mutex_silent_failure` | `E2eMutexSilentFailure.cfg` | violation: success reported, nothing saved | |
| `storage` | `MCStorage`, `Storage.cfg` | ten scenarios: content kept, nothing orphaned, rows kept, deleted files and their content removed in the end | 168,168 states |
| `storage_encrypted_uploads` | `StorageEncryptedUploads.cfg` | violation: of two encrypted uploads of one content the second fails, and takes the first one's content | |
| `storage_upload_race` | `StorageUploadRace.cfg` | violation: `CleanUp` removes the source an upload relies on | |
| `storage_two_clean_ups` | `StorageTwoCleanUps.cfg` | violation: two `CleanUp`s with different snapshots, one of them during a download, orphan a shared source | |
| `storage_restored_hotlink` | `StorageRestoredHotlink.cfg` | violation: the hotlink of a file that is to be restored is removed | |
| `file_requests` | `MCFileRequests`, `FileRequests.cfg` | nine scenarios of a file request: quota, whole files, stored once, pages that settle and are true, uploads that end, reservations that are released | 161,776 states |
| `upload_page` | `MCUploadPage`, `UploadPage.cfg` | twelve scenarios of the upload page: one stream, true tables, uploads that are shown, keys kept, whole archives, edits that keep what was not touched | 159,222 states |
| `admin_pages` | `MCAdminPages`, `AdminPages.cfg` | twelve scenarios: keys bounded by their owner's permissions, true pages, complete log; of sessions: who is logged in stays so, who is deleted or logged out stays out, a URL that serves two downloads was shared | 898,355 states |

### Bounds, and why they are enough

* `Downloads`: one file, two downloads, one editor, one writer, a clock up to 2,
  a limit of 1 and a file that is valid for one tick. Two downloads are what an
  overdraw of a limit of one takes, an editor adds a stale copy and a new limit,
  a writer a lost update, the clock an expiry between check and use. More files
  on one stripe only wait for each other, which the theorems cover for any number.
* `E2eMutex`: three clients of one user: one whose timer is late, one that holds
  the lock, one that waits. Users share nothing.
* `Storage`: two files, two contents and up to five requests. A shared
  source needs two rows. `Delay` is one tick, `maxTime` at most 3, so that a
  scheduled deletion comes due (one tick) and is seen as past by `CleanUp`
  (strictly later); `maxCrashes` is 0 or 1. `ExpireAt` of files that do not expire is
  beyond the clock. A replacement meets downloads in one scenario and a `CleanUp` in another; no run has an upload
  or a duplication of the replaced content beside it.
* `FileRequests`: two guests with a file of two chunks each, one owner, two uuids,
  three jobs (a completion may come twice), one failed connection, which may be a restart, two calls of the
  owner's page. Two guests are what a race for the last file takes; two chunks
  distinguish a whole file from a part. The scenarios separate what does not
  interact: one upload with every fault, two guests, an unlimited request, the
  owner's deletions, the deletion during an upload, the deletion beside an edit, the editing during an upload, creation by a
  user and by an administrator. The owner's deletion of a request reaches the server only from a row without files, which needs
  no modal (`Delete`, `EditDelete`): the modal's button is not found (section 6), so `Edit`, which begins with a file, opens the modal
  and goes no further. `NewLimits` and `defaultLimits` hold numbers of
  one and of two digits, because `checkMaxNumber` compares strings.
* `UploadPage`: two tabs, two files, up to four clicks, one failure, a channel of 2
  messages where the code has 64: both are filled by statuses that nobody reads. The folders of `ZipUpload`
  have equal names on both levels, an empty folder twice and a name that a suffix would
  make; names have at most two characters of six kinds. `MaxTouched` is 1, as the
  fields of the dialog do not interact.
* `AdminPages`: up to three users and two keys, two or three actions, one
  failure, four tokens; a log of two lines and the deletion's, two seconds, three polls and two events
  (a line before, in and after the second of a poll).
  For sessions one user (users share nothing but the tables), two browsers, two requests at a
  time, three or four in all: a login and two renewals of the same session, or a logout between them.
  `RenewAfter` is 0, so that a session of the last tick is renewed, `Lifetime` is 1 and time
  goes to 2, so that sessions are renewed, expire and are collected. `PresignLife` is 0.
  The requests of one browser are interchangeable (symmetry). The types of `Downloads`,
  `E2eMutex` and `FileRequests` are proved, and not checked again.
* Deadlock is not checked: requests end, and a server without requests rests.
  Hanging is covered by `AllAnswered`, `LockAnswered` and `DeletedIsRemoved`.

### Fairness

* `Downloads!FairSpec`: every handler is a goroutine, the Go scheduler runs all that can
  run, and a `sync.Mutex` is handed over to a waiter after at most 1 ms, so each
  handler's steps are weakly fair. `Tick` and `DeleteMetaData` are not.
* `E2eMutex!ServerFairSpec`: only the server's steps and the timer of the runtime
  are fair. Clients may stop at any point.
* `Storage!FairSpec`: goroutines that have begun go on, `CleanUp` comes back every hour,
  time passes, and a download status expires after 24 hours (`StatusExpires`).
  Requests need not come, and a slow client may never finish its download. It is asked for in the
  scenarios of `Deletions` (deletions, downloads and `CleanUp`), the only ones that `DeletedIsRemoved` is about.
* `FileRequestSystem!FairSpec`: the event loop of each page, the handlers and
  goroutines of the server, the expiry of reservations and the clean-up, which is a
  goroutine with a timer. Guests and owner need not act, a connection need not fail.
* `UploadSystem!FairSpec`: the event loops of the tabs and of the worker, handlers,
  jobs and publishers, the stream, and the end of a connection, which the
  server imposes (`maxConnection`) and after which the worker opens the next one.
* `AdminSystem!Spec` has no fairness: its properties are invariants.

### Findings

Each violation run contradicts a sentence of the documentation or of a comment,
quoted under `findings` in `PROJECT.json`. `storage_encrypted_uploads` is a bug of the code: `NewFileFromChunk` closes and removes
its chunk file because the source existed when it looked, after `copyEncryptionInfo` has removed that source, and
then encrypts the closed file. The same branch fails for a source left by a crash or by the deletion of a user.

## 5. Proofs

The modules that end in `_proofs` are checked by TLAPS, for all values of the
constants that satisfy the named assumptions: disjoint kinds of processes, a stripe
for every file, rows as uploads make them, a user for every session, values that
are told apart (`NoFile`), file requests that do not begin above their limit, an owner for every browser.

`Downloads_proofs`:

* `LockInv` (types, and: who is at a critical program point owns the stripe of its
  file, and nobody else holds a stripe) gives `TypeCorrect` and `MutexHeld`.
  It is needed because mutual exclusion alone does not say that `Unlock` frees
  one's own lock.
* `CountInv` adds that an editor between read and save has a copy whose count is
  the table's: this is what the mutex buys. It gives `CountNeverLost`.
* `AllowanceInv` adds the same for `DownloadsRemaining`, and that a request about to count
  has `granted < limit`, because `Recheck` read the table under the mutex. It
  gives `AllowanceIsConserved`, and step by step `AllowanceImplemented`: `Count` is
  `Grant`, `EditWrite` is `SetLimit`, and all other steps stutter.
* `OverdrawInv` weakens this to files that have been unlimited and gives
  `NeverOverdrawn`.

`E2eMutex_proofs`:

* `MutexInv` (a mark comes with a timer of the same user, only the current timer is
  armed, one session at a time is between `MutexLock` and `SetLocked`) gives
  `AlwaysReleasable`: no order of lock, unlock and timer calls unlocks a free
  `sync.Mutex`, which would end the process, or leaves it locked for ever.
* `PromptInv` adds, up to the first disturbance of a user: the current timer names the
  session between lock and unlock, and what that session read is what is stored.
  It gives `PromptClientsExclusive`, `PromptEntriesKept` and `PromptOwnRelease`.

`UploadSystem_proofs`, for any number of tabs and files and any scenario:

* `WorkerInv` is the types of the worker with `OneConnection`. Neither is inductive
  alone: without the one connection the number of streams could fall below zero, and
  without the types a port is not one of a tab. It gives `WorkerTypeCorrect` and
  `OneConnectionHolds` for the worker and the tabs that use it in any way.
* `SystemInv` has a part for each module: `PageSound` (the page, its worker and the server), `ChainSound`, `ZipInv` and
  `EditInv`. Requests and chains are told apart by numbers, and a new number exists only because
  those under way are finitely many (`UnusedNumber`), so that this is part of the invariant. `EditInv` relates
  the request of the dialog to the row it was made from: what the user has not touched is sent as
  the row had it, in the form that zeros and unlimited values take. It gives `UploadTypes`,
  `OneConnectionOfPage` (the tabs of this page do what the worker expects) and `EditKeeps`.
* `KeysInv` is about encrypted files. `UploadsOnce` says that an upload runs once: it has one request to complete it and one job,
  before which nothing asks for the file; so a key is there only for a file that exists, and no old key can be
  mistaken for one of a file that is yet to come. `KeysSafe` holds until a lock expires or fails: who is past its
  lock request has the lock, alone (`Exclusive`), and from reading the document until it has stored it knows
  every key in it that a file still needs (`ChainKeys`). `KeysKept` alone says nothing of what a chain is about to
  store. It gives `KeysHold`.
* `TableInv` is about the tables. `TableTrue` looks at a moment when nothing is on its way, so the invariant has to
  say what is in every queue. For a file with a table that is not excused, `OneActor` says that one tab at
  a time has a request about it or notices the worker has not forwarded, and that this tab has read what
  others told; the notices in a queue alternate between added and deleted (`Alternates`), and the last of them is
  `Word`: what the answers so far have told, which lags behind the server while an answer is on its way. A tab follows
  its last notice, or else its row is true (`RowFits`). A table loaded before the file was added need
  not show it until somebody tells (`Told`). The number in the foot (`CountTrue`) is that of the rows
  that are not disappearing. What a step of one file does to the others is proved once (`Untouched`), and so is what an answer
  does to the queues (`TableOfNews`). Without a shared worker nothing is claimed, and no tab has a port
  (`NoWorker`). It gives `TableHolds`. The first attempt failed, for a reason: after a repeated status the
  uploading tab excuses only itself and asks for the row, and the answer, read before the deletion by the
  same tab, could be told to the others after it. TLC found the 40 steps once it was given the scenario.
  Now `Crossing` counts the tab's own open requests like those of others.

`FilesAssumption`, `PageAssumption`, `EntriesAssumption` and `EditAssumption` ask that files are finitely many, that
notices and statuses are about files, that a scenario uploads no file that is already there, that folders contain
entries, and that limits are numbers.

`FileRequests_proofs`: `Inv` has a part for each side. `ServerInv` adds to the types that a
request names its upload and a job that is not done has one; `OwnerInv` that a call
for a file names it. `GuestInv` is the protocol of the page: it waits for at most one
request (`OneRequest`), which is the one its loop is about (`LoopNamed`,
`AnswerNamed`), and an entry shows an upload only while the loop of its page is at that
entry (`UploadShownBy`). `PageSettled` alone says nothing of the requests on their way, so that an
answer could resume a loop that has ended. It gives `TypeCorrect` and `PagesSettle`.
In the same module `QuotaInv` counts the files together with the reservations
that may still become one. A file whose reservation is not released yet counts once, so that
`JobSave` moves a unit from one number to the other, and `ReserveNew` adds one only when
`FilesRemaining` leaves it. Everything else takes away from one or moves it out of
the count (`NoneAdded`). It gives `QuotaHolds`.

`FileRequestFiles_proofs`: `StoreInv` follows an upload through the chain of page, wire,
chunk file and goroutine, no link of which looks at the others. `NamesInv`: a uuid
belongs to one entry of one page, or to an answer that its page has not looked at yet,
and what a page waits for is what its loop is about. `FilesInv`: the chunks before the one
that is sent have arrived, so that the chunk file is whole when the completion is asked for;
from then on it is whole or gone, and the first goroutine to take it away is the only
one. `EndsInv`: only an entry that was removed, or whose tab was closed, is given back, so that
the chunk file of a completed one is gone only when a goroutine has it. Most steps hand
out, write or take away no upload (`QuietStep`, for the actions that are `QuietPages` and
`QuietServer`); `ReserveNew`, `Reserved_`, `NewChunk`, `UnreserveDelete`, `CompleteStart` and
`JobMove` have a lemma each. It gives `WholeFiles`, `OnlyOnce` and `CompletedStored`.
In the same module `ListInv` is about the row of the owner's page: a page acts on a deletion and on an
undo of a file once per load (`CallsApart`), what its toast names is scheduled for deletion and has no
call, a file is scheduled as long as its undo is on its way, and a removal of the file request that has passed the
files has erased all that were listed. `ListingConsistent` does not say what the calls under way will do to the
list, and answers come in any order. It gives `ListAgrees`.

`Storage_proofs`: the invariants are stacked, each with those before it.

* `TypeInv` is the types with `Ready` (what a request holds at the steps that use it), and `StagesKept` says
  which steps a request of a kind can be at; without it a deletion could be at a step
  of an upload. It gives `StorageTypes`.
* `HashInv`: unless something is replaced, every row that is stored, held or read by a clean-up has the hash that
  the file has had from its start, so that an old copy of a row can be stale in everything but what the removal
  of sources depends on.
* `RemovalInv` adds that who is about to remove a source or a row works on a file that is due. `LiveFilesStored` says
  nothing of a decision that has been taken and not carried out, and is not inductive without this. What is due
  stays due because nothing can restore a file past its time. It gives `LiveSources` and `ServedRows`, both
  under `NoNewContent`: `storage_upload_race` shows that an upload of the same content breaks the first, and a
  replacement is what `ReplacedSince` excepts from the second.
* `UntouchedInv` drops that hypothesis for a file that no request is about: every process
  `Spares` it, whatever it removes. It gives `UntouchedKept`.
* `OrphanInv`: a source has a row, or an upload that is about to save its row; a file that is being created is in no
  list that a clean-up has read; and a clean-up that has kept a source knows another row with it, or such an upload.
  The last part is lost as soon as two clean-ups are in their loops, each keeping the source for the other's row
  (`storage_two_clean_ups`), or when a replacement changes the row that a clean-up has counted on; hence the
  hypotheses `[]OneCleanUp` and `NoReplacement` of `SourcesFound`.

`ScenariosAssumption` asks that a behaviour begins with rows that share a source by its hash, under one key.

`Sessions_proofs`: all of its invariants contain `TypeInv`, the types with `HandlerShape` (what a handler
has at hand at each of its steps; without it a renewal could replace the session of a request without
one). It gives `TypeCorrect`.

* `LoggedInInv` adds `SessionsOwned` (sessions stay with their browser and its user), `AnswersFresh` (the session of an answer
  under way is known to nobody else, is younger than the one it replaces, and younger sessions end
  later) and `Replaced`: the session of a cookie is in use, or a request of the same browser brings
  a younger one. The order of ages is what makes it inductive: two tabs may renew
  the same session, and each deletes it, but neither can delete the other's. It gives `LoggedIn`.
* `DeletedInv` adds `LateRefused`: a request that was sent after the deletion is not past the
  step that looks for the user.
* `LoggedOutInv` adds `LogoutsEnd` (the session a logout was sent with is gone when it answers) and `OutPowerless`: after a logout
  that was not raced no request of the browser can be granted, but for a login. The two give `StaysOut`.
* `PresignInv`: while no two requests have shared a URL, at most one has found it, and it is gone for all others before
  that one serves it. `DownloadedOnce` says nothing of requests that have found a URL and not served it yet. It
  gives `ServedOnce`.

`Admin_proofs`: three invariants of `AdminSystem`, one for the log, one for users and keys, one for their pages.

* `LogInv` adds to the types of the log `Stamps` and `Complete`. `Stamps` relates the seconds of lines to those of the file, of
  the page and of the poll under way: what a poll has read is not younger than the timestamp it brings.
  `Complete` is `LogsComplete` for a poll at any of its steps: an entry that was in the file when the page asked is shown, or
  is in the answer, or was excepted. It holds only while no line was late (a goroutine that appends a line with an
  earlier second than the last one), because a poll for what is new finds its first line by a search backwards that needs the
  stamps in order. It gives `LogShown`.
* `PagesInv` has the types of the calls with what a handler holds at each of its steps (`Tables`), and `KeysInv`:
  keys that are not live have no permissions (`DeadKeys`), what a handler will save belongs to the user it is
  about (`RowsOwned`), and `KeysSwept`: a handler that takes a permission away and has gone past it in its plan has swept it from
  every key of the user, except from the rows in its `todo` and those that another save has overtaken.
  `KeysBounded` alone says nothing of a handler at work, and is lost when that handler ends. It gives
  `KeysWithinOwners`.
* `MirrorInv` adds to it what the pages wait for: a cell of a page is what the table has, or is excused, or a call the page
  hears of is about it; and such a call has saved what it asks for, will save it, or never will (`Expected`). An
  indicator has one call (`UserCalls`, `KeyCalls`), and so have rows, names and deletions. `PagesTrue` says nothing of answers that are on
  their way. A step of a handler is proved once, as `Served` with what it does to the tables (`UsersEffects`,
  `KeysEffects`), and then applied to both pages. It gives `PagesShown`.
* The types of all of it, with `MirrorInv`, `LogInv` and `TypeInv` of `Sessions_proofs`, give `SystemTypes`.

`AdminAssumption` asks that a behaviour begins with keys within the permissions of their owners, and that requests are about users
and keys; `LogAssumption` that the line a deletion writes is not one of the others, and that there is a tag for all of them.

Only model-checked:

* all liveness (`AllAnswered`, `LockAnswered`, `DeletedIsRemoved`, `UploadEnds`,
  `ReservationsReleased`, `UploadShown`), which is out of the prover's reach;
* of `UploadSystem`, `ArchiveWhole`, which says what recursive functions compute for every folder and name (induction
  over data).

## 6. What is not modelled, and what is excluded

Components with status `not_modelled` are listed with the reason in
`PROJECT.json`. Left out of the modelled ones are: S3, the Redis provider (whose
`IncreaseDownloadCount` recreates a row that `CleanUp` has dropped), `ServeFilesAsZip`, `cleanInvalidApiKeys`,
`cleanInvalidFileRequests` and `cleanOldTempFiles`; the deletion of a user on the page of users; CSRF tokens and the
tokens of file passwords; limits of size; the download page and its decryption; the setup wizard; what the
pages do with widths, colours and words. `DeleteLogs` is one step. The calls of the
page of users and of keys are a set, so that two equal ones in the same state count once.

The code has the following races and disagreements. They are in the models where
the model has the part; the properties name them as exceptions, or the scenarios
do not let them meet.

Storage:

* an upload, a duplication or a replacement by a content whose last row `CleanUp`
  is removing (run `storage_upload_race`);
* two uploads of one new content with server-side encryption: the second takes the source
  of the first, whose row is not saved yet, for one without a key, removes it, and fails
  (run `storage_encrypted_uploads`); so does an upload that finds a source left without a row;
* two `CleanUp`s with different snapshots, one of which skips a row whose file is being downloaded (run `storage_two_clean_ups`);
* a `CleanUp` whose snapshot is older than a replacement finds the old content gone and drops the row of the replaced
  file, whose new content may then be left without a row (`ReplacedSince`, `Abandoning`);
* `CleanUp` between the counting of a last download and the opening of its source:
  the download is counted and not served (`pc = "lost"`);
* a restore or an edit that saves its copy when the deletion is already at work: it is
  answered with success and the file is lost, or its row comes back without the
  source (`revived`);
* the deletion of a user, and a crash between `MoveToFilesystem` and
  `SaveMetaData`, leave sources without a row (`Abandoning`);
* a duplicate that may not have a hotlink keeps the `HotlinkId` of its original;
* `cleanHotlinks` removes the hotlink of an upload or an edit that has saved it and not yet its row, and that of a file that is
  pending for deletion (run `storage_restored_hotlink`): the row then names a hotlink that leads nowhere.

File requests (`exceptions` and `late` of `FileRequests`):

* parallel `apiChunkReserve` overbook a limit; a deletion that is pending frees a
  place which a restore takes back; a completion does not ask for its
  reservation, so that one that has expired gives its place away twice;
* a chunk that arrives after its page has given it up makes a new chunk file,
  which a repeated completion stores as a second, incomplete file;
* `unreserve` while `reserve` is on its way does not know the uuid: the reservation stays
  until it expires. So does that of a completion that failed, which nobody hears of;
* a fault of the processing (size, hash, encryption, disk, move) or a restart loses a file that the page of
  the guest shows as completed (`DoneIsStored` says that nothing else does);
* a file that is saved after the first step of `filerequest.Delete` stays without a
  request, and `apiURequestSave` brings a deleted request back without its key;
* in a row built by `createFileRequestRow` a deletion is shown as failed although
  it is scheduled, because the row has no `totalFiles-fr` cell; the delete
  button goes by a count that deletions do not update;
* `showDeleteFRequestModal` and `showDeleteUserModal` look for `buttonSupprimer` and
  `checkboxSupprimer`, the templates have `buttonDelete` and `checkboxDelete`: the button of the modal
  does nothing;
* `checkMaxNumber` compares strings, so that 9 exceeds a maximum of 10.

Upload page (`excused` of `UploadPage`, `broken` of `EndToEndPage`):

* tabs that delete and restore the same file at once, or one tab whose requests about it overlap, an answer that is lost
  after the deletion was done, a tab that is closed before it tells the others, a
  tab whose page was rendered before and whose port was made after a notice,
  a notice of an added file while its old row disappears, a restore that is
  answered although the deletion has run: tables differ until the next reload;
* a finished status that comes twice, live and with the saved ones, asks for the row
  twice and adds it twice;
* a tab that connects while another logs out is never told; a failed deletion
  leaves the delete button disabled; `StatusError` is never set, so that a failed
  completion leaves its progress bar;
* `decryptFileEntries` looks in column 6 for the button that is in column 7: as soon
  as a listed file has a key the exception ends the WASM program, encrypted uploads
  stall, and undo reports an error although the file is restored. This is why
  `UploadShown` is about other uploads;
* a lock that failed or expired lets `unlock` release that of another chain, and a
  chain that failed adds a duplicate row when its status comes again;
* `isUploading` is not set by encrypted uploads, and settings are read when an
  upload completes, not when it starts;
* two selections for an archive share one modal: a second dialog takes over the
  first, a dialog opened while the modal is being hidden is cancelled silently;
* the comment at `zipResolveArchiveName` promises a name that the server keeps,
  which is not so for names that begin with a dot;
* the edit dialog sends all fields as they were in the row, and undoes what
  has changed since; when the edit works and the replacement fails the page is not
  reloaded.

Users, keys and log (`overtaken` and `excused` of `AdminApi`, `late` and `overlooked` of `LogPage`):

* a change of a key's permissions takes the mutex of its public id, a renaming that
  of its private id: one saves the row over what the other has changed;
* `apiResetPassword` takes no mutex and brings back permissions changed meanwhile;
* a demotion sweeps the keys before it saves the user, and the sweep saves rows of
  a snapshot: a permission granted, or a token generated, in between stays, and a key
  deleted in between comes back;
* a cached token whose permission was swept makes calls fail until it ages;
* renamings overtake each other, and one that failed stays shown; buttons stay
  disabled after an error; a new key is shown under a name the server does not have;
* the answer to a password reset goes into whatever dialog the document has: that of
  user A may be shown in the dialog of user B;
* lines that are written in a later second than they say, and lines written
  between the reading of the file and the stamp of the answer, are not shown; lines
  of the second of a poll are shown twice; a page that has not deleted the log
  itself goes on showing deleted lines.

Sessions (`evicted`, `raced` and `revived` of `Sessions`):

* the old session is deleted before the browser has the new cookie: a lost answer logs the user out;
* a logout that meets a renewal deletes the old session while the new one lives, and the
  answer that comes last decides the cookie: the browser is logged in again;
* a tab that is refused, as another has just renewed the session, is sent to the login
  page although the session lives; its cookie stays;
* a renewal or a login under way leaves a session of a user whose sessions were just ended: after a
  deletion it is worth nothing (`DeletedUserStaysOut`), after a reset it goes on;
* `changePassword` and `apiResetPassword` save the row as it was read: a deleted user is back,
  and a reset is undone;
* a presigned URL is looked up, and deleted only after its files were read
  (`Webserver.go:1070`): two requests may use it, where `openapi.json` speaks of one download (`shared`); a request whose
  serving fails after the deletion has used the URL up without a download;
* `docs/setup.rst` lets a user who was disabled at the OIDC provider in until the recheck
  interval expires, but a session that is used is renewed for a whole interval without asking
  the provider; and a comment of `SessionManager.go` renews it after an hour of use, the code after twelve.

Server statistics, which are not modelled: `AddTraffic` sets
`LastUpdate` on every call, so that a busy server saves its traffic only at the
shutdown; `ClearTraffic` replaces the struct with its mutex.
