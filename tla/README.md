# Screenshotter server: specification and proofs

TLA+ modules for the Screenshotter server: a Go program that stores PNG
screenshots uploaded by a browser extension, keeps their records in SQLite or
PostgreSQL, and serves pages to view, annotate and administer them. The modules
describe the program in `src/`; `PROJECT.json` maps each definition to the lines
it stands for.

## The system

| part | source | state | operations |
|---|---|---|---|
| file store | `internal/storage` | `<id>.png`, `thumbs/<id>.png`, temporary files, the channel `decodeSem` | `SaveNew`, `Save`, `Delete`, `New` |
| database | `internal/db` | tables `users`, `images` | one SQL statement per method |
| handlers | `internal/handlers` | none of their own; where each goroutine stands | upload, annotate, delete, update, home, four admin mutations, pages, image serving |
| editor | `internal/tmpl/view.html` | undo history, saved revision, timer, waiters | commit, undo, redo, flush, save, discard |
| rate limiter | `internal/ratelimit` | per-address windows of timestamps | `Allow`, `evictIdle` |
| authentication | `internal/auth` | cookies in the browser, none in the server | provider chain, OIDC login, callback, renewal, logout |
| routing | `internal/server` | none | middleware chain, canonical redirect, forwarded addresses, mutation and origin checks |
| configuration | `internal/config` | none after loading | load, validate |
| process | `cmd/screenshotter` | up or down | open database, `storage.New`, serve, shut down |

`main.run` opens the database, makes the store and serves. `net/http` runs each
request in its own goroutine; the router passes it through the middlewares
(forwarded address, CORS, redirect, authentication) to a handler. A handler sends
SQL statements one by one, outside any transaction, and calls the store; it takes
no lock. The editor in the browser uploads the annotated image to `Annotate`.

What is hard here, and what should hold:

* **Files.** A save is a dozen system calls, any of which can fail, or be the last
  one of the process. What is served must always be a whole image; no temporary file
  may be left but by a disk that refuses its removal; no path may leak a slot of `decodeSem`.
* **Two stores, no transaction.** An image is a row and two files. Uploads write the
  row first and undo it if the files fail; deletions remove the row first. Every
  interleaving, failed statement and crash must keep rows and files together, or
  separate them only in the ways the code accepts.
* **Checks that go stale.** Annotate and Delete check the owner and act later;
  SaveNew looks for a file and renames later; AdminDeleteUser lists images and
  removes their files later; an undo assumes the owner it inserted.
* **Errors that look alike.** A unique violation is retried with another id, another
  error is not; an error does not tell whether the statement ran.
* **The editor.** At most one upload at a time, revisions that must not be mistaken
  for one another, answers that get lost, waiters that must be settled.
* **The limiter.** A state that is used after the map's lock is released, while the
  janitor may drop it; window boundaries.
* **Login.** Cookies shared by tabs that log in at once; a redirect target that must
  stay on the site; tokens renewed half-way through their life; answers that cross.
* **The chain of middleware.** Who a request comes from, and whether it may change
  anything, is decided by a dozen functions in several packages, each of which relies on
  the ones before it, on the validation of the configuration or on what browsers do.

`PROJECT.json` lists the hazards one by one with their lines and the properties that
would catch them.

## Modules

| module | what it is |
|---|---|
| `Storage` | `storage.go`, one step per system call another goroutine or a crash can tell apart |
| `FileStore` | what `storage.go` promises its callers: two files per id, replaced or removed as a whole |
| `StorageProofs` | the inductive invariant of `Storage`, and its safety properties as theorems |
| `StorageRefinement` | the theorem that `Storage` implements `FileStore` |
| `Database` | the tables and the statements, as operators on a value |
| `Handlers` | the handlers that change state, over `Database` and `FileStore` |
| `HandlersProofs` | type correctness and ownership of `Handlers` as theorems |
| `HandlersRecords` | rows and files of `Handlers`: that they stay together, that deletions are single |
| `RateLimit` | the limiter: `Allow`, `state`, `evictIdle`, with their locks and a clock |
| `RateLimitProofs` | type correctness of `RateLimit`, the bound on its windows, sweeps and refusals as theorems |
| `Editor` | the autosave of the view page, a lossy network and the server's copy |
| `EditorProofs` | the safety properties of `Editor` as theorems |
| `Login` | the OIDC login, sessions, renewal and logout, as seen by the tabs of one browser |
| `LoginProofs` | the safety properties of `Login` as theorems |
| `Config` | loading and validating the configuration, as operators on a file |
| `Access` | the start of the process and the way of a request through middleware and routes, over `Config` |
| `AccessProofs` | the properties of `Access` as theorems |
| `MCStorage`, `MCHandlers`, `MCRateLimit`, `MCEditor`, `MCLogin`, `MCAccess` | instances for TLC, with the `.cfg` files named after their runs |

Definitions under a comment that begins with *Mutant* are variations of the
definition that follows, each with a plausible bug. They belong to no
specification; put in the place of the original, each breaks the property that
`PROJECT.json` names with it, which shows that the property says something.

### Storage

`file[k][i]` is the file at `imagePath(i)` or `thumbPath(i)`, `tmp[p][k]` the
temporary file of that kind that goroutine `p` has made, `call[p]` the call `p` is in
with the system call it will make next, `slots` the elements in `decodeSem`, `up`
whether the process is down, in `New`, or serving. A file's content is the body it
was made from and whether it is empty or torn, whole in the page cache only, or on
disk. Pixels do not matter: a body is one that `ValidatePNG` refuses (`Invalid`), one
that it accepts and `png.Decode` refuses (`Corrupt`), or a good one.

Between two steps of a call every other goroutine may run. `writeTemp` is `Create`
(with Chmod), `Fill` and `Sync` (with Close), once for the thumbnail and once for the
image; the two renames are `Install`. `Fail` is any of these calls reporting an
error, with the deferred removals that follow, which can fail in turn without anyone noticing.
`Lstat` is a look at a file, which can fail too: `SaveNew` asks whether the error is nil, so any error
counts as "no file", and the save goes on to replace a file that may be there. `Kill` ends the
process and keeps the files; `PowerLoss` also tears what was not synced. The next start removes
the temporary files it finds one by one (`RemoveStale`), takes a directory that it cannot read for
an empty one, as `filepath.Glob` does (`Overlook`), or fails (`StartFail`). `stray` are the
temporary files that a start has yet to remove, `kept` those that an error left on disk until the next
start: by kind, since it does not matter how many there are.

`FileStore` keeps what can be seen from outside: `img`, `thumb`, and a `call` that is
about to look for a file, still preparing, between the renames, or between the
removals. It promises no more than the code: the look for a file may miss one (`Miss`), and a file
that appears after it is replaced. `Promise` in `Storage` is the refinement mapping: a torn file would map to
no body at all, so the mapping itself claims that files are whole.

Assumed of the outside: renames and removals are atomic and survive a power loss (a
journalling file system), one process uses the directory, and `os.CreateTemp` names are unique.

### Database

A database is a value: the set of users and, per image, `None` or its owner and title.
A statement is an operator that gives the next value, and is atomic, foreign key and
cascade included (`init` turns them on for each SQLite connection). A title is
represented by the user who set it, because what matters of it is who wrote it.
`InsertResult` keeps the difference between the engines: SQLite reports a missing owner
as the same `ErrConstraint` as a taken id.

### Handlers

`req[p]` is the request goroutine `p` serves: its kind, the statement it will send
next, its user, image and target, the ids left to clean up, the number of collisions.
The kinds of request are `upload`, `home`, `annotate`, `delete`, `update`,
`adminDeleteImage`, `adminDeleteUser`, `adminReassignImage`, `adminReassignAll`.
Each action is one statement with what the handler does of its result, or one step of
the store (`Store`, from `FileStore`, whose errors and missed looks are `DiskError`). A file holds the user whose request wrote it.
Three history variables serve properties only: who has ever owned an image, how many
deletions of it were acknowledged, and whose upload lost its database, its process or
its owner between the row and the files.

Faults: a statement returns an error and has or has not run (`DBError`,
`InsertLost`), which also stands for a client that goes away, since statements run
under the request's context; the store fails (`DiskError`); the process ends
(`Crash`). Users log in and requests arrive in any order; requests that are refused
before their first statement change nothing and are left out.

Bounds of the model: ids of deleted images are not drawn again unless `ReuseIds`
(62 characters to the power of the configured length, against a handful), and there are
never more uploads waiting for an id than unused ids (`IdLeft`); without the second,
a model with one id would show retries that only its size causes.

### RateLimit

`ips` is the map, `secondTs` and `minuteTs` the fields of each `ipState`, `call[c]` where
goroutine `c` is in `Allow`, `janitor` where `evictIdle` is. What runs under one lock is
one step: `Lookup` (read lock of the map), `Found` or `Create` (write lock, after another
look), `Decide` (lock of the state). The janitor reads the clock (`EvictIdle`), locks the map
(`LockMap`), looks at one state after another (`Inspect`), drops those that are idle (`Evict`) and
unlocks (`UnlockMap`); between these steps callers that have a state already go on. `ipState`s
are taken from `States`, and one that nobody refers to may be used again.
`log` and `late` are histories: the times of admitted requests, apart for those that went
through a state which the janitor had condemned or dropped. A request in that gap is one
that `evictIdle` cannot know of. `WindowsHold` is stated for `log` alone: an address that has goroutines in the
gap gets their requests on top of its cap, and no property bounds them. The lock of a state is held for
one step, so the order of the map's lock and a state's is not expressed; the code takes the map's first.

### Editor

The variables have the names of `view.html`: `history`, `historyIndex`, `revCounter`,
`savedRev`, `saveTimer`, `uploading`, `leaving`, `saveWaiters`. A drawing is a number, new with every change;
`shown` is the one on the canvas, and undo and redo move among snapshots. One callback of the browser is one
step: `commit`, `typeText`, `exitEditing`, `undo`, `redo`, `timerFires`, `retryClicked`, `save`, `renderCurrent`,
`uploaded`, `uploadFailed`, `deleteImage`, `leave`. An upload is being rendered, sent, applied by
the server or refused; the network may break at any of these points, after which the
page takes it as failed while the server may have it, or get it later (`givenUp`).

The toolbar works before the image has loaded, and the code does not ask: `commit`, `undo`, `save` and
`flush` can all come before `initCanvas`. Then `unsaved` throws as long as there is no history, which rejects a `save()`
and disarms the handler that should warn; rendering throws as long as there is no background, and the upload counts
as failed. A text is on the canvas from the first key, in a snapshot only when its
editing has ended (`typing`); undo and redo end it after they have moved, so that the text is
committed behind the place they went to.

Three histories serve the properties. `reported`: the server has a drawing that the page reported
as failed. `taken`: `initCanvas` took a drawing made earlier for what the server
holds. `astray`: the canvas shows another drawing than the current snapshot, after `initCanvas` went back to the
first of several, or an undo or redo ended a text. `Unnoticed` is what follows: changes on
screen that the page does not know of, which `LeaveIsSafe`, `SaveKeepsPromise` and `ChangesAreSaved` leave
out, and which the page can lose without a word: `editor_early` shows it for a drawing made before the image.

### Login

`jar` holds the cookies that all tabs share, `tab[t]` where a tab is, `answer[t]` the answer
on its way to it, `code` what the identity provider (external) knows of each login. A request takes the
cookies of the moment in which it is sent; its answer changes them when it arrives, or is lost
(`Receive`, `Lose`). The login itself takes effect when its answer arrives, because the tab goes
to the provider only then: request and answer are one step (`HandleLogin`). State, nonce and
verifier are the number of the login, since they are random; the destination is one of
a few, of which `Unsafe` ones are turned down by `safeRedirectPath` and `Lossy` ones lose
bytes in a cookie. Tokens are not forged: signatures are abstracted. An answer takes at
most `MaxDelay`.

### Config and Access

`Config` says which files `Load` accepts and what it makes of them: unknown keys, secrets
from the environment, the rules of `validate` by subject, and the two settings that it
changes (a slash at the end of the canonical address, the spelling of schemes). A text is a
record of what matters of it, such as whether a scheme has capitals or blanks.

`Access` has a configuration in force and one request. Requests share nothing but the
configuration, so one at a time is enough. `req.at` names the middleware
it is in front of; `Chain` is the order of the `Use` calls in `server.New`, and every
middleware is an action. The values of a header that one middleware alone reads are chosen there.
The browser (external) asks first when a page of another origin sends what no form could
(`Preflighted`), follows redirects, turns a redirected POST into a GET and its origin into
`null`. It writes hosts in its own way (`Spelled`: lower case, no default port), while the server compares
`r.Host` with the text of the configuration. Proxies (external) append the address that called them
to `X-Forwarded-For`, as in the example of the repository's README, and may or may not report the scheme.
They are assumed to append to the one line there is: `Header.Get` reads the first line only, so a proxy that
adds a line of its own is outside the model.

## Runs

| run | question | instance | expected |
|---|---|---|---|
| `storage` | are files whole, temporaries owned, slots exact under all faults, is `FileStore` implemented, and does every call return? | 2 calls, 1 id, two good bodies, an invalid and a corrupt one, 1 slot, all faults | holds |
| `storage_race` | are image and thumbnail replaced together? | 2 calls, 2 good bodies, no faults | violated |
| `handlers_owners` | also when images change owners; do owners exist, do contents come from owners, is one deletion acknowledged? | 2 requests, 2 users, 1 id, all nine kinds, PostgreSQL, all faults | holds |
| `handlers_live` | is every request answered when ids collide, do retries keep rows and files together, and are only unrecorded files removed? | 2 requests, 1 user, 2 ids, upload, delete, adminDeleteUser, SQLite, database and disk errors | holds |
| `handlers_stalelist` | are only unrecorded files removed when images are reassigned during AdminDeleteUser? | 2 requests, 2 users, no faults | violated |
| `ratelimit` | do the caps hold for every window, is nobody refused without cause, are idle addresses forgotten, does `Allow` return? | 2 callers, 1 address, 2 states, caps 2 and 3, windows 1 and 3, clock to 7 | holds |
| `editor` | does one upload run at a time, does the history follow the screen, are `save()` and the leave warning right, is every change saved or reported? | 2 changes (`MaxDrawn`), 1 `save()`, 1 upload given up at a time (`MaxLost`), drawing before the image is there, typing, undo, redo, deletion | holds |
| `editor_leave` | does the page still warn after a deletion that failed? | the same, with `Gestures = {"delete"}` | violated |
| `editor_early` | does the page warn of what was drawn before the image was there? | the same, with `Gestures = {"early"}` | violated |
| `login` | is a login its own, does the last one complete, does a logout hold, do active users stay? | 2 tabs, 2 users, 3 destinations, 2 logins, clock to 5, ttl 4 | holds |
| `login_roundtrip` | and with a destination that a cookie cannot hold? | 1 tab | violated |
| `access` | is an identity vouched for, the right address charged, a change asked for by whom it may, a redirect followed once, a stored URL safe? | about 90 configuration files, 3 paths of proxies, every route | holds |

The bounds: ids are independent in `Storage` (no operation touches two), so one is
enough there; calls interact through one id's files and through the semaphore. Two calls
and one slot give every case of the semaphore: free, taken, waited for, and set free by an end of the process; two good
bodies tell one call's files from the other's. In `Handlers` one id
shows all conflicts over an image, two show collisions, and `AdminDeleteUser`'s list has
two elements in `handlers_live`. In `RateLimit` addresses only share the map's lock, which the
janitor takes for one as for many; the clock goes on for long enough to fill both windows, to let
them pass and to sweep twice; two states suffice for one in the map and one that
was dropped in use. In `Editor` two changes give a history with a redo tail that is cut, two drawings before the image is there,
and a text on top of a drawing; one upload given up next to one that runs gives answers out of order. In
`Login` two logins in two tabs overwrite each other's cookies, and five units of time let a session be
renewed and expire. In `Access` two trusted proxies in a row and a client that claims addresses
cover the cases of the scan through `X-Forwarded-For`; of the hosts one is spelled with a default port. Symmetry is only used where no liveness
is checked.

What the violated properties show, each a disagreement between the code and what it says
of itself (`findings` in `PROJECT.json` quotes the lines):

* `write` does not install image and thumbnail together: two saves of an id can leave
  the image of one with the thumbnail of the other, and so can a crash between the
  renames. The next save repairs it.
* `AdminDeleteUser` removes the files of an image that was reassigned in the meantime.
* A deletion that fails leaves `leaving` set and the timer cancelled: the page neither saves nor warns of
  a change that was waiting to be uploaded, and does not warn of later ones.
* A shape drawn before the image has loaded comes first in the history, and `initCanvas` takes the first
  snapshot's revision for what the server holds: the page shows "Saved", and can be left without a warning.
* A destination with, say, a semicolon makes every login fail at the callback: the state in the
  cookie has lost what the state in the URL still has.

Other behaviours that the models show and that nothing in the repository rules out: a file
stays without a row when an annotation is written while its image is uploaded or deleted; an upload on
SQLite whose user is deleted under way sees "collisions"; a renewal on its way to another tab
undoes a logout; a session keeps the groups of its login for as long as it is renewed; a canonical
address whose host browsers write differently (capitals, a default port) passes validation, and it, or https behind a
proxy that does not report the scheme, redirects for ever; `GET /auth/logout` ends a session whoever asked for it,
and so is no subject of `ChangesAreAsked`; an extension's upload to another address than the canonical one is
redirected and arrives as a GET, if it passes the preflight; an annotation or deletion that was overtaken by a
reassignment still takes place. The properties say which of these they leave out.

Two comments do not describe the code, and no run is about them: `upload.go` (lines 130 to 131) says that
"O_EXCL inside SaveNew" guards against orphaned files, where `SaveNew` calls `Lstat`, takes any error of it for "no
file", and renames later (`Lstat`, `Miss`); and the list of middlewares in `server.go` (lines 33 to 47) has the
redirect before CORS, which the code and the comment at line 53 have the other way round (`Chain`).

## Fairness

`Storage`: `WF(Step(p))`, because the Go scheduler runs every goroutine that can run and
system calls return; `SF(Acquire(p))`, because goroutines blocked sending on a channel
queue first come, first served (a slot may be taken again and again by others between
two chances of one goroutine, so weak fairness would not do). No fairness is assumed of
faults, of callers or of a restart. `Handlers`: `WF(Serve(p))`, statements and file
operations return and goroutines run; nothing is assumed of arrivals or faults.
Requests are not held up by one another (`Storage` shows that its calls return), so weak
fairness is enough.

`RateLimit`: weak fairness of each call that is under way and of the sweep, since mutexes are held for
finitely many steps and Go's are not starved; none of arrivals, of the clock or of the ticker.
`Editor`: timers fire, renderings end, every `fetch` is answered or fails, the server handles what
it gets: weak fairness of all of these together (`Working`), which is less than of each, and enough. `Rests` is assumed as well: a user who undoes and redoes for ever starts the timer anew each
time. Nothing is assumed of the user otherwise. `Login` and `Access` are about safety and assume none.

## Proofs

`StorageProofs` proves, for every finite set of calls and any ids and bodies:

* `TypeCorrectness`, `FilesAreComplete`, `TempsAreOwned`, `SlotsAreExact`: the four
  invariants of `storage` as theorems of `Spec`.
* They follow from `Invariance`: `Spec => []IInv`. The properties alone are not
  inductive. That an installed file is whole needs to know what a call at `install` holds
  in its temporary file; so `Ready` says, step by step, which temporary files of a call are
  written and synced, and `CallSound` that a call past the decode has a body that decodes.
  The semaphore's count needs finite sets: a step of one call changes `Decoding` by one
  element or not at all, and a stop empties it.

`StorageRefinement` proves `Spec => ImplementsFileStore` with `IInv` as the invariant: the
initial states agree; the two removals, the Lstat (`Check`, or `Miss` where it fails), each rename, a failure,
calls, returns, a crash and `Serve` are steps of `FileStore`; all else stutters. `IInv` is what makes the rename
a step of `FileStore`: the renamed file is whole and holds the call's body.

`HandlersProofs` proves of `Handlers`, for any ids, users, requests, kinds of request,
faults and both engines: `TypeCorrectness`, that `OwnerExists` is an invariant (each
statement preserves it, by lemmas about the operators of `Database`), and that
`WrittenByOwner` is one. The last needs a strengthening, `WritersOwned`: a request that is
in the store, or about to write, does so for a user who has owned the image; ownership ever
held is never taken from the history.

`HandlersRecords` adds what keeps rows and files together, for ids that are not drawn twice
(`~ReuseIds`): `RowsHaveFiles`, `DeletionsAreSingle` and, if nothing is reassigned as well,
`RemovalsAreUnrecorded`. An image without a row whose id is spent never gets a row again; so
whoever removes files may go on for as long as it likes, provided that the image had lost its row when it
began. The invariant says that: removers hold only such ids; an upload that has renamed the image has its
file, or the image is gone; each image has at most one request that deleted its row. The
last is what makes an acknowledged deletion the only one: `DeleteImage` tells whether a row was there. That
nothing may be reassigned is not a convenience: the run `handlers_stalelist` violates the property without it.

`RateLimitProofs` proves of `RateLimit`, for any addresses, callers, states, caps and windows:

* `TypeCorrectness` and `WindowsAreHeld`, that `WindowsHold` is an invariant: of the requests admitted
  through states that the map has and keeps, no window has more than the cap (those in `late` are not counted). The
  caps are checked against the lists of one `ipState`, while `WindowsHold` is about all such requests of an
  address ever, so the invariant relates the two: no two addresses share a state, and a goroutine
  never holds a state that is in the map for another address (`OneAddress`); logs are sorted
  (`LogSorted`); the state in the map holds what the log has of the last window, and an address without
  a state has nothing that recent in its log (`LogTracked`); the janitor's cutoff is a minute old or
  more, and the state it condemned is still in the map (`SweepSound`). When `Decide` admits a request,
  the `cap`-th entry from the end of the log is then either among the pruned ones, hence old enough, or
  makes the list full.
* `SweepsForget`. What the janitor has looked at and kept stays active until the map is unlocked
  (`Swept`), although `Decide` goes on pruning lists meanwhile: an admitted request leaves its own timestamp,
  and a refused one had a full list, whose first entry is recent. If it was the list of the second that
  was full, the janitor, who reads the other one, sees it nevertheless: what the former has of the last
  minute the latter has too (`ListsCovered`).
* `RefusalsHaveCause`. Lists hold only what was admitted: for every point in time, a list has no
  more entries since then than the two histories of its address together (`ListsAccounted`). A state has one user
  at a time (`OneUser`), counted with the callers that keep it after it left the map.

`EditorProofs` proves of `Editor`, for any number of changes and saves: `EditorTypes`,
`UploadsAreSingle`, `ScreenStaysRecorded`, `LeavingIsSafe` and `SavesKeepPromise`, the last two with the
exceptions of `Unnoticed`; for a drawing made before the image is there `editor_early` shows why. At the centre is `RevInv`: a revision stands for
one drawing, in the history, in the upload, in `savedRev` and among the waiters alike, even after undo
has moved back and a change has cut the tail. From it `SavedInv` follows (what the page takes as saved is on the server, unless `initCanvas` took it so),
and with it that neither leaving nor a promise of `save()` rests on a revision mistaken for another;
`GivenUpInv` and `LeftInv` keep late uploads of a page from undoing that.

`LoginProofs` proves of `Login`, for any tabs, users, destinations, times to live and delays: `LoginTypes`,
`LoginsAreOwn`, `LogoutsHold`; `ActiveUsersStay` if an answer takes no longer than the delay after which
sessions are renewed (`MaxDelay <= RenewalDelay`); and `LastLoginsComplete` if no destination loses bytes in
a cookie (`Lossy = {}`, which `login_roundtrip` shows to be needed). The invariant says of each place in
which a login can be (cookies, tab, provider, answer on its way) whose it is and
how old it can be. The condition on `MaxDelay` is due to answers that cross: one that renewed a session long ago
may arrive after a later one and put the older session back into the cookie; if it was on its way for longer than the
delay, that session may end while the user is active.

`AccessProofs` proves of `Access`, for any configuration file, hosts, paths of proxies and addresses:
`AccessTypes`, `IdentitiesVouched`, `SendersCharged`, `ChangesAsked`, `ExtensionsMayUpload`, `RedirectsEnd` (where
the server learns the scheme and the canonical host is written as browsers write it) and `SourcesAreSafe`. The invariant follows the chain: a configuration in force is one that `Load` accepted
(`ConfigInv`); the peer and the charged address are those that the scan through `X-Forwarded-For` must arrive at
(`PeerInv`, `ChargedInv`); what a browser sends is what a page of its origin may send (`BrowserInv`); and a
request that is past a middleware has what that middleware establishes (`RouteInv`, `AnswerInv`). The order of the
chain matters to nearly every step.

The theorems rest on the assumptions on constants that the modules state, which TLC checks in every run,
and on the hypotheses named above: `~ReuseIds`, `~Reassigning`, `MaxDelay <= RenewalDelay` and `Lossy = {}`, each in
the statement of the theorem that needs it. Each hypothesis holds in a run that checks the property.

Every safety property of a run that is expected to hold is proved. Only model-checked: `CallsReturn`,
`RequestsAnswered`, `AllowReturns`, `ChangesAreSaved` and `SavesSettle` (liveness under fairness is out of the
prover's reach), and the violations.

## Not modelled, and the plan

Worth having next: an abstract limiter that keeps one list per address and no map, for `RateLimit` to implement
but for the requests in `late`; and the safety that the liveness runs rest on, such as that a full `decodeSem` always has
a call that will release it, stated as invariants so that they can be proved.

A run of `Handlers` with `ReuseIds` is left for a later extension: short ids that are drawn again while an older
image of that id is being deleted lose the new image's files, which the configured length makes
improbable rather than impossible.

Left out for good: image serving and pages (they read and format; who may reach them is in
`Access`), pagination, templates, style sheets and drawing tools (no state that anything else
depends on), static assets and security headers, logging, the version string, down migrations
(never run by the server), build and release files. Migrations run before anything is served and
by a library. The deadline of the graceful shutdown is not modelled: to requests it cuts
off it is a kill, which is.
