# A TLA+ verification of kaccounts-integration

kaccounts-integration lets a KDE desktop manage online accounts. It is glue: the accounts live in the database
of libaccounts, the credentials in signond, the passwords for mounts in KWallet. The code in `src/src` starts
requests to those services, listens for their signals, and keeps things in step: a settings page and models for
it, jobs that create and change accounts, and a daemon module in kded whose plugin turns the storage services of
accounts into remote places. What is hard about it is that nearly every request is answered later, and that
other processes change the same accounts meanwhile.

Paths below are relative to the repository's `src/src` directory unless they start with `src/`.

## Inventory

| Component | State | Operations | Talks to |
|---|---|---|---|
| Accounts daemon, `kded/kded_accounts.cpp` | monitored account handles, loaded plugins | constructor, `startDaemon` (queued), slots `accountCreated`, `accountRemoved`, `enabledChanged` | hears the manager's and the handles' signals (D-Bus), calls the plugins' slots |
| WebDAV plugin, `plugins/kio-webdav/kioservices.cpp` | suspended coroutines; on disk: `remoteview/<account>_<service>.desktop`, wallet entries | `onAccountCreated`, `onAccountRemoved`, `onServiceEnabled`, `onServiceDisabled`; coroutines `createNetAttach`, `getRealm`, `removeNetAttach` | GetCredentialsJob, KWallet, KIO, the file system |
| `CreateAccountJob`, `lib/createaccountjob.cpp` | `m_identity`, `m_done`, the KJob's error and result | `start`, `processSession`, `loadPluginAndShowDialog`, `startAuthSession`, `pluginFinished`, `pluginError`, `pluginCancelled`, `sessionResponse`, `sessionError`, `info`, `synced` | UI plugin signals, signond, database |
| `AccountServiceToggleJob`, `RemoveAccountJob`, `ChangeAccountDisplayNameJob`, `lib/*job.cpp` | what they were asked for | `start`, and the signal that ends them | database, signond |
| `GetCredentialsJob`, `lib/getcredentialsjob.cpp` | number of tries, auth data | `start`, `getCredentials`, retry timer, response, error | database, signond |
| `AccountsModel`, `lib/accountsmodel.cpp` | rows, cached handles, services models by handle address | constructor, destructor, `data`, `accountCreated`, `accountRemoved`, `displayNameChanged` | manager signals, views |
| `ServicesModel`, `lib/servicesmodel.cpp` | the account, its services | `setAccount`, `data`, `enabledChanged`, account destroyed | handle signals, views |
| `ProvidersModel`, `lib/providersmodel.cpp` | provider list, read once | `data` (counts accounts) | database |
| UI plugins, `lib/uipluginsmanager.cpp`, `lib/kaccountsuiplugin.*` | one shared instance for each plugin | `pluginForName`, dialogs | CreateAccountJob |
| Settings page, `kcm/` | the stack of pages, their jobs, dialogs | opens and pops pages, starts the jobs | models, jobs |
| QML registration `declarative/`, manager singleton `lib/core.cpp`, `src/example` | none to speak of | | |

### What is hard, and what each component has to get right

* *Daemon and plugin.* Signals arrive after the change they tell of, and mounting takes three awaits during which
  any slot may run. Places should follow the enabled services, removals should reach the plugins, no account may
  slip between the list read at start and the signals connected before it, and passwords should come and go with
  the places that need them. kded may be restarted or die; place files and wallet entries outlive it.
* *CreateAccountJob.* Three parties answer (plugin, signond, database) on three paths, and jobs share plugins. An
  account must not be enabled before its user has authenticated; it has to refer to stored credentials, its own;
  the announced result has to agree with the database; and a result has to be announced.
* *The other jobs.* What is read at `start()` is written later, while other jobs and processes write too. Toggles
  should leave an account enabled exactly when a service of it is, jobs should finish, and a removal should forget
  the credentials with the account.
* *GetCredentialsJob.* It looks for an account that may not be there yet, or no more, three times again, two seconds
  apart. Each job should end, and none should bring credentials to a caller whose account is gone.
* *The page that adds accounts.* What it offers is read once, a click starts a job that takes long, and the page may be
  left, or popped by another job, with its jobs still running. A provider that allows one account should get one.
* *Models.* Rows come from one list and then from signals, handles are cached and deleted, and services models are
  found by the address of a handle. Rows should be the accounts, a view that follows the notifications should have
  the same rows, and no row may use a deleted handle or another account's services.

The hazards, each at its line, are listed in `PROJECT.json` with the properties that cover them.

## Modules

| Module | What it is |
|---|---|
| `GetCredentialsJob` | The retries and the auth session of the jobs that fetch credentials. |
| `KIOServices` | The WebDAV plugin: its slots and the steps of its coroutines; it INSTANCEs `GetCredentialsJob` for the jobs it starts. |
| `AccountsDaemon` | EXTENDS it with the kded module and the accounts database around it: the composed system. |
| `MountRegistry` | The abstract specification: places follow what is wanted. |
| `AccountsDaemonProofs` | Theorems about `AccountsDaemon`: what holds at any time. |
| `MountsSettleProofs` | EXTENDS it with theorems about what is left when everything is handled. |
| `DaemonHistory` | EXTENDS `AccountsDaemon` with a history variable: what each place has met that the code does not make up for. |
| `DaemonHistoryProofs` | Theorems about what overlap, failures and restarts can do, and that nothing else does it. |
| `CreateAccountJob` | Several CreateAccountJobs in a process, shared UI plugins, signond, the accounts they write. |
| `CreateAccountJobProofs` | Theorems about `CreateAccountJob`, the proof that it implements `AccountCreation` among them. |
| `AccountCreation` | The abstract specification: what a CreateAccountJob promises to whoever starts it. |
| `AvailableAccounts` | EXTENDS `CreateAccountJob` with the settings page that starts its jobs, and what `ProvidersModel` tells that page. |
| `AvailableAccountsProofs` | Theorems about the page. |
| `AccountJobs` | The jobs that change existing accounts. |
| `AccountsModel` | AccountsModel with its handles, which services models it gives its rows, and a view. |
| `ServicesModel` | ServicesModel, the handles it may be set to, and a view of the enabled flags. |
| `AccountJobsProofs`, `AccountsModelProofs`, `ServicesModelProofs` | Theorems about the three modules above. |
| `MC*` | Give values to the constants for TLC. |

Some operators carry the comment "Mutant of ..." or "A bug: ...". They are not part of any specification: they are
what a definition might have been had the code been slightly wrong, and replacing that definition makes a property
fail. They show that the property depends on the code.

### KIOServices and AccountsDaemon

A *place* is identified as in the code by `<account>_<service>` (`UniqueId`). `files` is the set of desktop files and
`wallet` the entries of the "Passwords" folder, reduced to scheme, login and whether the last part of the key is the
HTTP realm or the word "webdav". A `createNetAttach` that awaits its credentials (kioservices.cpp:135) is known by its
job, whose `Request` says for which place it is and whether `Manager::account` gave a handle or null at line 128.
`coros[<<id, stage>>]` counts the coroutines for a place that are suspended at another `co_await`:

| Stage | Where | Steps |
|---|---|---|
| `wallet` | kioservices.cpp:156 | `WalletRefused`, `WalletOpened` (up to 168, `getRealm` to 225) |
| `realm` | 225 | `RealmFetched` (to the end: file and passwords written) |
| `unmount` | 250 | `UnmountWalletRefused`, `UnmountWalletOpened` |

A slot runs to completion and starts coroutines; `isEnabled` is the existence of the file. An event reaches a slot
once for each handle the daemon has connected (`monitors`), so slots take that number.

`AccountsDaemon` adds `accounts` and `enabled` (the database), `signals` (D-Bus signals to kded, first in first out),
`daemon` and `monitors`. `accountCreated` includes `monitorAccount` with its null handle, on which kded dies.
`Restart` is a logout and login or a new start after a crash: memory is gone, files and wallet stay, and
`startDaemon` is queued again. `CredentialsJob` (`CredentialsLookup` or `CredentialsError`, the latter with changes at
any time only, so in `daemon_overlap`) and `CredentialsResponse` are the steps of the credentials jobs (next section)
with the database as the daemon's process sees it; a response to a request with a null handle would be dereferenced
(143), so `CredentialsResponse` is the end of kded there.

Two switches set what the environment may do. `Overlap`: an account may change at any time, or only when everything
about it is handled (`Quiet`). `Failures`: credentials and wallet requests may fail. `MaxChanges` and `MaxRestarts`
bound the counters.

### DaemonHistory

`HistorySpec` is `AccountsDaemon` with one more variable, `disturbed`, that observes and never restrains. A place is
disturbed when one of four things happens to it: a slot looks whether it is mounted while the opposite is being done
to it (`Crossed`: the early returns of kioservices.cpp:48, 63, 84, 98); a toggle is told to a daemon that does not
monitor the account yet (`Unheard`, kded_accounts.cpp:32, 71); its mount or unmount is given up (`GivenUp`,
kioservices.cpp:137, 157, 252); kded starts and finds it as the database does not have it (`NotRepaired`,
kded_accounts.cpp:57-63). It stops being so when everything about its account is handled and it is as it should be.
`UndisturbedPlacesAgree` then says that these four are all there is. Each of them is needed: without any one of them
TLC finds a place that is wrong and was not disturbed.

### GetCredentialsJob

`waiting[<<r, tries>>]` counts the jobs of request `r` whose `getCredentials` is queued or whose timer runs, with
`repeatedTries` at `tries`; `sessions[r]` those with an auth session. `start` queues a job, `getCredentials` tries again,
fails, or begins the session, `Answered` is its response or its error. Jobs with one request are interchangeable, so a
count is all there is to know of them.

### CreateAccountJob

One `Job` is one call of `start()`. `PluginOf` gives the UI plugin of its provider; `NoPlugin` takes the direct path,
`Missing` plugins cannot be loaded. `Listeners(d)` are the jobs connected to the plugin whose dialog job `d` opened:
all of them hear its signals, because the plugin is one shared instance and jobs stay connected until they are
deleted. The identity a job creates is named by the job whose dialog it came from, so that `OwnCredentials` can tell
whose it is. `EmitResult` announces only the first result of a job, as KJob does; deletion follows in a later turn.
A second error of a session finds `error()` set and does nothing (createaccountjob.cpp:257), so it is not a step.

`AccountCreation` is the same job as its caller sees it: `stage`, `row` and `answer`. Its refinement mapping is
`Stage`, the state of the database's row, and the announced result.

`NeverStuck` is the part of `JobsAnswered` that a state can show: a job without a result has its dialog open, or
something on the way that it hears of. The exception is `Lost`: signond failed to store the identity created last.

### AvailableAccounts

The page is `closed`, `open`, or `popped`: off the stack, and deleted in a later turn with every job it started, whose
parent it is. `ReadDelegate` is the one read of `accountsCount` for a provider (AvailableAccounts.qml:45), when the list
creates its delegate; `offered` has the providers that were enabled by it. `Click` starts a job for an offered provider,
`JobStep` is any step of `CreateAccountJob`, after which a job that announces success pops the page (69-70). A dialog
belongs to its UI plugin and survives the page. The history variable `raced` has the plugins of jobs that have
overlapped, or of which one wrote while a delegate read.

### AccountJobs

A job reads at `start()`, records what it will write (`Write`) and waits. `Synced` carries the write out and ends the
job; a write to an account that is gone never reports. `AccountGone` is the manager's `accountRemoved`. Jobs may run
at the same time, and another process may remove an account. An account may have credentials in signond or, when its
creation failed half way, none (`identities`). `forgetting` has the requests to remove them, one for each job that asked:
`remove()` is asynchronous, and the Identity that carries it is given to `deleteLater()` in the same breath
(removeaccountjob.cpp:65-66), so a request ends in one of two ways. `IdentityRemoved`: signond has it and grants it.
`IdentityStays`: signond refuses, or the Identity was deleted before the request was on its way. The job looks at
neither. The history variable `refused` has the accounts for which the second has happened; their credentials may be
left over when the account is gone, and then no later job finds them, because only the account knew their id.
`RemovalGoesOn` is what `RemovalFinishes` and `RemovalForgetsCredentials` rest on in every state. A toggle's record also
has the services it `found`, so that `ToggleSettles` can tell whether another toggle has overtaken one that disables.

### AccountsModel

`view` holds the rows as a view would have them that applies the model's insertions and removals. `heap` maps
addresses to the account their handle is for; `servicesModels` is keyed by address like the hash of the code, and
keeps the entry of a deleted handle as `Cleared`. Two history variables let the properties name their exceptions:
`freed` has the addresses a deleted handle once had, `raced` the signals that were in flight when the constructor read
the list. The constructor reads before it connects, and what is in flight then is told to the new model as well. So an
account may come twice, by the list and by its `accountCreated` (`Doubled`): it has two rows, or one that stays when it
goes. Or it may be announced to go when the list has it no more (`Missing`): the view is told to remove row -1.
`RowsAreAccounts` and `ViewFollowsModel` say which accounts these are, and that nothing else goes wrong.

### ServicesModel

A handle is named by its account, because AccountsModel keeps one for each. `view` holds the enabled flag of each row
as the delegate of the details page last read it: all rows at a reset, one row at `dataChanged`. The model itself keeps
no flags. `RemoveAccount` (the database) and `Destroyed` (AccountsModel deletes the handle) are separate steps.
Signals of a handle that was destroyed are left in the queue and reach nobody.

## Runs

| Run | Instance | Shows |
|---|---|---|
| `daemon_patient` | 2 accounts with one login, a storage and a mail service, 5 changes, 1 restart; no overlap, no failures | nothing in flight is stale, places agree with the database when quiet, removals reach the plugin, everything settles |
| `daemon_overlap` | 3 changes, 1 restart, overlap and failures, with the history | types; every place has its password; no live account is unmonitored; no null handle is used; places differ from the database only where one of four things has happened; a removal is missed only by a crash; credentials jobs end |
| `create_paths` | a job on each path, plugins not shared, storing may fail | enabled means authenticated and own; results match; every job ends whose credentials are stored; `AccountCreation` is implemented |
| `create_shared` | the page, opened twice, and two jobs for its one provider, which allows one account; storing may fail | types; an enabled account refers to stored credentials; jobs that have not overlapped are correct; no job is stuck; there is one account unless jobs overlapped |
| `jobs` | 2 jobs, 2 accounts, 2 services, removals elsewhere | types; a removal under way has both halves to come; a toggle settles unless it disables and was overtaken; jobs finish; a removal that finished left no account; removals finish, and leave credentials only when signond was asked in vain |
| `model` | 3 accounts, 3 addresses | types; handles are valid; rows and view are right, but for the accounts that the construction raced with; fresh handles have their own services |
| `services` | 2 accounts with a service in common in different rows, 4 changes | types; rows never outlive their handle; the view ends with the database's flags |

Five runs end in a violation, each of something the repository says of itself (see "Findings").

Why the bounds are enough: a hazard of the daemon needs one account, at most three changes and one coroutine of each
kind; two accounts add a shared login and independent interleavings, the mail service the branch that ignores a
service, one restart a double monitoring and lost coroutines. Two jobs are enough for each race of jobs, and all that
a job does concerns one account; the second account shows that it leaves others alone. Three accounts give the list a
first, a middle and a last row, and three addresses a reuse. Four changes let a services model be switched away from
an account and back with changes of both in flight. Three changes in `daemon_overlap` create, enable and remove an
account, which is what its liveness property needs; its invariants are proved for any number. Two clicks and two pages
are the least that can give a provider two accounts, with or without overlap; that several providers, with one plugin
or with several, change nothing is what `OneAccountOnly` proves. `CHECK_DEADLOCK FALSE` is set where the system may
rightly come to rest. Accounts, and addresses, are interchangeable in `AccountsModel`, whose run uses that as its
symmetry; it checks no liveness.

### Fairness

The event loop dispatches what is queued (`StartDaemon`, `Dispatch`); signond, the wallet, the
web server and the database answer each request they were sent, one way or the other. These are weak fairness
conditions of the answers to one request. A request to remove credentials is answered when it is granted, refused or
lost (`IdentityAnswered`); that it is ever granted is not assumed. No fairness is assumed of the user: nobody has to start a job, end a
dialog, change an account or restart kded.

### Findings

| Run | Property | In short |
|---|---|---|
| `daemon_stray_mount` | `DisabledIsUnmounted` | disabling during a mount is dropped; the mount completes (kioservices.cpp:98) |
| `daemon_lost_removal` | `RemovalReachesPlugins` | null handle when the account is gone before its `accountCreated` (kded_accounts.cpp:69) |
| `daemon_passwords` | `PasswordsGoWithMounts` | stored as `webdavs-`, looked for as `webdav-` (kioservices.cpp:275) |
| `create_mixup` | `OwnCredentials` | one dialog's outcome reaches all jobs of its plugin (createaccountjob.cpp:97) |
| `model_reuse` | `ServicesOfOwnAccount` | the services model of a freed address is found again (accountsmodel.cpp:90) |

Seven more weaknesses of the same kind are stated as exceptions of the properties that pass, and listed as hazards: a
service enabled again during its unmount is unmounted in the end (kioservices.cpp:84, needs `Overlap`); a job whose
credentials cannot be stored never announces a result (`Lost`, createaccountjob.cpp:165); a toggle that
disables a service and is overtaken may leave another one enabled in a disabled account (`NotOvertaken`,
accountservicetogglejob.cpp:108); a model constructed while accountCreated is in flight has two rows for the account
(`Doubled`, accountsmodel.cpp:36), and one constructed while accountRemoved is in flight announces the removal of row -1
(`Missing`, accountsmodel.cpp:43); a removal may leave credentials behind without anybody noticing (`refused`,
removeaccountjob.cpp:65); a provider that allows one account gets two when it is clicked again before the first is
written (`raced`, AvailableAccounts.qml:45).

For the daemon the list of causes is complete: `UndisturbedPlacesAgree` puts `daemon_stray_mount`, the re-enabling
above, refused requests and missed changes under one statement, and `RemovalLostByCrashOnly` says that the crash of
`daemon_lost_removal` is the one way in which a plugin misses a removal while kded is up.

One property holds because of a finding: `MountHasPassword` (a place never loses its password to the unmount of
another place with the same login) holds only while an unmount finds no entry to remove. Its mutant corrects the
scheme and nothing else, and breaks it.

## Proofs

Each theorem holds for every value of the constants that satisfies the assumptions, so for any number of accounts,
services, jobs, changes and restarts; what it needs beyond that is said with it.

**The daemon and its plugin** (`AccountsDaemonProofs`, `MountsSettleProofs`, `DaemonHistoryProofs`)

* `TypeCorrect`: `Spec => []TypeOK`.
* `MountsKeepPasswords`: `MountHasPassword`. Every step that adds a file adds the entry, and the entries an
  unmount removes are of the scheme "webdav", which differs from the scheme of `MountHasPassword`.
* `LiveAccountsMonitored`: `NoAccountUnmonitored`. An account created while the daemon starts is in the list that
  `StartDaemon` reads; one created later has its signal in the queue until `accountCreated` monitors it.
* `NullHandlesSafe`: `NullHandleNeverUsed`. The invariant adds that the account of a request with a null handle is
  gone; ids are not given out again, so no retry finds it, and no session begins.
* `NothingStale`, without overlap: `NothingStaleInFlight`. The strengthening is that an account may only be changed
  when it is quiet, so at most one signal of it is in flight, and none while a coroutine is.
* `MountRegistryImplemented`, without overlap: `MountsFollowDatabase`. With `want` the enabled storage services and
  `have` the files, each step is a step of `MountRegistry` or leaves both unchanged; it rests on `NothingStaleInFlight`.
* `DisabledUnmounted` and `EnabledMounted`, without overlap and failures: `DisabledIsUnmounted`, `EnabledIsMounted`.
  Three invariants carry them. `SignalsOrderly`: kded does not die, one signal of an account is in flight at most, and
  it agrees with the accounts. `PlacesSettle`: every place is wanted, or its unmount, or the signal that will start it,
  is on the way. `ServicesSettle`: every enabled storage service has its place, or its mount is on the way. What is
  quiet has nothing on the way.
* `RemovalReaches`, without overlap: `RemovalReachesPlugins`, from `SignalsOrderly`.
* `UndisturbedAgree`: `HistorySpec => []UndisturbedPlacesAgree`, with any overlap, failures and restarts. The invariant
  (`HistoryInv`) is about places that are not disturbed: one that is wanted is there or on its way, or a signal that
  will mount it is, and every signal that takes it away is followed by one that brings it back (`EnabledComes`); one
  that is not wanted is on its way out in the same sense (`DisabledLeaves`). Each step that breaks one of these for a
  place is among the four that disturb it.
* `RemovalsLostByCrashOnly`: `RemovalLostByCrashOnly`, with any overlap and failures. A removal's signal leaves the
  queue by its own dispatch, which starts the unmounts whether or not the account is monitored, by a restart, or by the
  end of kded; and kded ends only at the null handle of an `accountCreated`, because `NullHandlesSafe` excludes the other.

**CreateAccountJob** (`CreateAccountJobProofs`)

* `TypeCorrect`: `Spec => []TypeOK`. Typing needs more than itself: a session's response queries `m_identity`, so a job
  with a session has to have one.
* `EnabledBacked`: `EnabledIsBacked`, however jobs share plugins. The invariant (`IInv`) carries the backing
  along the way an account is enabled: a job is done only after a user has authenticated to it, a write is started only
  by a job that is done with an identity that is stored, and neither is ever taken back.
* `AuthenticatedWithoutSharing`, `ResultsWithoutSharing`, `OwnWithoutSharing`: as long as no two jobs have providers
  with the same plugin (`NoSharing`), `EnabledIsAuthenticated`, `ResultMatchesDatabase` and `OwnCredentials` hold. Their
  invariant (`Separate`) is that a job then creates at most one identity, its own, that an error and being done exclude
  each other, and that what is written is that identity. With `create_mixup`, which has two jobs on one plugin and
  violates `OwnCredentials`, this says that the shared plugin is the cause of the mix-up and the only one.
* `AccountCreationImplemented`, without sharing: `Spec => CreatesAccounts`. `CInv` adds to `Separate` that a job is
  done as soon as its user has authenticated and that an enabled account has been announced; each step then is one step
  of one job in `AccountCreation`, or shows nothing of any.
* `JobsNeverStuck`: `NeverStuck`, however jobs share plugins. What a job waits for is stated of the identity it created
  last (`Comes`), because that is what it queries; other identities may come and go. Two facts make it inductive: while
  that identity is being stored, either the job is done already, so that the info will count, or its session is still
  to answer (`Leads`); and a dialog's identities are new when it closes (`DialogsFresh`), so that what fails to be
  stored was not stored before.

**The page that adds accounts** (`AvailableAccountsProofs`)

* `PageTypeCorrect` and `PageEnabledBacked`: `PageTypeOK` and `EnabledIsBacked` of the page with its jobs.
* `OneAccountOnly`: `SingleAccountKept`. A job that has not raced is separate, and alone on its plugin while it is busy
  (`CalmSeparate`, `CalmAlone`); no other job of a provider that allows one account has an enabled one meanwhile
  (`CalmOnly`); and what an open page offers has no enabled account and none on the way from a job that is gone
  (`OfferedIsFree`). The last is where the page being popped on success, and taking its jobs with it, is needed.
* `CalmCorrect`: `CalmJobsCorrect`, from `CalmSeparate`. It is the three theorems about jobs that share no plugin
  without that hypothesis: what mixes jobs up is not that they share a plugin, but that they use it at the same time.
* `PageNeverStuck`: `NeverStuck` of the page's jobs. A page that takes a job away leaves nobody waiting.

**The other jobs** (`AccountJobsProofs`)

* `TypeCorrect`; `TogglesSettle`: `ToggleSettles`, from what a toggle writes being determined by what it found
  (`TogglesCount`); `RemovalsEnd`: `FinishedRemovalIsGone`.
* `RemovalsGoOn`: `RemovalGoesOn`, which is inductive with the types. A job that starts finds the account there and
  sends its request for the credentials first; that request ends when the credentials go, or the account is one of
  `refused`; whoever removes the account, all jobs that wait for it end in that step.

**The models** (`AccountsModelProofs`, `ServicesModelProofs`)

* `TypeCorrect`, `HandlesValid`, `FreshServicesOwn` of `AccountsModel`: `TypeOK`, `HandlesAreValid`,
  `ServicesOfFreshHandles`.
* `RowsCorrect`: `RowsAreAccounts`. Its first part is about a construction with nothing in flight. The rows then lag
  behind the database by the signals in flight: `RowsCatchUp` says that there is a replay of those signals that starts
  at the rows and ends at the database. A change appends a signal and a last state to the replay; handling one drops
  the first. The other parts are about any construction, and come from `Ledger`, which says of each account what the
  database, the signals in flight, those at the construction and the rows may be together: an account of the database
  has a row or will get one, a row has its account or will go, or the account is `Doubled`, and what will go has a row
  or will get one before, or the account is `Missing`. It rests on each account having one signal of a kind, the one of
  its creation first (`SignalsInOrder`).
* `ViewFollows`: `ViewFollowsModel`, from the same `Ledger`: an `accountRemoved` that finds no row is of an account that
  is `Missing`, and was its last signal.
* `TypeCorrect`, `RowsBelongToHandle` of `ServicesModel`, and `ViewCorrect`: `ViewShowsDatabase`, from `RowsCurrent`: a
  row of a live account is as the database has it, or a signal that will announce it is in flight.

The assumptions are those on the constants: storage services are services; `LoginOf`, `PluginOf`, `ProviderOf` and
`ServicesOf` are functions into what they should be; jobs of one provider have one plugin, and the page's jobs are
finite in number (they are counted); switches are Booleans and bounds natural numbers; and "none" is none of the values
it stands beside.

Only model-checked is the liveness: `MountsConverge`, `CredentialsSettle`, `JobsAnswered`, `WritesFinish`,
`RemovalFinishes`, `RemovalForgetsCredentials`. The prover has no rule for fairness and ENABLED here. Every invariant
and every action property of a passing run is a theorem.

## What is assumed of other software

* `Manager::account(id)` gives every caller a handle of its own, and null exactly when the account is gone; ids are
  never given out again.
* `sync()` may be carried out later; reads see what is committed; `synced` comes once for each write carried out.
* Signals of libaccounts arrive later and in the order of the changes, to a process that is there.
* One slot's reads of the database see one state of it.
* `KJob::emitResult` announces one result and deletes the job later.
* signond answers the requests about one identity in order; it may send an info on its own. It may refuse to store or
  to remove credentials, and a request to remove them may be lost with the Identity that carries it.
* A service's enabled flag is independent of its account's flag, for `enabledChanged` and `enabledServices`; an
  `enabledChanged` with an empty service name is ignored by the code and left out.

## Not modelled

* Texts, icons, the layout of pages, KDirNotify signals, loading of plugins from disk, the QML registration and the
  example: no state of theirs decides anything later. The manager singleton (`lib/core.cpp`) is one manager for each
  process, which every module assumes.
* The values an account is created with (display name, auth parameters, which of its services are enabled), and the
  method, mechanism and data of an auth session: they are passed on and not looked at.
* The results and error texts of the small jobs, of which `ChangeAccountDisplayNameJob` reports none as an error code
  (changeaccountdisplaynamejob.cpp:76): its dialog does not look.
* The other dialogs and pages of the settings module. They are bindings to the models and start the jobs of
  `AccountJobs`; what a check box of the details page shows after a click is decided by the controls library.
* A change of the database by another process in the middle of a slot (providersmodel.cpp:96): one slot sees one state.

## How it came together, and what is left

The daemon came first, because there everything meets: `KIOServices`, `AccountsDaemon`, `MountRegistry` and their
proofs; then `CreateAccountJob` with its proofs, `AccountJobs`, `AccountsModel` and `ServicesModel`. On these stand
`GetCredentialsJob` within the daemon, the page with `ProvidersModel`'s guard, `AccountCreation`, and the proofs about
the jobs and the models.

Left out for a reason: accounts are not removed on the page that adds them, so `AvailableAccounts` and `AccountJobs`
share no state; restarts at any time are checked for the properties that survive them only, since nothing in the code
repairs a place whose change was missed (`DaemonHistory` says which places those are); and slots are atomic against the database.
