# A formal model of warden-worker

warden-worker is a Bitwarden-compatible server that runs on Cloudflare Workers:
Rust handlers over a D1 (SQLite) database, an object store for files (KV or R2),
two Durable Objects, and a cron trigger. This directory holds TLA+ modules that
model it, TLC configurations that check them on small instances, and proofs
that TLAPS checks for every value of the constants.

Paths below are those of the repository; `handlers/` stands for
`src/handlers/`, `models/` for `src/models/`.

## How the code runs, and how the modules show it

A request is served by one asynchronous handler. D1 runs one query, and one
batch of queries, atomically; a handler puts no transaction around the queries
it makes one after the other. It may be suspended at every `.await` while other
handlers run, in this isolate or another one, and it may end at any of them: an
error returned by `?`, a client that goes away, an isolate that is torn down.
HeavyDo, the Durable Object for expensive routes, runs the same router over the
same database, so that it does not serialise anything either.

Every module therefore has the same form.

* The database tables and the object store are functions and sets.
* A handler in flight is a *slot* `req[r]`: the stage it has reached and what it
  read so far. `Req` is the set of slots, so its size is the number of handlers
  that may be in flight at once.
* An action is one query, one batch, or one call to the store, with the local
  computation up to the next one. What a handler read stays in its slot and is
  what it goes on to act upon, whatever the tables say by then.
* Requests are chosen by `\E` over small sets. A *workload* names the routes in
  use, what they may be asked about and how many handlers are in flight, so that
  each part of an instance is about a question and not about everything. The
  variable `load` is chosen at the start from the workloads of the run and never
  changes: one run explores them all. (`Sends` has one workload per run, its
  constants.)
* Variables listed as history are read by no action; properties are.

## Inventory

| Part | State | Operations | What is hard | What makes it correct |
|---|---|---|---|---|
| Bitwarden Sends (`handlers/sends.rs`, `handlers/streaming.rs`, `models/send.rs`) | `sends`, `sends_pending`, files in the store, signed links and access tokens | create text, create file (two phases, and legacy), two uploads, four anonymous access paths, download, update, remove password, delete | accesses race for the last permitted one; a file and its row are written by different services; full-row writes of stale rows | the count never passes the maximum; content is released against a charge; a row has its file and a file its row |
| Purge (`handlers/purge.rs`) | the same tables | five jobs in a fixed order | dies half way; races an upload or a restore | what is due goes in the end, and nothing else |
| Organizations (`handlers/organizations.rs`) | `users_organizations`, `collections`, `users_collections`, `users.updated_at` | create, invite, accept, confirm, update, remove, collections and their access | checks and writes are separate queries; batches of users fail half way | an owner remains; roles are granted by owners; grants do not outlive memberships; members are told to sync |
| Logins and tokens (`handlers/identity.rs`, `auth.rs`, `models/device.rs`) | `users`, `devices`, tokens held by clients | password grant, login with a device, refresh | a login is up to a dozen queries long and acts on the row it read at the start | a usable session was opened with the current password |
| Two-factor (`handlers/twofactor.rs`, `crypto.rs`) | `twofactor`, `users.totp_recover`, `devices.twofactor_remember` | enrol, remove, recover | replay protection reads and writes in two queries; recovery code and remember tokens are kept elsewhere | a code works once; an authenticator can be recovered; a device is remembered for the authenticator in force |
| Auth requests (`handlers/auth_requests.rs`) | `auth_requests` | ask, approve, reject, expire, purge | answers race | a rejected request lets nobody in |
| Accounts (`handlers/accounts.rs`) | `users` and all that hangs on it | register, change password or KDF, rotate stamp, rotate keys, delete | long handlers that rewrite everything an account has | hash and wrapped key belong to one password; rotation leaves nothing under the old key |
| Ciphers (`handlers/ciphers.rs`, `handlers/cipher_access.rs`) | `ciphers`, `ciphers_collections`, `folders` | create, update, share, move, soft delete, restore, archive, delete, bulk forms | access is computed before the write; the revision check is not part of it | no update is lost silently; nobody writes without access; the right users are told |
| Attachments (`handlers/attachments.rs`) | `attachments`, `attachments_pending`, files | two-phase upload, legacy upload, download, delete | as for sends, plus a quota and the deletion of the cipher | row and file go together; the limit is overshot by no more than what races; files move by those who may |
| Devices and push (`handlers/devices.rs`, `push.rs`) | `devices.push_token`, `push_uuid`, the relay's registrations | set token, clear token, register again at login | the relay call may fail after the row was written | the relay holds what the rows say |
| Notifications (`notifications.rs`, `durable/notify_do.rs`) | web sockets and their attachments | connect, handshake, fan-out | best effort, recipients computed after the write | who has a working socket hears of the logout, or of the answer |
| Key rotation (`handlers/accounts.rs`, `handlers/sends.rs`) | everything encrypted of a user | validate, rewrite in batches, replace the key | not atomic; items appear and change while it runs | one key for the whole vault |
| Sync, folders, import, domains | `folders`, `ciphers`, JSON | reads; single writes; one batch import | import stops half way | — |
| Routing, configuration, deployment | none | dispatch, origin gate, constant answers | — | — |

How they interact. All handlers share D1. Sends and attachments share the
object store, and their uploads and downloads bypass the router (`lib.rs`,
`handlers/streaming.rs`). A login calls into organizations
(`accept_pending_invites_for_user`) and push. Every write ends with a bump of
`users.updated_at` (`db.rs`), which is what clients compare before they sync,
and with notifications that run in the background. The cron purge works on the
tables with no regard to handlers in flight.

`PROJECT.json` lists the hazards, each at the line where it bites, and the properties that
watch it. Where the code does go wrong, and the property that is nearest names that among
its exceptions, the hazard has no property and its note says which one exempts it.

## Modules

| Module | Models | Shape |
|---|---|---|
| `SendBudget` | what an access counter promises | abstract: open, reconfigure, close, charge, release |
| `Sends` | sends, their files, links and tokens, the purge of both tables | 15 routes, cron as a process of its own |
| `SendsProofs`, `SendsRefinement` | proofs about `Sends` | see below |
| `OrgMembership` | one organization, its members, collections and grants | 12 routes |
| `Sessions` | one account: registration, logins, tokens, second factor, auth requests | 11 routes |
| `Vault` | the ciphers of the accounts and of one organization, their collections and folders, the trash and its purge | 21 routes, cron as a process of its own |
| `Attachments` | the attachments of ciphers, their objects, links and limit, the purge of both | 14 routes, cron as a process of its own |
| `AttachmentsProofs`, `SessionsProofs`, `OrgProofs`, `VaultProofs`, `RotationProofs`, `MessagesProofs` | proofs about the module they are named for | see below |
| `KeyRotation` | all that is encrypted under the key of one account | 9 routes |
| `Messages` | the phones of one account at the push relay, the sockets of the durable object | 10 routes |
| `MCSends`, `MCOrg`, `MCSessions`, `MCVault`, `MCAttachments`, `MCKeyRotation`, `MCMessages` | workloads, constants, symmetry sets and views for TLC | |

### Sends

`sends[s]` and `pending[s]` are the rows, `store` the sends whose file is in the
object store. Rows keep their maximum, count, dates, password and the disabled
flag. `charge` steps are `increment_access_count`, whose one UPDATE compares and
adds; `BumpRow` is `SendDB::update`, which writes the whole row but the count.
Links are represented by the latest expiry of a link for the send (`link`), access
tokens likewise (`access`); both are checked by signature and time only, as in the
code. `cron` walks the two purges of `handlers/purge.rs` in their order, lists
first, deletes objects, then rows, and may fail at any query.

### OrgMembership

`member[u]` is the row of u with type, status, access_all and whether there is a
key. Handlers keep the caller's type as `ensure_org_admin` read it, the
membership id from the path and the row to be written. A batch of users is done
one by one, so that an error in the middle leaves the earlier ones. `untold`
holds the users whose view of the organization changed since their `updated_at`
was last bumped.

Taken together that are apart in the code: the collections named by one request
are looked up in one step, and so are the two bumps that end a removal. Names of
organizations and collections, and the flags of a grant, are left out. The type
"custom" is a plain user here as it is in these handlers.

### Sessions

`user.pw` is the password whose hash is stored and `user.key` the password the
user key is wrapped for; the two columns are written by the same queries, or by
the hash migration alone. `session` holds what tokens claim: the device, the
stamp, and, as history, the password the login verified. A session is usable,
`Live`, under the conditions of `decode_access_token`. A one-time code is the
number of its time step; `ValidSteps` is the loop of `validate_totp`. A remember
token stands for the authenticator that was proved to obtain it.

Taken together: the two queries of `decode_access_token`; the loading of the
row of the user with the verification of the password that follows it. Left out:
rate limits, expiry of tokens, the address and type checks of auth requests,
deletion of the account.

### Vault

`cipher[c]` is the row of a cipher: its creator (`user_id`), whether it is the
organization's, its folder, and where it stands in the trash. `placed` is
`ciphers_collections`, `grant` is `users_collections`. `Reads`, `ReadOnly` and
`CanEdit` are the access view of `handlers/cipher_access.rs`; `Access` reads it for
one cipher after the other, as the bulk routes do, before the one query that
writes them all. A handler goes through the queries of its route by its `stage`;
routes share the stages that are the same function in the code (`VetAssignment`,
`VetManage`, `VetFolder`, `Place`, `Touch`). The foreign keys of `schema.sql` are part of
the actions that delete (`WithoutCiphers`, `WithoutFolders`, `DeleteUser`,
`DeleteCollection`) and are what makes `Insert`, `Place` and `WriteRow` fail.

Four variables are history. `seen[r]` is what the caller of a request could do at
some time since it began; `untold` is as in `OrgMembership`; `excused` records why
someone was not told: a handler that ended after a write of its own, the foreign
keys when an account goes, the purge; `reverted` holds the ciphers that a stale update
has made personal again.

The memberships and grants are those of the start, all confirmed, and are only
taken away. Taken together: the lookups of `validate_cipher_org_assignment`.
Archiving only touches a row, since nothing reads `archived_at` before a write.

`MCVault` has two views, which keep TLC from telling apart states that differ in
history alone: `WithoutTelling` leaves out what only `ToldOfCiphers` reads and the
locals of a handler that has only `Touch` left, `WithoutSeen` what only the other
properties read. A workload with several handlers uses the first, for
`ToldOfCiphers` promises nothing there; one with a handler at a time the second.

### Attachments

`row` and `pend` are the two tables, `home[a]` the column `cipher_id` of either,
`object` the store. A handler vets the ciphers its path names one by one, looks at
the trash, then at the row; the path need not name the cipher of the attachment.
Both removals (`ListKeys`, `RemoveObject`, `DeleteCiphers`) and the purge list keys, delete
objects, then rows, whose pending rows go along by the foreign key
(`WithoutCiphers`). The limit is that of `user_attachment_usage`: it counts what lies on
ciphers the user created, and is checked for the caller.

`could[r]` is what the caller of a request could read and write when it began. `lost`
and `stray` collect the attachments for which row and object may part, each by the
action that is the cause. Files have size one. Soft deletion and restoring are one
step each, because `Vault` has their queries; `Leave` stands for every way to lose access.

### KeyRotation

`under[i]` is the key a folder, cipher, attachment or send is encrypted under,
`pend` that of an upload not yet finalized, `holds[s]` the key a client learned
when it logged in. `StartRotation` is the client's part: it draws a key and encrypts all there is.
Then come the stages of `post_rotatekey`: `ReadUser`, `Validate` (one batch of four
queries), `Rewrite` per batch of `execute_in_batches`, `CheckSends` of
`rotate_user_sends`, `Replace`. The other routes are what clients of the account
may do meanwhile. `knows` has the requests that prove the current password, so that a
changed password stops those that have not yet verified it and no other.
`mixed` collects the items that may end under another key, each by the action
that is the cause.

### Messages

`dev[d]` has the columns `push_token` and `push_uuid`, `relay` what the relay holds,
which is external and modelled as one registration per `deviceId`. `Register`,
`RegisterFails`, `Unregister` and `UnregisterEach` are calls of the relay with both of
their outcomes; `PersistFails` is the write of a new `push_uuid` that fails, which a login only
logs (`handlers/identity.rs:751`). `behind` and `parted` are the phones over which a call failed or two
handlers met. `sock[s]` is the attachment of a socket: its topic, whether the
handshake is done, and as history which messages it was sent. `job` are the
tasks that fan out after the answer, `FanOut` the loop of `ws_fanout` as one step of the durable
object, `Lose` a task that fails.

## Runs

Deadlock is not checked: clocks, ids, security stamps and charges are bounded,
and with nobody asking for anything the server does stop.

Runs that pass:

| Run | Question | Bounds |
|---|---|---|
| `sends_access` | do concurrent accesses, over all four paths, and owner updates keep the cap and the one-charge-one-content rule, and is `Sends` a `SendBudget`? | 1 send, 2 handlers, clock to 2, 2 charges, maxima 1 and 2 |
| `sends_life` | do file and row go together in the face of uploads, deletions, purge and failures, and does everything due for the purge go? | 1 send, 2 handlers, clock to 3 with stale age 1, `FairSpec` |
| `org_members` | owners, keys, grants and who is told, with handlers that may die after any query (workloads `members`, `collections`); what two handlers can never do to statuses and roles (`races`) | 2 users, 2 collections, 3 memberships; 1 handler, or 2 |
| `sess_logins` | which password opened the sessions that are usable, and what a rejection is worth (`logins`, `answers`); recovery code, remember tokens, codes used once (`factors`) | 1 device, 2 passwords, 1 auth request, 2 authenticators, 3 stamps, clock to 3, drift 1; 2 handlers, or 1 that may die |
| `vault_races` | who changes and places a cipher, and where it lies, when access (`placing`) or folders (`filing`) go away meanwhile; does a cipher belong to one side, and is everybody told, over the other routes (`routes`) and those of the trash (`purging`); does the purge take the trash only? | 2 users, an administrator and a member who may read or write, 1 collection, 2 folders; 1 cipher and 2 handlers, or 2 ciphers and 1 handler that may die |
| `attach_races` | do row and object go together, is the limit overshot by one file per concurrent handler at most, do only those with access move files, are they all told? | 2 users, 2 ciphers, 3 files, limit 1; 2 handlers, or 1 that may die, in eight workloads |
| `attach_life` | do abandoned uploads and old trash go, under `AttachFair`? | 1 file, 1 cipher, 1 handler that may die, a purge that may die |
| `rotate` | which items can a rotation leave under a wrong key? | 1 folder, 2 ciphers, 2 sends, 1 attachment, 2 new keys, 2 handlers, batches of one, in eight workloads |
| `messages` | does the relay hold what the rows say, and is every working socket told? | 1 phone, 1 browser, 2 push tokens, 2 sockets, 2 uuids, 2 stamps, 2 handlers, in five workloads |

Which property is about which workload follows from the properties: those that
hold of one handler at a time say so (`OneAtATime`, or through `load.most`), and hold of
nothing else in the others.

Two handlers are enough for the races in question, each of which is between one
reader and one writer; one send, account or organization is enough because no
query of a request touches the rows of two. The bulk routes for ciphers do, and
what they tell depends on it, so workload `routes` has two ciphers, of which one may be
the organization's and one personal, and so is it with files. Batches of one make
a rotation pause between any two items. The clock reaches every expiry of the
instance and one step more.

Runs that end in a violation. Each checks one property, a sentence of the
repository about the program, quoted in `PROJECT.json` under "findings":

| Run | What happens |
|---|---|
| `sends_twice` | one download is counted twice; a maximum of one is never usable |
| `org_owner_race` | two removals that each counted two owners leave none |
| `vault_creator` | the deletion of an account takes its organization ciphers along, by the foreign key of `ciphers.user_id` |

### What does not hold with two handlers

`OwnerKept`, `ConfirmedHasKey`, `OneOwner`, `ToldOfCiphers`, `RecoverableFactor`,
`RememberedForFactor` and `NoReplay` hold of one handler at a time, and that is what those
workloads show. Such a handler may die after any query, with one exception: an enrolment that
dies between the INSERT of the authenticator and the UPDATE with its recovery code
(`RecoveryStages`) does leave an authenticator that cannot be recovered, so that
`RecoverableFactor` exempts what comes after (`cut`). `OwnerKept` and `ToldOfCiphers` exempt what is said below.
With two in flight TLC finds:

* `OwnerKept` (of which `OwnerKeptAlone` is the form for one handler): see `org_owner_race`.
* `ConfirmedHasKey`: an update that read the row before the confirmation writes
  it back without the key (`handlers/organizations.rs:1992`).
* `NoReplay`: two logins read the same `last_used` and accept the same code
  (`handlers/identity.rs:655`).
* `RememberedForFactor`: a login that spans an enrolment stores a remember token
  it earned with the old authenticator (`handlers/identity.rs:739`).
* `RecoverableFactor`: a removal finds no authenticator left, another one is
  enrolled, and its recovery code is cleared (`handlers/twofactor.rs:441`).
* `OneOwner`: an update that read the cipher before it was shared writes it back
  as a personal one, and may leave its collections (`handlers/ciphers.rs:830`).
* `FolderOfCreator`, which exempts what such an update has made personal again (`reverted`):
  the update may be that of a member who could edit the shared cipher, and names a folder of
  the member's own, so that a cipher of one account lies in the folder of another
  (`handlers/ciphers.rs:756`). The invariant was stated without the exemption first;
  the proof failed there, and an instance with a second folder confirmed it.
* `NeverDemoted`, which is promised with two handlers only where nobody accepts an invitation
  by its link: the UPDATE there is made because the row it read was one of an invitation, and
  does not look again (`handlers/organizations.rs:1794`).
* `ToldOfCiphers`: a request that found the cipher personal tells its caller only,
  although it has been shared meanwhile (`handlers/ciphers.rs:398`).

Two more were found while the model was built: a login that
verified the old password migrates its hash after another handler changed the
password, and puts the old hash back beside a key wrapped for the new one
(`handlers/identity.rs:394`); and two registrations that read the placeholder of
one invitation both succeed, the second over the account the first made
(`handlers/accounts.rs:316`).

Two races of sends end in states that no property here forbids. The access to a file
send writes back the whole row it read, so that an anonymous access undoes a
change the owner made meanwhile (`handlers/sends.rs:831`). And it sets
`users.updated_at` to the time of that row, which may be earlier than what is
there (`handlers/sends.rs:717`). `BumpRow` and `Touch` of `Sends` do both.

With one handler or two, the properties say what they exempt: `OwnerKeptAlone` allows
for the deletion of accounts, because the only owner may delete the account
(`handlers/accounts.rs:740`); `ToldOfCiphers` excuses the purge, which tells the
creators of what it deletes and no other member (`handlers/purge.rs:109`), and
`vault_creator`'s cascade, which tells nobody; `Told` exempts handlers that ended in an
error, because a refused user list leaves a new collection that nobody was told
of (`handlers/organizations.rs:1523`); `NoOrphanFiles` exempts a send that was
uploaded twice, because the second upload may finalize after the send was
deleted and bring the row back (`models/send.rs:576`).

Files of ciphers. `FilesPresent` and `NoOrphanObjects` name the ways in which row and
object part, in `lost` and `stray`, and each of them does happen:

* the purge has listed or deleted the files of a cipher that is then restored; the
  cipher comes back with rows and no files (`handlers/purge.rs:136`);
* a stream of the wrong size deletes the object under its key, though a second
  upload of the attachment has put it and may have promoted the row (`handlers/streaming.rs:341`);
  and a removal deletes an object that a second upload has just put;
* a handler dies between row and object (`handlers/attachments.rs:460`); the purge of
  pending uploads drops the row and does not look for an object (`handlers/purge.rs:53`);
* a file is added to a cipher whose files a removal has already listed, or the cipher
  goes between the upload and the promotion of its row;
* the deletion of an account takes ciphers of the organization along
  (`vault_creator`), the objects of whose files were not listed
  (`handlers/accounts.rs:714`).

The limit. `QuotaOvershoot` is about the personal ciphers of an account. The usage that is
compared is that of the caller, over all ciphers the caller created: files that other
members add to an organization cipher count against its creator, and against no
limit of theirs (`handlers/attachments.rs:983`).

Rotation. `OneKey` names, in `mixed`, the writes that end under a wrong key:

* an item created, or an upload finalized, after the check and before the new key is
  stored, and an edit of an item that the rotation has already rewritten
  (`handlers/accounts.rs:913`);
* a rotation that ends half way, by a death, by a folder deleted under it or
  because the sends do not match: they are compared after folders and ciphers have
  been rewritten (`handlers/sends.rs:910`), and what was rewritten is under a key
  that is never stored;
* attachments, which are never compared: one that appears before the check is missed too;
* a cipher that is shared after the check, rewritten under the user key all the
  same (`handlers/accounts.rs:1019`);
* the files of shared ciphers, of those too that a stale update has made personal and another
  one shared again (`handlers/ciphers.rs:830`): a rotation in between rewrites them;
* a handler that began before the new key was stored and writes after it;
* a change of the password that began before and wraps the old key
  (`handlers/accounts.rs:810`): then nothing can be read any more.

Phones and sockets. `RelayAgrees` exempts a phone while it is `behind`: a call of the relay
failed after the row was written, and `put_device_token` with the same token
is skipped once there is a `push_uuid` (`handlers/devices.rs:189`), so that only a login
or another token makes it good. It exempts phones in `parted` for good: two handlers each drew a
`push_uuid` (`push.rs:188`), a registration was made whose answer was lost or whose `push_uuid`
was not stored (`handlers/identity.rs:751`), or the
row went although the call to unregister failed (`push.rs:368`). `LogoutTold` is about the message
only: the server leaves the sockets of a revoked session open, the token of a
socket is checked when it is opened and never again (`durable/notify_do.rs:110`), and a
socket whose handshake comes after the fan-out hears nothing of it. Phones hear
nothing of a logout after `sstamp`, because their rows are deleted before it is
published, as the code says itself (`handlers/accounts.rs:1253`).

## Fairness

Two runs assume any. `sends_life` (`CronFairness`): the cron trigger fires again
and again, so each step of the purge that stays possible is taken (weak
fairness on the steps of the cron process), and its queries and store calls fail
only finitely often (`<>[][~CronFail]`). `attach_life` (`AttachFair`): the same trigger; here a run
of the purge may fail for ever and again, only no query in it fails every time it is
tried (strong fairness on the steps a death can pre-empt); and time passes, so that a pending
row grows old unless it goes. Nothing is assumed of handlers: a client may go
away at any point.

## Proofs

TLAPS checks, for any set of sends, passwords, routes and payloads, any finite
set of slots, and any bounds:

* `TypeCorrect`: `Spec => []TypeOK`.
* `CapRespected`: `Spec => []CountWithinCap`. The invariant is not inductive: an
  UPDATE compares the count with the maximum in the row, and a stale full-row
  write may put another maximum there. `CapInv` says that for a send whose owner
  has not begun an update every copy of the row, in either table or in the slot
  of a handler, carries the maximum it was created with, that rows not inserted
  yet have a count of zero, and that ids not drawn are nowhere (`CapsKept`).
* `Paid`: `Spec => []ServedWasPaid`. The number of contents served and of
  handlers about to serve is at most the number of charges; a step moves at most
  one handler in or out (`AnsweringMoves`), which is where the slots must be finite.
* `FilesStay` and `FilesOwned`: `Spec => []FilesPresent` and `Spec => []NoOrphanFiles`, from `FilesKept`,
  `Spec => []FileInv`. An object, its row and the handlers between them are three places, and for each
  send the invariant says which combinations there are: an id not drawn has no file (`FreshId`), a
  pending row waits for one upload, which holds it (`FileRows`); with one upload begun there is no
  other, and once its row is in `sends`, or the purge has found it there, the upload is over
  (`OneUpload`); and the file is there before the row is promoted, gone before the row goes, and
  not yet put while the row waits and no handler carries it, but for sends that a handler or the
  purge left half done (`FileKept`).
* `Refinement`: `Spec => ImplementsBudget`, from `BornUncounted`, the invariant
  that a row always enters the table with a count of zero: every step of `Sends`
  is one of `SendBudget` or leaves count, maximum, charges and contents alone.

* `AttachTypeCorrect`: `AttachSpec => []AttachTypeOK`. To know that a row has its cipher one
  has to know that a handler carries a file only once its id was drawn (`Sound`, of
  every handler: `AllSound`).
* `QuotaBounded`: `AttachSpec => []QuotaOvershoot`. By itself the bound is not inductive: one has
  to know that a handler that names a personal cipher is its creator's (`AllSound`
  again), because the limit is compared for the caller. Then
  `Present(a)` holds of files that have a row or that a handler is about to give one; no step but
  `Limits` makes it true of another file (`Kept`, one lemma for each action). `Limits` draws an id
  when all rows together leave room for it; what it does not see is carried by
  handlers, at most one file by each, which is the bound.
* `FilesByRights`: `AttachSpec => ByRights`, with any number of handlers. What a handler has
  vetted it could use when it began, because rights only fall (`AllVetted`), and the file it carries was
  compared with the cipher it names before any stage that writes or reads it (`AllKnow`).
* `AttachFilesPresent` and `AttachFilesOwned`: `AttachSpec => []FilesPresent` and
  `AttachSpec => []NoOrphanObjects`, from `AttachFilesKept`, `AttachSpec => []AttachInv`: the files a handler or
  the purge has listed are of ciphers it is about to take, and it has listed all that have an
  object and a row, or `lost` and `stray` name them (`FilesListed`, `CronKnows`); so no step but those the two
  sets are about parts a row and its object.
* `AttachToldOfFiles`: `AttachSpec => []ToldOfFiles`, with any number of handlers: whoever is to be told is among
  those some handler or the purge is yet to tell (`Telling`), because those who can read a cipher when its
  files change still can when the bump asks who they are, or are the account a handler is deleting.

Of logins (`SessionsProofs`):

* `SessionTypeCorrect`: `SessionSpec => []SessionTypeOK`.
* `PasswordProved`: `SessionSpec => []SessionsProvePassword`, and `RejectionHolds`:
  `SessionSpec => RejectedStaysRejected`, from `SessionInv`: a password that a session, or a handler in
  flight, carries together with a stamp is that of the account as long as the stamp is
  (`Passwords`, `AllSound`); the row of a rejected request is gone and its id is not used
  again (`RejectedGone`); where one handler at a time is allowed there is no second
  (`AtMostOne`). The key to it is that stamps are never drawn twice: a handler that
  slept through a change of the password holds a stamp that will not come back.
* `RememberedHolds`, `ReplayRefused`: `RememberedForFactor` and `NoReplay`, one handler at a time,
  which may die anywhere, from `SecondInv`: what the one handler read of the authenticator is what
  there is, and the step of the code it is about to store is later than the last one used.
* `RecoveryHolds`: `RecoverableFactor`, one handler at a time, which may die anywhere but in
  `RecoveryStages`, from `SecondInv` too: as long as none has died there, an authenticator has its
  recovery code or the one handler in flight is about to see to it (`Covered`).

Of organizations (`OrgProofs`):

* `OrgTypeCorrect`: `OrgSpec => []OrgTypeOK`.
* `OwnersMade`: `OrgSpec => OwnersByOwners`, with any number of handlers, from `OrgInv`: a handler
  that holds a row with the type "owner" has read its caller to be one or creates the
  organization (`AllSound`), and no two memberships have the same id (`Ids`).
* `GrantsKept`, `KeysKept`, `ChangesTold`, `NobodyDemoted`, `LastOwnerKept`: `GrantsToMembers`,
  `ConfirmedHasKey`, `Told`, `NeverDemoted` and `OwnerKeptAlone`. They hold of one handler at a time, and
  the invariant is about that one (`AloneInv`): the membership it works on is still the one it read,
  another owner remains when it is about to take one away, it grants to members only (`Alone`),
  and whoever is still to be told is among those it will tell, unless a handler has
  ended half way (`Owing`).

Of ciphers (`VaultProofs`):

* `VaultTypeCorrect`: `VaultSpec => []VaultTypeOK`.
* `WritersHold`, `AdminsPlace`: `VaultSpec => WrittenByWriters` and `VaultSpec => PlacedByAdmins`, with any
  number of handlers, from `HandlersInv`: the ciphers a handler has ticked off are among those its
  caller could edit at some time, and past `VetManage` the caller was an administrator at some
  time (`AllWatched`).
* `PurgeHolds`: `VaultSpec => PurgesTrash`.
* `FoldersHold`: `VaultSpec => []FolderOfCreator`, with any number of handlers, from `OwnersInv`: ids are
  fresh (`Fresh`), and where a handler is about to file a cipher in a folder of its caller
  the caller made it, or it is gone, or the organization's, or made personal again (`AllVouched`).
* `OneOwnerHolds`: `VaultSpec => []OneOwner`, from `AloneInv`: what the one handler has learned of the
  ciphers it is to write holds until it has done (`AllSteady`), wherever it dies.
* `ToldHolds`: `VaultSpec => []ToldOfCiphers`, from `ToldInv`: whoever is still to be told is among those that the
  purge, or the one handler, is yet to reach with its bumps (`Promised`), unless someone is
  excused. For that the handler must cover each cipher it writes: an organization's with the scope
  "org", a personal one as its creator (`Covers`, of all it has found that it may write: `Aimed`). It needs
  `OneOwner` and `FolderOfCreator`: a folder or a collection that goes changes the view of nobody but
  the owner of the folder, or members, because only ciphers of that owner, or of the organization, are
  in it (`UnfiledViews`, `ToldDeleteCollection`).

Of the rotation of keys (`RotationProofs`), with any number of sessions, handlers and rotations, and
batches of any size:

* `RotTypeCorrect`: `RotSpec => []RotTypeOK`, from `KeysInv`: a rotation rewrites one kind after the
  other (`Ordered`), and nothing but a cipher is under the key of the organization (`OrgOnly`).
* `OneKeyHolds`: `RotSpec => []OneKey`. The invariant, `OneKeyInv`, says of every rotation what makes
  it right to store its key at the end: an item it does not have before it is one it has rewritten, or
  is in `mixed` (`AllKept`); at the last stage that is every item. It holds from the check on because
  the check compares ids, and for the attachments, which are not compared, because those the
  client did not see are of shared ciphers (`FilesMixed`). Beside it: a session that may ask holds the key
  of the account (`HeldKeys`), a handler writes under it unless it began before the key changed
  (`Current`), and ids are drawn once (`CreateFresh`). The proof found a cause that `mixed` did not name,
  the files of a cipher that is shared twice.

Of phones and sockets (`MessagesProofs`), with any number of handlers:

* `MsgTypeCorrect`: `MsgSpec => []MsgTypeOK`, from `MsgInv`: what a handler holds at each stage
  (`AllSound`), and that a uuid was drawn before the relay can know it (`Drawn`).
* `LogoutIsTold`: `MsgSpec => []LogoutTold`. The invariant beside it is that a socket counts the
  messages from its first handshake on, and from no other event (`Heard`).
* `RelayMirrorsRows`: `MsgSpec => []RelayAgrees`, from `RelayInv`. A call of the relay and the
  write of the row it belongs to are two steps, so that the agreement holds between handlers only; what
  holds in between is in four parts. A uuid is known for one device, whether to the relay, to a row or to
  a handler, so that a call about one phone leaves the others (`Own`). Handlers that work on
  one phone at a time have parted it (`Apart`). For one that has not, what its handler has read of the
  row, or has yet to store, is still so (`AllKnow`): it is why a failed call with a uuid of the
  row leaves the phone `behind`, where a later call makes it good, and one with a new uuid leaves it
  `parted` for good. And the registrations of a phone have the uuid of its row even while it is
  `behind` (`Fits`).

For one handler at a time the slots must be finite: a request begins when fewer handlers are in
flight than the workload allows, and only of a finite set does a cardinality below one say
that it is empty.

The assumptions are those of the constants (`NoneAssumption`, `RouteAssumption`,
`ReqAssumption`, `BoundsAssumption`, `PayloadAssumption`, `NullAssumption` of `Sends`;
`AttachFinite`, `CipherAssumption`, `MemberAssumption`, `LimitAssumption`, `AttachNoneAssumption`,
`AttachWorkloads` of `Attachments`; `SessionWorkloadAssumption`, `SessionFinite`,
`SessionNoneAssumption`, `SessionBoundsAssumption`, `SessionNullAssumption` of `Sessions`;
`OrgNoneAssumption`, `MaxIdsAssumption`, `OrgFinite`, `OrgWorkloadAssumption`, `OrgNullAssumption` of
`OrgMembership`; `VaultWorkloadAssumption`, `FirstAssumption`, `FolderAssumption`, `VaultFinite`,
`VaultNoneAssumption`, `VaultAskAssumption` of `Vault`; `KindsAssumption`, `HomeAssumption`, `RotWorkloadAssumption`,
`RotKeyAssumption`, `BatchAssumption` of `KeyRotation`; `MsgWorkloadAssumption`, `PhoneAssumption`,
`MsgNoneAssumption`, `MsgBoundAssumption`, `DevRowAssumption` of `Messages`), which TLC evaluates on every run of these modules. They type
the constants, keep the null value and the kinds of items apart from the others, and make the slots
finite.

Every invariant and every action property that a passing run checks is a theorem. Only
model-checked is liveness, which needs fairness and ENABLED and is beyond the prover: `StalePendingLeaves`,
`ExpiredSendLeaves` and `Reclaimed`. The three runs that expect a violation have nothing to prove.

## Not modelled

Reading lists and the sync document, which change nothing; the parsing and
building of JSON; dates, sizes and other validation of one request by itself; the
KDF and the one-time codes as computations; rate limits; the messages about
changes of the vault and whom they are sent to; the KV variant of the
object store; equivalent domains, two columns written and read whole; routing, configuration,
origin gate, deployment. They keep no state that other parts read.

## Plan

1. The sends and files of an account that is deleted, and the storage limit of
   sends, in `Sends` as in `Attachments`.
2. The comparison of revisions before an update (`reject_stale_revision`), with
   the data of a cipher as a revision, in `Vault`.
3. Abstract specifications: an `ObjectTable` (row and file) that `Sends` and
   `Attachments` share; a life cycle of memberships that `OrgMembership` implements
   with one handler at a time.

The runs of a module are kept few, so that the whole suite stays quick: one for
the safety of all workloads, one for liveness, and one for each disagreement
with the repository's own words.
