# Skillful MCP catalog server: TLA+ models and proofs

The repository holds a catalog server for agent skills: `src/mcp_server`
(FastAPI + SQLAlchemy), a server-rendered Web UI in front of it (`src/webui`), a
command line (`src/cli`), a bridge that serves skills over MCP
(`src/tools/mcp-bridge`), sample clients, Alembic migrations and deployment files.
This directory models

- its tenancy core (users, accounts, memberships, invitations, ownership) and its
  catalog core (skill versions, the latest flag, skillset links, allow-lists),
  twice each: as a service that handles one request at a time, and as the
  sequences of SQL statements that concurrent requests really are;
- the bundle stores, call by call;
- agents, tokens, key rotation and revocation on several replicas, and what a
  token reads;
- the rate limiter;
- bundle signatures and the bridge that checks them and installs bundles;
- the operators' sessions in the Web UI.

TLC checks small instances of all of them. TLAPS proves every safety property the
passing runs check, for every value of the constants: for any number of workers,
users, versions, paths, replicas or tabs. The two refinements (one worker's SQL
statements implement the serial services) are proved as well; liveness is left to TLC.

## 1. Inventory

The state is in one relational database. In production it is PostgreSQL at its
default isolation level, READ COMMITTED; the helm chart starts two replicas, each
runs handlers on a thread pool, and `dependencies.get_db` opens one SQLAlchemy
session per request (`autoflush=False`, `expire_on_commit=True`). Development
uses SQLite. So handlers of the same service interleave statement by statement,
and what a session has loaded is not refreshed by later queries.

| Component (source) | State | Operations | What makes it correct |
|---|---|---|---|
| Accounts and memberships (`accounts.py`, `routers/accounts.py`) | `accounts`, `account_memberships`, `pending_memberships`, owner columns | create and delete account; invite, revoke; change role; remove member, with inheritance | an account keeps an active admin; no dangling rows; owners can own |
| Users (`users.py`, `routers/users.py`) | `users`: disabled, last active account | create, disable, delete, seed from the environment; authenticate | deleting a user leaves no reference to it |
| Signup (`routers/signup.py`) | the three above, in three transactions | register, consume invitations, stamp the landing account | an invitation becomes a membership or stays; what is reported is true |
| Catalog (`catalog.py`, `routers/skills.py`, `routers/skillsets.py`) | `skills`, `skillsets`, `skill_skillsets` | create, upsert, delete one version or all; skillset create, delete; link, unlink | exactly one latest version, a highest one; links name living rows |
| Shares (`shares.py`) | `skill_shares`, `skillset_shares` | add, remove | shares belong to the skill they were made for |
| Move (`routers/move_account.py`) | account and owner columns, shares | move a skill, skillset or agent | all versions move; owner and shares are cleared |
| Agents (`registry.py`) | `agents` | create, patch, delete | grants name what exists |
| Read authorization (`authorization.py`) | none | `resolve_allowed_skill_ids`, `can_read` | visibility, grants, ownership and shares combine as documented |
| Bundles (`bundles.py`, `bundle_signing.py`) | `skill_files`, S3 objects, signatures | upload, copy, delete, sign, verify | index rows and objects agree; a signature covers the bytes |
| Tokens (`auth.py`, `keyring.py`, `revocation.py`, `routers/token.py`) | key ring and deny list of each process; tokens, which no server keeps | issue, validate, revoke, rotate, restart | rotation refuses no live token; a revoked one stays refused; rights end with the grant and the lifetime |
| Rate limiter (`ratelimit.py`, `middleware.py`) | buckets of each process | take | never more than the bucket and its refill; refusals are free |
| Web UI (`webui/`) | session cookie: operator, active account, CSRF token, OIDC state | login, logout, switch account, OIDC callback, forms | a form acts as the operator and in the account its page showed |
| Bridge (`tools/mcp-bridge`) | skills directory | list, verify, install | one version in the directory; what was checked is what is installed |
| Command line (`cli`) | none | calls to the server | does what it reports |

The parts interact through database rows and HTTP calls: signup consumes rows that
invitation requests wrote; removing a member rewrites catalog rows; deleting a user
or an account relies on `ON DELETE` clauses of `models.py`; every write of a skill
ends in `_refresh_is_latest`, which reads and rewrites its sibling rows; the Web UI
strings several server calls into one form.

The hard behaviours follow from that: check-then-act over unlocked rows (the
last-admin guard, the latest flag, link and share checks), stale identity-map
objects, `db.rollback()` in the middle of a loop, one request in several
transactions, row locks taken in different orders, foreign keys that are missing
where a handler must do their work, and an object store next to the database that no
transaction covers. `PROJECT.json` lists each one under `hazards`, with its line and
the properties that are about it, or a note where none is yet.

## 2. Modules

| Module | What it models |
|---|---|
| `Accounts` | The account service, one request per step: users, memberships, invitations, and account and owner of catalog rows. |
| `AccountsTx` | The same requests as statements of concurrent transactions, with row locks, foreign-key waits, identity maps, deadlock aborts and crashes. |
| `Catalog` | The versions of one skill id, the skillsets that list it and its allow-list, one request per step. |
| `CatalogTx` | The same requests as statements of concurrent transactions. |
| `Bundles` | Uploading, copying, deleting and downloading bundles with the inline and the S3 store, as SQL statements and S3 calls of concurrent requests that may fail between any two. |
| `Tokens` | Agents and grants in the database, key ring and deny list of each replica, and the tokens in somebody's hands: mint, validate, revoke, rotate, restart. |
| `Access` | Extends `Tokens` with what a token reads, given any catalogue. |
| `RateLimit` | The bucket of one client in one process, filled and taken from by threads that read the clock before they get the lock. |
| `Bridge` | Versions of one skill with their signatures, and `download_skill` calls that share a directory, request by request. |
| `Sessions` | One browser with several tabs, its cookie, the pages it shows and the requests it waits for; users and memberships change under it. |
| `AccountsProofs`, `AccountsTxProofs`, `CatalogProofs` (also about `CatalogTx`), `BundlesProofs`, `AccessProofs`, `RateLimitProofs`, `BridgeProofs`, `SessionsProofs` | Theorems about the modules they are named for. |
| `MC...` | Bounded instances for TLC. |

The `Tx` modules extend the serial ones: they use the same state and the same
queries (`OtherAdmins`, `OwnedIn`, `Highest`), and requests that interleave only at
their commit *are* the serial action, taken by a worker that is free, when no row
they touch is locked. `ImplementsSerial` and `ImplementsCatalog` instantiate the
serial module over the same database and say that with one worker the
statement-by-statement system implements it. In `AccountsTx` the mapping
(`SignedUp`, `Memberships`, `Invitations`) hides a user between the first and the
last of signup's three transactions, and shows the invitations already consumed as
still pending.

### State

| TLA+ | Code |
|---|---|
| `users`, `disabled`, `lastActive` | `users` table, `users.disabled`, `users.last_active_account_id` |
| `accounts`, `role[a][u]`, `pending[a][u]` | `accounts`, `account_memberships.role`, `pending_memberships.role`; `None` is the absent row |
| `home[r]`, `owner[r]` | `account_id`, `owner_user_id` of a skill, skillset or agent row |
| `skills[v]` | the row of version `v` of the one skill id: flag, account, visibility |
| `sets`, `links`, `shares` | `skillsets`, `skill_skillsets`, `skill_shares` |
| `live`, `index[k]` | the `skills` rows by primary key, the `skill_files` rows of version `k` (a content stands for size, hash and, inline, bytes) |
| `backend`, `objects[k]` | `MCP_BUNDLE_STORE`, the S3 objects under `{prefix}/pk{k}/` |
| `stained` | nothing: history, the versions a failed or overlapped request has touched since their last clean replacement |
| `conf`, `ring[r]`, `deny[r]` | `MCP_JWT_KEYS` and `MCP_JWT_ACTIVE_KID` as deployed; the `KeyRing` and `RevocationList` of replica `r` |
| `grants[a]`, `token[j]` | an agent's skills and skillsets; the claims of the token with `jti` `j` |
| `withdrawn` | nothing: history, when an agent last lost a name |
| `bucket`, `seen[t]` | `_tokens` and `_last_refill`; the time thread `t` read before it waits for the lock |
| `slip`, `log`, `mark` | nothing: history, the time refilled twice, the admissions, and the level after the last of them |
| `bundle[v]`, `sig[v]`, `trusted` | files and `bundle_signature` of version `v`; `MCP_BUNDLE_SIGNING_PUBLIC_KEYS` |
| `disk`, `call[c]` | the skill's directory; what a `download_skill` call has in local variables |
| `mixed` | nothing: history, whether an install has begun while another was writing, and none has begun alone since |
| `cookie`, `page[t]`, `req[t]` | the session in the browser, the one the page of tab `t` was made for, and the one the request of tab `t` was sent with or its response sets |
| `status`, `members` | a user's row and its disabled flag; the accounts it is a member of |
| `w[p]` | what worker `p`'s handler has in local variables, its session and its open transaction; `refused` in it is history, the account whose membership the database refused last |

### Actions

`Accounts` has one action per endpoint that writes (`Startup`, `CreateUser`,
`Signup`, `SetDisabled`, `DeleteUser`, `CreateAccount`, `DeleteAccount`, `Invite`,
`RevokeInvite`, `UpdateRole`, `RemoveMember`, and `CreateRow`, `ReplaceRow`,
`MoveRow`, `DeleteRow` for what the catalog endpoints do to account and owner).
`AccountsTx` splits those with a read the handler relies on later:

| Request | Steps |
|---|---|
| change a role | `UrPeek` (the router's audit read), `UrLock` (FOR UPDATE), `UrGuard` (count), `UrWrite` |
| remove a member | `RmPeek`, `RmLock`, `RmGuard`, `RmAssign` (owner rows), `RmCommit` (promotion, delete) |
| invite | `IvPeek` (is the address registered?), `IvAdd` or `IvPend` |
| delete an account | `DaCheck` (confirmed count), `DaDelete` |
| sign up | `SuCreate`, `SuRead`, `SuTake` per invitation, `SuCommit`, `SuStamp` |

`Catalog` has one action per writing endpoint. In `CatalogTx`:

| Request | Steps |
|---|---|
| create or upsert a version | `CreatePeek` or `UpsertPeek`, `Insert` or `WriteRow`, `RefreshRead` (link checks and the query of `_refresh_is_latest`), `RefreshCommit` |
| delete a version | `DeletePeek`, `WriteRow` (the DELETE locks the row), `Count` (the versions that remain), then `RefreshRead` and `RefreshCommit`, or, after the last one, `UnlinkAll` and `Drop` |
| delete the skill | `DeleteAllRows`, `UnlinkAll` (the DELETE of the links, with the links committed when it starts), `Drop` (the commit of both) |
| move, link, share | a read and a commit |

In `Bundles` an upload is `Upload` (S3: `List`, `Wipe`), `See` and `Lock` (the
DELETE of the old rows takes its snapshot, then waits for rows that are locked),
one `Transfer` per file, and `Commit`. A copy also does `Read` (the source rows); a
delete transfers nothing. A download is `Download` (the listing), one `Fetch` per
file and `Respond`. `Abort` fails any of them between two calls.

`Access` has one action per endpoint that changes agents or tokens (`CreateAgent`,
`UpdateAgent`, `DeleteAgent`, `CreateToken`, `RevokeToken`), `Validate` for the
entry that `is_revoked` drops, `AddKey`, `FlipActive` and `RetireKey` for the steps
of the rotation workflow, `Restart` of one replica and `Tick`. In `RateLimit`,
`Arrive` reads the clock and `Allow` is what happens under the lock.

In `Bridge` a `download_skill` call is `Detail` (with the check of the signature),
`List` (the list of files and the wipe, with no `await` between them), one `Fetch`
per file, and `Installed`; `ListError` is an error body taken for a list, and `Fail`
ends the call between two requests. `AttachSignature`, `ClearSignature`, `Deploy`,
`CreateVersion`, `Upload`, `DeleteBundle` and `DeleteVersion` happen in between; a
version has no files before its first upload and after its bundle is deleted. In `Sessions` a request is `Send`, a
handler (`Page`, `Login`, `Logout`, `Switch`, `CreateAccount`, `Change`, `Callback`,
`Refuse`) that works on the cookie it was sent with, and `Deliver`, which sets the
cookie to the handler's copy; `Abandon` loses the response, and `Elsewhere` is what
other browsers and clients change.

A step is one statement that reads or locks, or the last flush with its commit.
`map` in `PROJECT.json` names the source lines of every definition.

### External behaviour, modelled from how the code relies on it

- A row lock lasts to the end of its transaction; a statement that needs a locked
  row waits. An uncommitted row that refers to a parent keeps the parent from
  being deleted. An insert of a key claimed by an uncommitted insert waits and
  then fails.
- SELECT ... FOR UPDATE without `populate_existing` locks a row and leaves the
  object the session already holds as it was (`SessionRole`).
- A flush writes only attributes whose value the session changed. An UPDATE that
  matches no row raises StaleDataError; a DELETE that matches none only warns. An
  expired object whose row is gone raises ObjectDeletedError.
- Two transactions that wait for each other: the database aborts one.
- The end of a request, whatever the reason, closes the session and rolls back
  what is not committed.

### Abstractions

- A user stands for its e-mail address and an account for its unique name, so an
  account deleted and created again under its name between two statements of one
  request is the same account here.
- A refused request (4xx) changes nothing and is the absence of a step.
- One skill id stands for all: ids share only skillsets. A version is a number
  with a `Rank`; semver strings that differ only in build metadata are two
  versions of one rank, and `max` may pick either.
- In `Catalog` accounts exist throughout (the foreign key is RESTRICT), and the
  owner column is left to `Accounts`, which does not tell versions, skillsets and
  agents apart.
- The link check of a create is merged with the refresh's read, and the last flush
  of a request with its commit: what it writes is locked in between and what it reads
  is read before. The rows deleted by `delete_skill_all` are those present when it
  takes its locks.
- `RmAssign` is the three counts and the three UPDATEs of `_reassign_owned_rows` in one
  step. A row that another request adds or removes between them would keep its old
  owner, or promote a target that then inherits nothing; no property tells that apart.
- In `RateLimit` threads read the clock before they get the lock, in any order. The
  class is written for that ("thread-safe"), but the middleware calls `allow()` from
  an `async` method with no `await` in between (`middleware.py:152-159`), so in the
  server no request overtakes another. The model is wider than the server: what holds
  here holds there, with `slip = 0`.
- `Boot` is one step taken while no worker serves a request.
- In `Bundles` a listing and a bulk delete of S3 keys are one page each; a copied
  file is read and written in one call, as `CopyObject` does; a new version has
  a primary key never used before (PostgreSQL; SQLite may reuse the last one);
  the archive parser and its limits are left out, as is the truncation of a
  downloaded file that a concurrent upload has made longer than its listed size.
- In `Access` the database and the clock do not move while a token is minted or
  checked, within the grain of the clock. Scope names are left out: nothing that
  reads the catalogue looks at them. The catalogue is quantified over, not a
  variable: what is said of reads holds for every one.
- The key ring is the HMAC one; what asymmetric keys do at a rotation is in
  section 4.
- In `Bridge` an upload and the deletion of a bundle are one step each (`Bundles` tells
  their steps; an archive without files is refused), any version may be
  the one that "latest" resolves to, and a signature is a key with the bundle its
  owner signed, or one that matches nothing.
- In `Sessions` there is one browser. A token nobody holds any more is reused as a
  new random one; a request's kind is settled when it is answered; whether the OIDC
  state matches and the provider vouches for the email are inputs. An HTMX request
  leaves the page and its form open, also when it is refused (403, 409): `Change` and
  `Refuse` may answer with a fragment. A GET of a fragment that carries no form does to
  cookie and page what a refused HTMX request does.
- `CanRead`, the rule of `authorization.can_read`, is a definition of `Accounts`
  about its tables; the server's endpoints do not call it yet, only its tests do.
- Left out because no property is about them: audit writes, mail, response
  building, `last_login_at`, display names, descriptions, metadata, an upsert
  that changes nothing.

## 3. Runs

Every module is explored completely within the bounds of its `.cfg`. Request kinds
are a constant (`Kinds`), so a run about one race is not swamped by the others.

| Run | Instance | States | What it shows |
|---|---|---|---|
| `tx_serial` | 1 worker, 3 users, 1 account, 1 row, all kinds, from an empty database | 3,215,888 | types, `RefIntegrity`, `GuardHolds`, `InheritorCanOwn`, `HandoverEndsAccess`, and `ImplementsSerial` |
| `tx_members` | 2 workers, 3 users in an account in use; change role, remove, disable, delete user | 1,648,391 | `LockedRowLives`, `RefIntegrity`, `StrandingNeedsRace` |
| `tx_ends` | 2 workers, 2 users, 2 rows, fair | 264,404 | `EveryRequestEnds`: lock waits and deadlocks never keep a request for ever |
| `tx_signup` | 2 workers that may crash, 2 users, 2 accounts; boot, signup, invite, revoke, create and delete account | 3,105,176 | `RefIntegrity`, `ConsumedOrMember` |
| `cat_serial` | 1 worker, 3 versions of which two tie, 2 accounts, 1 skillset, 1 address | 80,064 | types, `OneLatest`, `LinksAlive`, `ImplementsCatalog` |
| `cat_races` | 2 workers, 3 versions, 2 accounts, 1 skillset | 2,989,591 | `DamageNeedsRace`, `RefreshHeals` |
| `bundles` | 2 workers, 2 versions, 2 paths, 2 contents, 2 archives of which one has a file less; both stores; failures | 2,419,470 | `WholeBundles`, `IndexMatchesStore`, `FaithfulDownloads`, `CopiesAreFaithful` |
| `access` | 2 replicas, 1 agent, a skill and a skillset, 1 token, 2 keys; lifetimes 0 and 3 with a ceiling of 2, deny entries of 1, clock to 4 | 1,641,900 | types with the clamp, `SeamlessRotation`, `GrantsRunOut`, `RefusedStaysRefused` |
| `rate_limit` | 2 threads, half-token refill per time unit, a bucket of 2 tokens, clock to 6 | 257,484 | types, `BurstBound`, `PollingIsFree` |
| `bridge` | 2 calls, 2 versions, 2 paths, 3 bundles of which 1 is signed, versions without files, 1 key, both stores | 1,529,242 | types, `OneVersionOnDisk`, `WholeInstalls`, `SignedInstalls` |
| `sessions` | 2 tabs, the superadmin and a user who is an operator of the environment too, 1 account, 4 tokens (interchangeable) | 332,255 | types, `FormsActAsShown`, `IdentityChangesByLogin`, `SessionsWereTrue` |
| `tx_last_admin` | 2 workers, an account in use with two admins | violation | `AdminsSurviveRequests`: section 4 |

`StrandingNeedsRace` and `DamageNeedsRace` say what is left of a promise the code
breaks under concurrency: the invariant is lost only at the commit of a request
that was *overtaken*, that is, whose reads are no longer true. `Overtaken` lists
those cases one by one (an admin it counted is gone, the role its session holds
has changed, the rows its refresh read are not those there now, a version or a link
was committed after the statement that deletes them all, the skill to be linked is
gone). Everything else keeps the invariant: moves, shares, skillset changes, aborted
and deadlocked requests, and every request that nobody overtook. The two properties
bound the races and do not detect them; that there are some, `tx_last_admin` shows for
accounts, and `cat_races` for the catalog when `OneLatest` or `LinksAlive` is added to
its cfg: TLC then finds the two counterexamples told in section 4. `RefreshHeals` adds
that the next refresh that is not overtaken repairs the flag whatever earlier races left
behind.

`ConsumedOrMember` is about the invitations that a signup's commit deletes: each is a
membership by then, or the database refused that membership (`refused`) and the
handler went on, as its `except IntegrityError` does. That exception is needed: an
administrator may add the user directly and remove it again before the signup
commits, and then neither membership nor invitation is left. `tx_signup` has no
`remove_member` requests, to keep two workers with crashes within bounds; the
theorem covers every kind of request.

The properties of `bundles` have the same form: `stained` collects the versions a
request has left half way or has overlapped, and for every other version the
index is one uploaded archive (`WholeBundles`), the S3 objects are exactly the
files of the index (`IndexMatchesStore`), and downloads and copies that no writer
overlaps are faithful. `CopiesAreFaithful` is about copies from another version; a
version copied onto itself comes out empty, which is a disagreement of section 4, and
the property without its `src # k` is the promise that TLC finds broken. A clean replacement removes the stain, so the properties
also say that the next one repairs whatever was there.

`HandoverEndsAccess` is about `can_read`: a member who is removed with a new owner
named reads nothing of the account any more that is not public, unless an allow
list names him. The properties of `access` say what revocation and rotation are
worth without any shared state between replicas: a token is good for what its agent
was granted at most `MaxLifetime` ago, which no revocation is needed for; a rotation
by the written workflow refuses no live token at any replica while replicas restart
one by one; a refusal lasts, unless the replica restarts or lifetimes exceed the
deny list's 24 hours. The last two exceptions are what the code does; the run has
`MaxLifetime` above `RevocationTTL` so that both are met.

`BurstBound` counts the time an overtaken request makes the bucket refill twice
(`slip`): without that term the bound is false of the class, which is the
disagreement on `ratelimit.py` in section 4; in the server `slip` stays 0. In `bridge`,
`mixed` leaves out installs that overlap in one directory; `SignedInstalls` is about a
bundle that is not replaced between check and download, because nothing in the code
ties the two together.

Why the bounds are enough. The last-admin guard relates a departing admin, an
admin it counted and a rival request that removes that one: two users and two
workers show it, and the third user is a bystander. Accounts interact only through a
user's `lastActive` and through one signup consuming invitations of several, so
two accounts are used for signup and one elsewhere. Rows do not interact. Three
versions give a latest, a rival for it and a tie; two workers give every pair of
overlapping requests. An owner's rows are reassigned and locked alike, so one
stands for them all; two are there in `tx_ends`, where two removals deadlock
because the members who leave own one each. Two archives that share a path with
other bytes and differ in another path show leftovers, overwrites and mixes; two
versions a copy's source and destination. In `access` two replicas differ in
ring and deny list, two keys are one rotation, and tokens do not interact. One
token outlives its deny entry and one does not, by the two lifetimes. In
`rate_limit` the bucket can be emptied, refill and be full again before the clock
ends; an overtaken request needs two threads. In `bridge` the bundles share a path
with other bytes and differ in a path, one is signed and the other has the same
paths, and two calls overlap. In `sessions` two tabs give overlapping responses and
stale forms; a third only repeats what a second does; of the four tokens at most
one per tab's page and request and one in the cookie are held at once, and answers
wait when none is left, so some states with five different tokens are not reached
(the theorem of section 5 covers them). More than two concurrent
requests are not explored.

`MCAccountsTx.InUse` starts `tx_members`, `tx_ends` and `tx_last_admin` from
accounts in use (all registered, an active admin, a row owned by a member), any
of which the API can set up; the other runs start from an empty database.

The tokens of `sessions` are interchangeable, because a new one is any that nobody
holds. Symmetry over users and workers is used only where the run has no liveness
property and the constants treat all users alike (`Operators` is all or one).
The workers never all stop (a client can always send a request), so deadlock is
checked in all runs.

Fairness is used by `tx_ends` alone: strong fairness of `Proceed(p)`. A handler that
has begun is run by the thread pool whenever it can, and PostgreSQL grants a row
lock in the order of the requests, so a waiting worker whose lock is free again
and again is served. Nothing is assumed about clients or about one-shot requests.

## 4. Where code and documentation disagree

`tx_last_admin` finds the counterexample of one of them: two requests on two
different admins each count the other one and the account is left with none. The
comments say that FOR UPDATE excludes this; it locks only the row of the departing
admin, not the rows counted.

The others were met while modelling and are in `PROJECT.json` under `findings`, with
the lines of both sides. In short:

- Accounts and signup. A revocation that commits first still loses to a signup that
  has read the invitation. `db.rollback()` on a duplicate membership also undoes the
  memberships of the earlier rounds, which signup then reports. Signup is three
  transactions where its docstring says one. The default inheritor is any admin, not
  the oldest active one. The invitation check looks at one table of two. Deleting an
  account with content always fails. Two removals at once that name each other as
  new owner leave each departed user with the other's rows.
- Catalog and bundles. Two creations of versions of one id each refresh from rows that
  lack the other's, and both versions end up latest. A request that has seen the skill
  commits its link after the clean-up of the skill's deletion and before its commit, or
  later; the link is left behind and comes to life with the next skill of that id. An
  allow-list survives its skill. Overlapping uploads mix their files where the endpoint
  promises an atomic replacement. A bundle copied onto itself comes out empty, because
  the copy wipes its destination before it reads its source.
- Signatures and bridge. With the S3 store a signature covers an empty placeholder
  in place of the bytes. The check and the download are separate requests. An error
  body in place of the file list wipes the installed skill. The list shows no
  signature marks.
- Tokens and limits. The response repeats the lifetime asked for, not the clamped
  one. With asymmetric keys the old tokens are refused as soon as the new key is
  active. A thread that is overtaken on its way to the lock makes the bucket refill
  the same time twice; only callers other than the server's middleware get there. `Retry-After` is rounded and may be too short.
- Web UI. A slow response sent before a logout brings the old session back. An
  operator of the environment's list who is disabled on the server still logs in.
  The OIDC callback leaves an existing user without id, so that no account can be
  chosen. The provider's keys are cached for ever. No code picks the first active
  account. Clearing every box of the token form mints a token without grants.

## 5. Theorems

All hold for every value of the constants that meets the assumptions below.

| Theorem | States | Argument |
|---|---|---|
| `TypeCorrect` (every proof module but `CatalogProofs` and `AccountsTxProofs`) | `Spec => []TypeOK` | inductive by itself, but for `Sessions` and `Bundles`, where it is a part of the invariant |
| `NoDanglingReference` (`AccountsProofs`) | `Spec => []RefIntegrity` | inductive with `TypeOK`; one step per action |
| `LastAdminGuard` | `Spec => GuardHolds` | a step leaves every active admin of `a` in place, or is a role change or removal whose guard provides another one, or disables or deletes one |
| `InheritanceIsSound`, `HandoverIsComplete` | `Spec => InheritorCanOwn`, `HandoverEndsAccess` | only `RemoveMember` takes a membership away and changes an owner in the same step; it leaves its user neither owner nor member |
| `TransactionsAreTyped`, `NoDanglingCommit`, `LocksProtect` (`AccountsTxProofs`) | `TxSpec => []TxTypeOK`, `[]RefIntegrity`, `[]LockedRowLives` | `IInv`, below |
| `InvitationsAreAccountedFor` | `TxSpec => ConsumedOrMember` | `Accounted` in `IInv`: what a signup will delete it has inserted, or was refused |
| `StrandingIsARace` | `TxSpec => StrandingNeedsRace` | `Cleared` in `IInv`: past the guard a request has counted another admin, or its subject was none |
| `OneWorkerIsSerial` | one worker, no crash: `TxSpec => ImplementsSerial` | `SerialInv`, below |
| `OneWorkerIsSafe` | one worker, wherever it crashes: `TxSpec => GuardHolds /\ InheritorCanOwn /\ HandoverEndsAccess` | each of its steps is a serial request, or belongs to a signup or is a crash, which take nothing away |
| `AlwaysOneLatest`, `AlwaysLinksAlive` (`CatalogProofs`) | `Spec => []OneLatest`, `[]LinksAlive` | `IInv == TypeOK /\ OneLatest /\ LinksAlive` is inductive |
| `TransactionsAreTyped` | `TxSpec => []TxTypeOK` | `TxIInv`, below |
| `RefreshesHeal` | `TxSpec => RefreshHeals` | `Chosen` in `TxIInv`: the flags to be written name one highest of the versions read, and those are the ones there now |
| `DamageIsARace` | `TxSpec => DamageNeedsRace` | a refresh that is not overtaken heals; a deletion that is not overtaken has locked every row and deleted every link there is (`HeldLinks`: nobody else touches those); no other step changes flags, ends a skill or adds a link to a missing one |
| `OneWorkerIsSerial`, `OneWorkerIsSafe` | one worker: `TxSpec => ImplementsCatalog`, `[](OneLatest /\ LinksAlive)` | `SerialInv` with `Current`: what the request has read is so |
| `BundlesAreWhole`, `IndexAlwaysMatches` (`BundlesProofs`) | `Spec => []WholeBundles`, `[]IndexMatchesStore` | `IInv`, below |
| `DownloadsAreFaithful`, `CopiesAreAlwaysFaithful` | `Spec => FaithfulDownloads`, `CopiesAreFaithful` | `Fetched` and `Transferred` of the same invariant; for a copy, the source is another version that nobody has written to |
| `RotationIsSeamless` (`AccessProofs`) | `Spec => []SeamlessRotation` | inductive with `SharedKeys`: each replica's signing key is in every ring and in the next configuration, because a deployment waits for the one before |
| `GrantsAlwaysRunOut` | `Spec => []GrantsRunOut` | inductive with `ClaimsWereGranted`: each name in a token is granted still or was withdrawn after the mint |
| `RefusalsLast` | `Spec => RefusedStaysRefused` | an entry lasts as long as its token, and only a restart drops it before |
| `BurstsAreBounded` (`RateLimitProofs`) | `Spec => []BurstBound` | `Balance`: since any admission, what was admitted and what is left never exceed a full bucket and what was refilled |
| `RefusalsAreFree` | `Spec => []PollingIsFree` | inductive: refilling in two parts is refilling in one, and a clock set back only adds |
| `DirectoryIsOfOneVersion` (`BridgeProofs`) | `Spec => []OneVersionOnDisk` | `FetchingAlone`: unless mixed, at most one call fetches and the directory is what it has fetched |
| `InstallsAreWhole`, `InstallsAreSigned` | `Spec => WholeInstalls`, `SignedInstalls` | the same, with `ChecksAreVouched`: a call that required a signature knows an authored bundle of the digest it installs |
| `FormsAlwaysActAsShown` (`SessionsProofs`) | `Spec => []FormsActAsShown` | `TokenNamesIdentity`: of all sessions held by cookie, pages and requests, no two with one token differ in operator or account |
| `IdentityIsKept` | `Spec => IdentityChangesByLogin` | `Abreast`: a request no login or logout has overtaken still carries the cookie's operator |
| `SessionsAreTrue` | `Spec => SessionsWereTrue` | handler by handler: an answer keeps the operator, forgets its id, or has just looked it up |

### Why the invariants are what they are

`AccountsTxProofs.IInv`. None of the properties of `AccountsTx` is inductive. What a
worker relies on between two statements is protected by row locks only, so the
invariant ties the program counter to the locks: `Apart` says that no two workers
hold one membership row; `HeldLives`, `AddedLives` and `MovedLives` say that what a
worker has locked, inserted or updated and not committed is still there, and so is
what it refers to. A step of `p` keeps them for `q` because it waits for the locks
of `q` (`Kept`, the condition under which another worker's part survives, is proved
of each kind of commit). `RefIntegrity` then holds because every insert is checked
against the parents at its statement and the parents cannot go before the commit.
`Cleared` records what the guard has found; it says nothing about now, which is
exactly what `StrandingIsARace` needs: the guard's finding and the present can only
differ through `Overtaken`.

`CatalogProofs.TxIInv`. The same for versions: rows held are there, versions inserted
and not committed are not, and nobody else holds or inserts them. A row that was read
without a lock is there *or* in `lost`, because deletes of other workers tell every
reader; so a flush that finds all its rows has lost none. `RefreshIsSound` says what
`_refresh_is_latest` leaves of any typed rows, whatever their flags were.

The refinements. With one worker nobody else commits, so what a request has read is
so when it commits: `SerialInv` adds to `IInv` that the role peeked at is the role in
the table, the admins counted are the other admins, the confirmed count is the member
count, the rows moved are the rows owned, the invitations found are the pending ones
(`Fits`, `Current`). Every step then is one serial request or changes nothing, once a
signup in progress is hidden (`View` says what the mapping shows of the tables). The
assumption `MayCrash = FALSE` is needed for this: a crash in the middle of a signup leaves a
user without its memberships, or without its landing account, which no serial
request does (section 4). `CatalogTx` has no such request and no crash action.

`BundlesProofs.IInv`. The properties are about versions without a stain, so the
invariant says what a request knows that nobody has disturbed (`alone`): the listing
is what is in the store, the snapshot and the locked rows are the index, what it has
transferred is its source, and while it writes nobody else touches its versions. A
version in order whose writer has not yet wiped it has the objects its index names
(`Matching`). A commit of a lone request then leaves its version in order; every
other commit and every failure past the wipe leaves a stain, of which nothing is
claimed. The invariant needs `NoRowsLeft` for a key that is used anew: a deleted
version's rows are gone by the cascade, and an insert fails on a version that is gone.

### Assumptions

Each is evaluated by TLC in the runs: `OperatorsAreUsers`, `DefaultIsAccount`,
`NoneIsFresh` (NULL is no value of a column); `UsersAreFinite` (addresses are keys of
an index and bounded in length; without it the member count that a deletion
confirms would mean nothing); `RankIsOrder`, `NoneIsNoRow`; in the others that numbers
are numbers, that rates are positive and a bucket holds a token, that keys and paths
are numbered (`KidsAreOrdered`, `PathsAreSorted`), that archives are full
(`ArchivesAreFull`), that authors sign bundles (`AuthorsSign`), and that `None` is no
value. The theorems about one worker assume `Worker = {p}`, and `OneWorkerIsSerial` of
`AccountsTx` also `MayCrash = FALSE`; `tx_serial` and `cat_serial` check the same instances.

### Only model-checked

`EveryRequestEnds`: liveness under fairness is out of TLAPS's reach. Whether `Overtaken`
requests exist is shown by the violation of `tx_last_admin` and by the mutants that make the guarded cases fail, not by a theorem. `TxSpec`, the specification the
theorems are about, starts from an empty database; `tx_members` and `tx_ends` start
from accounts in use, which the API can set up from there.

## 6. Not modelled

- The forms of the Web UI that publish a skill, and `skill add` of the command line:
  several calls to the server, each of which is an action of `Catalog` or `Bundles`;
  what is left when one of them fails is planned below.
- The archive parser of `bundles.py` (safe paths, size limits, round trip): planned
  below.
- Skillset visibility and `skillset_shares`: the parallel of a skill's, with a
  foreign key that cascades.
- Two replicas that bootstrap an empty database at the same time; `Boot` runs alone.
- Asymmetric key rings, the OIDC exchange with the provider, and password hashing:
  the code's part in them is an input of `Access` and `Sessions`.
- Audit log and mail: best effort, never read back by the service.
- Migrations, configuration, schemas, logging, examples, deployment: one-time,
  stateless or not the system's own logic.

## 7. Plan

1. Done: accounts, catalog and bundles; tokens and access; rate limiter; signatures
   and bridge; sessions; the theorems of section 5.
2. `Publish`: the Web UI's new-version and clone forms and `skill add`, as calls to
   `Catalog` and the bundle store that may fail, be answered late or be retried:
   a version without its bundle, a retry that finds its own version.
3. `Archive`: the reader of uploaded archives as functions over short member lists,
   against a reference of what may be stored; the limits at their boundary.
4. Two replicas that start on an empty database, in `AccountsTx`.
5. Done: the proofs about the concurrent modules (`Bundles`, `AccountsTx`,
   `CatalogTx`) and of both refinements.
6. Proofs to come: how much of the serial guarantees is left with many workers, kind
   by kind (which of them can be served next to each other without `Overtaken`);
   `SignedInstalls` and `WholeInstalls` composed with the store of `Bundles`.
