# blerp: verification project

TLA+ specifications of blerp, an authentication and organisation service with a
Clerk-compatible API: an Express server (`apps/api`) on SQLite and Redis, a
worker process that turns events into webhook deliveries and audit rows, a
dashboard, and the SDKs in `packages/`. The specifications are translated from
the source and sit beside it: `PROJECT.json` maps every definition to the lines
it stands for.

## 1. Inventory

Everything below is in `apps/api/src` unless a path says otherwise. "State" is
what outlives one request handler.

| Component | State | Operations | Depends on | What is hard about it |
| --- | --- | --- | --- | --- |
| Sign-in, lockout, second factor (`v1/services/auth.service.ts`, `totp.service.ts`, `user.controller.ts`) | `users.locked`, `failedSignInAttempts`, `totp*`, `backupCodes`; the TransientStore of pending sign-ins; `sessions` | createSignin, attemptSignin, attemptSecondFactor, createSessionForUser, enroll/verify/regenerate/disable TOTP, unlock, ban | SQLite, argon2, otplib | parallel guesses on one sign-in id; the counter, the lock and the session insert are three statements; backup codes are single use; a restart forgets the store |
| Sign-up (`auth.service.ts` createSignup, attemptSignup; `restriction.service.ts`, `domain.service.ts`) | `users`, `emailAddresses`, memberships by domain; pending sign-ups | create, attempt, restriction check, auto-enrolment | TransientStore, Events | several inserts without a transaction; the address is checked before it is inserted |
| Transient store (`lib/transient-store.ts`) | in-process map with deadlines | set, get, pop, delete | | lost at a restart, not shared between processes |
| Magic link (`magic-link.service.ts`), e-mail OTP (`lib/otp.ts`) | `magicLinks` | create, verify, revoke | Sign-in | verify reads `status` and writes it in two statements |
| OAuth sign-in (`oauth.service.ts`), identities (`identity.service.ts`) | `oauthAccounts`, users | start, callback, link, unlink | external provider | find-or-create by read, then insert; the last way to sign in |
| WebAuthn (`webauthn.service.ts`) | challenges, `passkeys` | register, authenticate | @simplewebauthn | a challenge answered twice; the signature counter |
| Sessions (`lib/session.ts`, `session.controller.ts`, `middleware/auth.ts`) | `sessions`, Redis session store, JWTs | list, revoke, token refresh, authMiddleware | Redis, keys | a token outlives its session; nothing calls `sessionStore.create`, so that the store that lists and revokes is empty |
| Keys and JWT (`lib/keys.ts`, `lib/jwt.ts`) | the cached key pair | getKeyPair, sign, verify | environment | first use by two requests at once |
| M2M tokens and API keys (`m2m.service.ts`, `m2m.controller.ts`, `project.service.ts`) | `m2mTokens`, `apiKeys`, `projects` (rows come from the seed, no route makes one) | mint, list, revoke, exchange, rotate, delete a project | auth middleware | scopes may only flow down; a token outlives its revocation; gate, look-up and write are statements of their own |
| Access control (`middleware/auth.ts`, `rbac.ts`, `auth-guard.ts`, `csrf.ts`, `tenant.ts`) | none | decisions per request | memberships, roles | many exemptions that must agree with one another |
| Organisations and memberships (`organization.service.ts`, `membership.service.ts`, `role.service.ts`, `invitation.*`) | `organizations`, `memberships`, `roles`, `invitations` | create, update, delete, join, leave, change role, invite (nothing accepts an invitation) | events, RBAC, org list cache | every rule reads rows first and writes one row later |
| Metadata (`lib/metadata.ts`, user and organisation metadata controllers) | JSON columns | deep merge, replace | | read, merge, write: updates can be lost |
| Events and workers (`lib/events.ts`, `worker.ts`, `workers/*.ts`) | the Redis stream, its two consumer groups, `webhookDeliveries`, `auditLogs` | emit, read, deliver, record, acknowledge | Redis, HTTP | at-least-once delivery, a crash between two of those steps, a failing message in a batch |
| Webhook endpoints (`webhook.service.ts`, `webhook.controller.ts`), audit queries (`audit.*`) | `webhookEndpoints` | CRUD, rotate secret, list | | scoping by project |
| SCIM (`scim.service.ts`) | users, e-mail rows | create, list, replace, delete | | two inserts without a transaction |
| E-mails, phones (`email.service.ts`, `phone.controller.ts`) | addresses | add, verify, set primary, remove | | check, then insert; exactly one primary |
| Rate limit, quota (`middleware/rate-limit.ts`, `quota.service.ts`) | Redis counters | admit or refuse (`checkQuota` has no caller) | Redis | INCR and EXPIRE are two commands; fails open |
| Tenant databases (`db/router.ts`, `db/seed.ts`) | open databases by tenant | get, seed | file system | two first requests for one tenant |
| Next.js SDK (`packages/nextjs`) | three cookies that all tabs share; in each tab the provider's state, a reference to its configuration, a gate, and the query cache | fetch the configuration, hydrate, sign in and up, sign out, switch organisation, `blerpMiddleware`, `auth()` | API | answers that are late; a role, an organisation and a session that come from three places |
| Dashboard (`apps/dashboard`) | the session in localStorage and in each tab's memory; a query cache per tab | sign-in form, sign-out, account deletion, about forty queries and mutations on a dozen screens | API | a cache that outlives a session; fetches that overtake mutations |
| Backend SDK, shared env, test helpers (`packages/backend`, `shared`, `testing`), docs, examples, OpenAPI, infra | none | typed client, environment parsing | API | none that a state machine of ours would show |

How they interact. An HTTP request runs one handler. Handlers share the tenant's
SQLite file (the worker process opens it as well), the in-process TransientStore,
and Redis. State-changing handlers finish by appending an event to a Redis
stream; the webhook worker and the audit worker each read it through their own
consumer group. Nothing in the API uses a database transaction, so the unit of
atomicity is one SQL statement, one Redis command, or the code between two
`await`s, and most rules of the system are kept (or not) by a check in one
statement and a write in a later one.

## 2. Modelling decisions

* A handler is a process. Code between two awaits is one action, and one SQL
  statement is one action. better-sqlite3 runs statements synchronously, but the
  awaits around them yield, password hashing and TOTP run elsewhere, and the
  worker process shares the file, so any two handlers may interleave there.
* What a handler read before an await is kept in its local variables and used
  after it, as in the code; nothing is read again unless the code does.
* A crash drops the handlers in flight and the in-process store; tables stay.
* Names, tokens, hashes and addresses are model values. A hash, a signature or a
  one-time code is represented by whether it is the right one.

## 3. Sign-in: `AccountLock`, `SignIn`, `MCSignIn`, `SignInProofs`

`AccountLock` is what a user of the service is promised about one account:
wrong credentials are counted one by one, the count that reaches
`MAX_SIGNIN_ATTEMPTS` locks the account in the same step, only an account that
is not locked is forgiven or given a session, and only an administrator lifts a
lock. It has no requests, no store and no second factor.

`SignIn` is the code. `users`, `sessions` are the tables; `pendingSignins` is the
TransientStore; `pc[r]` and `loc[r]` are the position and the variables of the
handler of request `r`; `drawn` holds what the random generators produced, so
that a secret or a code is never drawn twice. `owner` and `wrong` only observe:
for whom a sign-in id was created, and how many wrong credentials have not been
forgiven. One action is one stretch of code between two awaits:

| Code | Actions |
| --- | --- |
| `createSignin` | `CreateSignin` (its lookup and its store write run in one turn after the read) |
| `attemptSignin` | `AttemptSignin` (pop, checks), `FindUser`, `VerifyPassword`, then `BumpUserFailures`, or `TouchIfUnlocked` and `Elevate`, or `ResetIfUnlocked` and `InsertSession` |
| `attemptSecondFactor` | `AttemptSecondFactor`, `FindPendingUser`, `VerifyTotp`, `ConsumeBackupCode`, then as above |
| `createSessionForUser` | `InsertSession` |
| `TotpService` | `EnrollTotp`/`WriteSecret`, `VerifyEnrollment`/`WriteEnabled`, `RegenerateBackupCodes`/`WriteCodes`, `DisableTotp`/`WriteDisabled`: a read and a later unconditional write |
| `unlockUser`, `updateUser`, `bulkUpdateUsers` | `UnlockUser`, `SetStatus` |
| expiry of a store entry, restart | `Expire`, `Crash` |

What is checked, and why it could fail:

* `OneSessionPerSignin`, `SigninOwner`: `pop` must hand an entry to one request;
  a failed attempt puts the entry back, so two requests can hold it in turn, and
  a second-factor entry replaces the first-factor one under the same id.
* `LockMeansExhausted`, `NoLostFailure`, `OnlyUnlockClearsLock`: the counter is
  incremented by racing requests, reset by a successful one and cleared by an
  administrator, each in its own statement.
* `NoSessionForLockedUser`: the lock may be set between the password check and
  the insert of the session; the insert repeats the check.
* `CounterFallsOnlyAfterAllFactors`, `SecondFactorWhenEnabled`,
  `BackupCodeUsedOnce`: a password alone must neither sign in nor forgive a user
  with TOTP; a code must be consumed by the statement that accepts it, also
  while codes are regenerated by another request.
* `ImplementsAccountLock`: `AccountLock!Spec` under the mapping that forgets the
  requests.
* `RequestsAnswered`: every request in flight is answered or dies in a crash.
* `EnabledOnlyByValidCode` is what `totp.service.ts` says of itself and does not
  keep (section 10).

## 4. Events: `EventStream`, `WebhookWorker`, `AuditWorker`, `DeliveryLog`, `EventStreamProofs`, `WorkerProofs`

`EventStream` is what the two workers share: `eventBus.emit` on the API's side,
and on the other the Redis consumer group and the loop that reads a batch,
handles its messages one by one, acknowledges each, and sleeps after an
exception. `WebhookWorker` and `AuditWorker` extend it with what they do to a
message. The groups are independent of each other, so each worker is checked
against the stream alone. A message is its position in the stream; Redis ids
only grow, and the code uses no more of them.

| Code | Actions |
| --- | --- |
| a handler that commits, then `eventBus.emit` | `Commit`, `Emit` (tests `redisAvailable`), `AddToStream` or `FailToAdd` |
| the client's `connect`, `error` handlers | `RedisConnection` |
| `initWorker`, the loop of `processEvents`/`processAuditEvents` | `StartWorker`, `ReadBatch` (`XREADGROUP ... COUNT 10 ... >`), `FinishBatch`, `Acknowledge` (`XACK`), `Abort` (the catch), `Wake` (after five seconds) |
| `deliverEvent` | `SelectEndpoints`, and an iteration over `loc[w].targets` |
| `attemptDelivery` | `Post` (the request and its answer), `RecordDelivery` (the insert, and the insert its catch makes) |
| end of an iteration | `FinishEvent` |
| `WebhookService` | `CreateWebhook`, `UpdateWebhook`, `DeleteWebhook` |
| `persistAuditLog` | `PersistAuditLog` |
| the death of a process | `ApiCrash`, `CrashWorker` |

`Faults` names the faults that may happen: `redis` (the API has lost Redis, or
XADD is refused), `resend` (a connection breaks with a command in flight and the
client sends it again, so that an event is in the stream twice, or a batch is
handed out to nobody), `database` (a statement fails), `crash`. Losing a message
that Redis has accepted is not among them. A deleted endpoint makes the insert
of its outcome fail by the foreign key whatever `Faults` says.

`DeliveryLog` is the promise, without processes: a message is read once and in
order, is sent to an endpoint at most once and only while it is open, and is
closed for good. The mapping is `log <- stream`, `read <- cursor`, `open <-
pending`, `sent <-` the observer `posts`. It promises no more because the code
reads only `>`: a message that a dead process left pending is never claimed.

What is checked, and why it could fail:

* `BatchesAreExclusive`: two processes of one group, replies that got lost and
  processes that died must never leave a message in two batches.
* `AckedMeansRecorded`: the endpoints are read once, then changed by
  administrators while requests are under way; a message may be acknowledged
  only when each attempt is on record. `RecordedOnce`: an attempt may insert
  twice, for the answer and in its catch.
* `DeliveriesHaveEndpoint`: an endpoint can go between the attempt and the
  insert of its outcome.
* `PostsInStreamOrder`: one process keeps the order of the stream for an
  endpoint, over any number of aborted batches. (Two processes do not, and
  nothing says they would.)
* `EveryMessageIsRead`: no exception stops the loop. It needs weak fairness of
  `Idle(w)` and of `Handle(w)` for every worker `w`: a process that runs runs
  its loop, and a request comes to an end, because fetch gives up in time. No
  fairness is assumed of the API, of administrators, or of faults.
* `AuditedOnce`, `OrphansAreBounded`: an audit row is not written twice, and the
  messages that stay open for ever are at most one batch per death.

Proved, and in no run, because the statements are of `WorkerProofs`:
`ClosedForGood` (an acknowledged message stays so, and nothing is sent for it
again), `PostsStayInProject` (no event reaches an endpoint of another project),
`NoWorkerIsStuck` (the safety half of `EveryMessageIsRead`), `AuditedBeforeAcked`
(where no statement fails, an acknowledged message has its audit row), and
`AuditImplementsDeliveryLog`: the audit worker keeps the promise of `DeliveryLog`
too, with its table for the only endpoint.

Two more go from the change to what is left of it. `EventsAreFaithful`: only
committed changes are in the stream, once at most unless a command is sent again,
and all whose emit is over unless Redis or the API process fails.
`OneAuditRowPerChange` adds the worker's half: a row is of a committed change, a
change has one row at most unless a command is sent again, and where neither
Redis, a process nor a statement fails, a change that is acknowledged in the
stream has it. Each condition names a fault the code lets through: `emit` drops
its event without Redis, a repeated `XADD` appends it twice, and an insert that
fails is only logged.

## 5. Organisations: `Organization`, `MCOrganization`, `OrganizationProofs`

`memberships` and `customRoles` are the tables, `organizations` says of each id
whether its row is not there yet, live, or deleted. A request is a handler with
its position `pc[r]` and its variables `loc[r]`; the id of the row a request
inserts is the request itself. `calm` observes the requests in whose
organisation nothing was written since they first read a row.

| Code | Actions |
| --- | --- |
| `authMiddleware`'s membership read and `requirePermission` | `AuthenticateUser`, `ResolvePermissions` for a custom role, `AuthenticateKey` and `CheckProject` for M2M |
| `requireProjectAccess` on `POST /organizations` | `RequestOrganization` |
| `MembershipService` create; `updateInOrg`, `deleteInOrg` | `InsertMembership`; `FindMembership` and `WriteMembership` |
| `leaveOrganization` | `FindOwnMembership`, `CountOwners`, `DeleteOwnMembership` |
| `RoleService` create; update; delete | `InsertRole`; `FindRole`, `WriteRole`; `FindRole`, `CheckMembers`, `DeleteRole` |
| `createOrganization`, `deleteOrganization` | `InsertOrganization`, `InsertOwner`; `DeleteOrganization` (foreign keys cascade) |
| `attemptSignup`, where it enrols the account by domain | `SignUp`, `Enroll` |
| the death of the process | `Crash` |

What is abstracted. Of the six permissions the two that gate these tables are
kept. The gate is the one of production: the development shim that stands in
for a session is left out. How a request ends is not told apart ("over"). A
table is a set of rows with an id; nothing makes the rows unique by user or by
name, as in the schema, and a `findFirst` without an order returns any of them.
Which addresses belong to which domain is left open: a sign-up is enrolled in
any live organisation, or in none.

What is checked, and why it could fail:

* `RowsHaveOrganization`: every insert runs statements after the gate that saw
  the organisation, which may be deleted meanwhile; only the foreign keys then
  keep a member or a role from outliving it.
* `WritesStayInOrganization`: the services look a row up by id and organisation,
  and write by the id alone. What keeps the write inside is that no update moves
  a row to another organisation and no id is used twice.
* `AuthorityComesFromAuthority`: roles are looked up by name, custom roles can
  have any name, memberships can name roles that are not there (yet), keys carry
  scopes. The property says that once nobody may change an organisation nobody
  ever may. `Authority(o)` counts the members, the requests that have read a
  role and not resolved it, the requests behind the gate, and the keys.
* `CalmLeaveKeepsOwner`, `CalmDeleteStrandsNobody`: the two rules that are read
  first and relied on later. They hold for a request that nobody raced, which is
  what its author tested. Without that condition they fail (section 10).

## 6. Accounts: `Directory`, `Accounts`, `MCAccounts`, `AccountsProofs`

`Directory` is what the account routes promise, without their requests: an
account is opened once and closed for good, a value (an address or a phone
number) belongs to one account or to nobody and passes on only by being
released, a session stays with the account it was opened for, and what a closed
account held goes with it. Nothing in the code enforces this in one place: the
handlers look a value up in one statement and insert it in another, and rest on
the UNIQUE columns, the foreign keys and the ids of nanoid.

`Accounts` is the code of sign-up, magic links, the OAuth callback, identities,
SCIM, addresses and numbers, account deletion and restoration, restrictions on
sign-up, and the domains that enrol new accounts. One statement is one action;
`pc[r]`, `loc[r]` are a handler's position and variables.

| Code | Actions |
| --- | --- |
| `createSignup`; expiry of its entry | `CreateSignup`; `ExpireSignup` |
| `attemptSignup` | `AttemptSignup` (get, compare and delete in one turn), `CheckSignup`, `InsertUser`, `InsertAddress`, `FindDomain`, `Enroll`, `OpenSession` |
| `MagicLinkService.createToken`; `verifyToken` | `CreateLink`, `FindLinkUser`, `InsertLink`; `VerifyLink`, then `ExpireLink`, or `AcceptLink` and `OpenSession`; `LinkGoesLate` is time |
| `OAuthService.handleCallback`, `linkOAuthAccount`, `unlinkOAuthAccount` | `Callback`, `InsertUser`, `InsertAddress`, `LinkAccount`; `LinkIdentity`, `LinkAccount`; `UnlinkAccount` |
| `SCIMService.createUser`, `deleteUser` | `ScimCreate`, `InsertUser`, `InsertAddress`; `ScimDelete` (foreign keys cascade) |
| `EmailService`, `phone.controller.ts` | `AddEmail`/`AddPhoneNumber`, `InsertContact`; `DeleteEmail`/`DeletePhoneNumber`, `DeleteRow`; `SetPrimary`, `WritePrimary` |
| `deleteUser`, `restoreUser`, status by an administrator | `SoftDelete`; `RestoreUser`, `WriteRestored`; `SetStatus` |
| `RestrictionService`, `DomainService` | `AddRestriction`, `DeleteRestriction`; `AddDomain`, `VerifyDomain`, `DeleteDomain` |
| the death of the process | `Crash`: the store and the handlers are gone, the tables stay |

What is abstracted. An address is a model value with its spelling; `Lower` and
`DomainOf` are functions of the addresses. An id is drawn once (`drawn`), and
which one does not matter. A wrong sign-up code leaves everything as it was and
is no action. A request of a signed-in user is the account it is about; who may
send it is section 7's question. `asked`, `origin`, `claims` and `standing` only
observe.

What is checked, and why it could fail:

* `SignupOnce`: two requests bring one code. What keeps them from two accounts
  is that the entry leaves the store before the first `await`.
* `SessionsFollowProof`: between a proof (a code, a link) and the session lie up
  to six statements; two verified sign-ups of one address both make an account,
  and the second must stop at the UNIQUE column, not go on to a session.
* `BlockedStaysOut`: the address is stored as typed and compared in lower case,
  and restrictions change between the code and the account.
* `SettledLinksStaySettled`: `verifyToken` reads the status and writes it later
  without a condition; two requests that both found a link pending both get a
  session, but nobody who comes after the first write may.
* `PrimaryIsOwn`: the address made primary was read a statement earlier; it may
  be deleted and be claimed by another account meanwhile. What saves the rule is
  that an id does not come back.
* `ImplementsDirectory`: `Directory!Spec` under the mapping that keeps the rows
  and forgets the handlers.

Proved, and in no run: `SignupOpensOneSession` of `AccountsProofs`. The code of a
sign-up leads to one session however many requests bring it, although a magic
link for the new account may open others before the sign-up's own is there.

## 7. Access: `Access`, `MCAccess`, `AccessProofs`

Who may do what, in production: the bearers that a request may present (a secret
key, a machine client's access token, a session), `authMiddleware` and the gates
behind it, and the operations on projects, API keys and machine clients.
Bearers name their tenant, and each tenant has its own database, so a row is
found only by a request of its tenant.

| Code | Definitions |
| --- | --- |
| `authMiddleware`, `tenantMiddleware` | `authMiddleware`, `TenantOf`, `Arrive` |
| `requireProjectAccess`, `assertProjectOwnerOrM2M`, `requireM2M`, `requireScopeOrTenantAdmin`, `requireSelfOrM2M`, `isSessionTenantAdmin` | operators of the same names or `PassTenantGate`; `PassGate` is the step of a session, whose gate reads the project, and `isSessionTenantAdmin` the second read of that function |
| `ProjectService` | `createApiKey`; `FindKey` then `rotateApiKey` or `revokeApiKey`; `FindProject` then `deleteProject` |
| `createM2MToken`, `revokeM2MToken` of `m2m.controller.ts` | `createM2MToken`; `FindClient`, the gate, `revokeM2MToken` |
| `clientCredentialsGrant` | `Exchange`, `generateJwt`; `Expire` is time |
| a handler that fails, or dies with the process | `End` |

A request that asks for an administrator's route is followed to the point where
it is served (`served`); what the route does is another module's matter. Of the
scopes one of each sort is kept: a tenant-wide one, an administrative one, the
two that gate project routes, and one that gates nothing here.

What is checked, and why it could fail:

* `AuthorityHasSource`: scopes pass from keys to clients to tokens to further
  clients, in requests that overlap and outlive revocations. Nowhere on the way
  may more be granted than was held; a session is given none of it.
* `RetiredKeysStayOut`: a rotation that found its key before a revocation writes
  after it. It writes the hash alone; had it written the row back, the key would
  be active again.
* `WritesStayInProject`: the gate, the look-up of the row and the write are
  three statements; the id in the path is the caller's.

## 8. A browser on the Next.js SDK: `NextSession`, `MCNextSession`, `NextSessionProofs`

The cookies `__blerp_session`, `__session` and `__blerp_org`, shared by all tabs;
in each tab `BlerpProvider`, which fetches `/v1/public-config`, opens the gate
that holds requests back, commits, hydrates (`/v1/userinfo`, then
`/memberships/me`), and stops loading; the forms and hooks that sign in and up;
and on the server `blerpMiddleware` and `auth()`. The API is modelled as far as
the browser sees it: memberships, tokens and whether they still verify.

| Code | Actions |
| --- | --- |
| a document is loaded; `blerpMiddleware` | `Navigate` (`Open` is the new document) |
| `BlerpProvider`: the configuration, the gate, the commit | `AnswerConfig`, `FailConfig`, `Commit` |
| `hydrate()` | `AnswerUserInfo`, `AnswerMembership`, `FailHydration`; the cookie is read when it starts (`Hydrate`) |
| `setActive`, the switcher; `signOut`, the user button | `SetActive`, `SwitchOrganization`; `SignOut`, `PressSignOut` |
| a call of the API client and its middlewares | `Call`, `Stamp`, `Answer` |
| `<SignIn>`, `<SignUp>`, `useSignIn`, `useSignUp` | `ChooseForm`, `AskMore`, `PressBack`, `Mint`, `StoreSession` (the components), `StoreInPlace` (the hooks) |
| `auth()`, `currentUser()` | `StartAuth`, `TryMembership`, `EndAuth` |
| administrators; time | `ChangeRole`; `ExpireToken` |

What is checked, and why it could fail:

* `RolesWereHeld`: the session, the organisation and the role that a page
  combines come from a cookie, a state and an answer, each of another moment; and
  `auth()` tries the cookie's organisation, then the token's. A role shown must
  have been that user's in that organisation. A page whose organisation was
  changed in place is left out (`moved`): `setActive` does not touch the role
  (section 10).
* `OrgCookieIsOfThisSession`: the organisation has a cookie of its own, which
  the middleware leaves when it deletes a session, and which the next session
  must not inherit.
* `RequestsUseFetchedConfig`: the gate opens before React has rendered with the
  configuration, so that a request stamped in between must take it elsewhere.
* `PagesLoad`: every provider stops loading, whatever fails, is superseded or is
  reloaded. It is checked under `FairSpec`, weak fairness of `Provide(t)`: a
  fetch is answered or fails, and React commits. Nothing is assumed of the user,
  the server's administrators, or time.

## 9. Query caches: `ClientHooks`, `ClientScreens`, `Dashboard`, `MCDashboard`, `DashboardProofs`

`ClientHooks` says of each mutation of the two browser packages which query keys
its data is under (`touches`) and which its `onSuccess` invalidates;
`ClientScreens` says of each screen which keys it mounts and which mutations it
offers. Both are tables, one definition per hook and component: a hook is a record
of its mutations, a screen a record of its keys and offers. `Dashboard` runs
them: a tab, its cache entry for one key (entries do not affect each other, so
the key is chosen at the start and every key is explored), fetches and mutations
in flight, screens, loads, and the dashboard's own session in localStorage with
its sign-in form and its two ways out. The cache itself is @tanstack/react-query,
marked external: `Mount`, `Invalidate` and `Fill` are what the hooks rely on.

| Code | Actions |
| --- | --- |
| `main.tsx`, `lib/api.ts` | `Open`; `Visit` is a link of the router, `Focus` a window that gains focus |
| a query hook | `ServerReads`, `FetchArrives`, `FetchFails` |
| a mutation hook | `Mutate`, `ServerWrites`, `MutationSucceeds`, `MutationFails` |
| `SignIn.tsx` | `handleEmailSubmit`, `handleMagicLinkRequest`, `handleCredentialSubmit`, `handleMagicLinkVerify`, `StepOn`, `Refuse`, `handleBack`, `setSession` |
| `useSignOut`, `useDeleteAccount` | `pressSignOut`, `useSignOut`; `pressDelete`, `useDeleteAccount` |

What is checked, and why it could fail:

* `CacheIsOfOneSession`: no query key names the user, Back and a change of
  screen do not call off a password that was sent, and its answer replaces the
  session of a tab that shows something else by then.
* `OwnWritesShow`: a screen does not settle on what was there before a mutation
  that succeeded, although a fetch may have been answered before it, may fail,
  or may belong to a screen that was left. It covers every pair of mutation and
  key of the two tables but those in `Overlooked`, which the hooks forget
  (section 10).

## 10. Where the code and its word differ

`totp_unverified` is a run in which TLC finds the property violated:
`TotpService.verify` does not await `totp.verify`; the promise is truthy, so an
enrolment and a verification with a wrong code enable TOTP.

The following was met while modelling. The models have the behaviour, and where
a property would forbid it the property's definition excludes it by name:

* `TotpService.verify` writes `totpEnabled` in a later statement than its check;
  a disable in between leaves TOTP enabled with no secret, so that only the
  backup codes work.
* An endpoint deleted while it is being tried makes the insert of the outcome
  fail, the exception ends the batch, and its other messages stay pending for
  ever, because only `>` is read. A failed delivery is recorded as attempt 1 and
  never tried again.
* Two owners of an organisation who leave at once both count two owners.
* `DeletedCannotAuthenticate` (in `Accounts`): a magic link of a soft-deleted
  user is accepted, though `openapi/blerp.v1.yaml` says such a user cannot
  authenticate.
* A project that ever had an API key cannot be deleted: keys are revoked, never
  removed, and their reference to it has no cascade.
* `setActive` keeps the role of the organisation before until a reload.
* The dashboard's sign-out leaves the session in localStorage: `useSignOut`
  deletes server sessions, of which there are none, and two cookies that the
  dashboard does not use.
* `useDeleteProject`, `useUpdateUser` and `useBulkUpdateUsers` do not invalidate
  a key that a screen which offers them shows (`Overlooked`).

## 11. Runs and their bounds

Constants are as small as the question allows; model values keep them symmetric
where no property tells them apart. `MAX_SIGNIN_ATTEMPTS` is 2 instead of 5
because it is only compared with a counter (two is the least bound at which a
count below it and a reset exist), `COUNT` is 2 instead of 10 (the least size at
which a batch has a rest to lose).

| Run | Instance | Why it is enough |
| --- | --- | --- |
| `signin_password` | 2 users, 4 requests, 2 sign-in ids, no TOTP | one request creates an id and three race on it, or two ids of one or two users are tried in parallel; a lock takes two failures |
| `signin_mfa` | 1 user with TOTP and 2 codes, 4 requests, 2 ids, 1 secret, 1 batch | create, first factor, and two second factors with one code race |
| `signin_enrollment` | 1 user with TOTP and 1 code, 3 requests, 2 ids, 2 secrets, 2 batches | re-enrolment between the two factors; fairness, so no symmetry |
| `totp_unverified` | 1 user without TOTP, 4 requests | enrol and verify need two |
| `webhook_faults` | 2 events, 3 messages in the stream (one event twice when a reply is lost), 2 workers, batches of 2, 1 endpoint; database, crash, resend | a duplicate in the stream, a batch with a rest, a second worker that goes on after a death |
| `webhook_fanout` | 2 events, 1 worker, 2 endpoints in two buckets, 2 subscriptions; database | an event with one, both or none of the endpoints, and changes during delivery; fairness |
| `audit_faults` | 2 events, 4 in the stream, 3 workers; redis, database, crash | two deaths with full batches; `OrphansAreBounded` is about runs without `resend` |
| `org_rules` | 3 users, 1 key, 3 organisations, 2 projects, 2 requests, 1 custom name | see below |
| `accounts` | 2 requests, 2 accounts, 2 spellings of a mailbox, 1 number, 2 rows of addresses, 1 sign-up id, 1 link, 1 session, 1 domain, 1 restriction; at most `MaxThings` (5) ids and marks together | see below |
| `access` | 2 tenants, 3 projects, 1 key rotated at most once, 1 client, 2 overlapping requests out of `MaxArrivals` (4) | key, client, exchange and use is the longest chain of grants, and each link of it is one request |
| `nextsession` | 1 tab, 2 users with one and two memberships, 1 role, `MaxTokens` 2, `MaxLoads` 2, `MaxChanges` 1, `MaxBusy` 1 | a session replaces another, in a document that was loaded under the first; a change of role or an expiry at any moment |
| `dashboard` | 1 tab, 2 users, `MaxWrites` 2, `MaxWork` 3, `MaxLoads` 2, `MaxVisits` 1, every key and screen | an own write and a foreign one, a load between them, a screen left with its fetch in flight |

Bounds in guards: `StreamBound` limits how long the stream gets, `MaxRotations`
and `MaxArrivals`, `MaxTokens`, `MaxLoads`, `MaxChanges` and `MaxBusy`,
`MaxWrites`, `MaxWork`, `MaxLoads` and `MaxVisits` count what the environment
does. `Bound` of `MCAccounts` is a state constraint: it counts ids drawn and rows
that administrators or providers left behind, so that a run has any five of them
at a time and not all of them. Everything else is finite because a request runs
once or ids run out. `CHECK_DEADLOCK FALSE` is set where the instance really
stops: when every request of `Organization` is over, when all messages have been
read and every endpoint was deleted, and when the environment of `Access`,
`NextSession`, `Dashboard` or `Accounts` has used its bounds.

In `org_rules` two requests race, and the initial state is what longer histories
would have built: an owner, a member with a custom role whose row exists, a
member of another organisation with a role of that name that does not exist
there, and an organisation nobody has created. Every rule of section 5 is about
one handler and one write between two of its statements, so two requests show
each of them; what a third could add is covered by the proofs, which have no
bound. `AuthorityComesFromAuthority` is about one step. The same holds of
`accounts`: a rule of section 6 relates one handler's reads to one write of
another, and a spelling, a blocked mailbox, a second account and a release each
need one of the five things.

Liveness, `RequestsAnswered`, `EveryMessageIsRead` and `PagesLoad`, is checked
under `FairSpec`: weak fairness of every handler's next statement, as Node
resumes every continuation, of the workers' loops, and of a provider's fetches.
Nothing says that clients send requests, that codes are right, that entries
expire or that processes die.

## 12. Proofs

The theorems hold for every value of the constants that satisfies the ASSUMEs of
the modules: sets of any size, unless an assumption says finite (the requests of
`SignIn` and the initial memberships of `Organization`, because they are
counted), any `MaxAttempts` and `BatchSize` above zero, any set of faults. Where
a table holds a row or `None`, an assumption says that `None` is no row.
`PROJECT.json` lists them; each lemma says in a comment what it is for.

* `SignInProofs`. `TypeCorrect` is inductive. `LockMeansExhausted` is inductive
  over it, because one statement changes lock and counter. `SigninInv`: a
  sign-in id is in one place at a time, the store, one handler or a session, and
  carries its owner there; `OneSessionPerSignin` and `SigninOwner` follow.
  `FactorInv` ties a handler that goes on to what it has verified.
  `NoLostFailure` counts the handlers that are about to charge a failure, and is
  proved by following that set through each statement. `CodeInv`: a backup code
  was drawn once, so a code that has been consumed is in nobody's row nor on its
  way there; that is why regenerating codes does not revive one. The refinement
  `SignInImplementsAccountLock` maps each statement to a step of `AccountLock`
  or a stutter, with `SessionIdInv` for the freshness of sessions.
* `EventStreamProofs` has what the loops of both workers keep whatever they do
  with a message: `StreamInv` is `StreamTypeOK /\ BatchesAreExclusive`, and
  `LoopInv` says that a batch is a piece of the stream, so that it has a message
  the loop is at until it is empty. `EmitInv` needs, beside `EventsAreFaithful`,
  that without a command sent again what is in the stream is not added any more,
  and that Redis is not taken to be down where it does not fail.
* `WorkerProofs`. For webhooks, `Inv` adds to `StreamInv` where a worker's
  variables may be non-empty (`LocalsInv`), that what was sent or recorded for a
  message that is still in a batch was sent by the worker that holds it
  (`PostsInv`, `DeliveriesInv`), and where each addressed pair is: to be tried,
  being recorded, recorded, or lost with a batch and still pending
  (`AddressedInv`). The refinement is proved step by step over `Inv`, and
  `ClosedForGood` follows from it. `ProjectInv` carries a match from the selection
  to the request: what is left to try was selected, what was selected was of the
  endpoint's project, and no message of the stream changes. For the audit rows,
  `AuditInv` says which messages can have one, and with
  `EmitInv` and `AuditedBeforeAcked` that gives `OneAuditRowPerChange`. `OrphansAreBounded` is a count, so
  its invariant is about sizes: a batch has at most `BatchSize` messages, only
  finitely many processes have died, and each death adds one batch at most to the
  open messages that nobody has. It needs no bound on the number of processes.
* `OrganizationProofs`. `TypeInv` says what a handler's variables look like at
  each statement. `IdInv` adds that ids are not reused (`IdsInv`) and that the
  row a handler is about to write is one of its organisation, or gone
  (`TargetInv`); `WritesStayInOrganization` follows. `AuthorityStep` is one step
  from a state in which `Authority(o)` is false: no row can be written in `o`,
  so none of its members gains a role that means something. `CalmInv` says that
  a calm handler's reads are still true; the two `Calm` properties follow, the
  first by naming a second owner (`AnotherOwner`).
* `AccountsProofs`. `Inv` has four parts. `RowsInv`: a row has an account, an
  address has one row and was claimed by its owner, a session has its proof.
  `RequestsInv`: what a handler may rely on at each position (`RequestOK`), all of
  it of a kind that `Kept` says no step undoes: ids are drawn for good, an account
  id is not used twice, the address of a sign-up and the owner of a link do not
  change, a row of an address goes or stays as it is. `RequestStays` is that
  argument, once for all positions. `SignupInv`: a sign-up id is in the store, with
  one request, or with one account. `TypeOK` closes it. `Good` is what one step
  must do, the invariant in the next state and the step of `Directory` included,
  and each action has a lemma that says so. The assumptions: ids of two tables
  differ, an e-mail address is no phone number, lower-casing twice is once, and
  `None` is no row. `SignupOpensOneSession` needs `FinishInv` besides: the account
  of a sign-up is one request's (`Finishing`) until its session is there, and no
  session names that sign-up before. All steps but two are `Calm`: they make no
  account, open no session and let no other request finish a sign-up.
* `AccessProofs`. `Inv` adds to `TypeOK` what is known of a request at each of
  its steps (`RequestOK`: its bearer's authority comes from a secret key, what it
  found is what its path named, and what the gates it has passed established),
  the same of the rows (`RowsInv`), and that a retired value is an old one of its
  key or the key is revoked (`RetiredInv`). The predicates take the tables as
  parameters, so that `RequestStays` says once that no step of another request
  disturbs them: projects only go, rows keep their project, `keyed` only grows.
  The two action properties are one step from `Inv`. The assumptions are those of
  `Access`: who owns what and where accounts are, and that what is asked for is a
  set of scopes.
* `NextSessionProofs`. `RolesWereHeld` is inductive with `HydrationInv`: a
  hydration asks for the organisation and the user that its document shows,
  unless the document has moved. `RequestsUseFetchedConfig` needs `WaitInv`:
  before the gate opens nothing is asked for, and while a configuration waits for
  its commit the reference has it already. `OrgCookieIsOfThisSession` is
  inductive over types.

* `DashboardProofs`. `TabOK` has four parts. `CacheOK`: what an entry holds and
  what a fetch under way was sent with is of the session the tab has, unless the
  tab is about to load a new document. `FreshOK`: neither data that is not marked
  stale nor an answer on its way is older than the tab's last own write.
  `MutationOK`: a mutation that touches the key invalidates it, short of
  `Overlooked`; it rests on `HooksAreSound`, which goes through the tables of
  `ClientHooks` hook by hook. `FormOK`: a form past its first step knows whom it
  signs in. `OneTab` says once that a step which leaves the tab it moves in order
  leaves all of them in order. The assumption is that `None` is no screen, no
  user and no number.

Only model-checked: the three liveness properties (their reasoning is about
fairness and ENABLED, which is out of the prover's reach) and the refuted
property, which is false. Induction over data is not needed: no definition is
recursive.

## 13. What is not modelled

`PROJECT.json` has every component and its status. Left out, and why:

* WebAuthn: the ceremony is a library's; what is left, one challenge per user in
  a store, is listed under the hazards.
* Keys and JWT: cryptography. Tokens are taken to verify until they expire; the
  first use of the key pair by two requests is listed under the hazards.
* Metadata: a merge of JSON objects between a read and a write, so that one of
  two merges can be lost; there is no rule to state beyond that.
* Rate limit and quota: one counter, and a check that nobody calls.
* Invitations: a row that is inserted, listed and marked revoked, and that
  nothing accepts.
* Tenant databases: opening files. That rows of two tenants never meet is built
  into `Access`.
* Redirects, uploads, user info, the application shell: single reads and writes,
  wiring, logging and error formats.
* Of the dashboard: the sign-up form, which starts a sign-up and stores no
  session, the writing hooks of `useRoles`, which no screen calls, and what is
  drawn. Of `packages/nextjs`: control components, redirect checks, task pages.
* The other packages, docs, examples, the OpenAPI file and the deployment files:
  generated or static.
