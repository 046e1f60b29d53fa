# Kerbernetes in TLA+

Kerbernetes answers `GET /api/auth/kerberos` with a Kubernetes token for the
ServiceAccount of a Kerberos principal, after bringing that account's
ClusterRoleBindings and RoleBindings to what the user's LDAP groups ask for.
This directory specifies that program: TLA+ modules translated from the Go
source and from the client's shell script, TLC configurations that check them on
small instances, and theorems that TLAPS proves for every instance.

The repository has no tests, so the source is the only reference besides its
comments and READMEs.

## 1. The system

| Component | Source | State | Operations | Module |
|---|---|---|---|---|
| Bootstrap | `cmd/api/main.go`, `services_init.go` | none; starts the informer in a goroutine and serves at once | start, end of process | `Kerbernetes` |
| Auth controller | `controllers/auth` | none | `getKerberosAuth` | `AuthService` (`Arrive`, `Finish`) |
| SPNEGO middleware, principal | `middlewares`, `security` | keytab, read once | accept or refuse a token (gokrb5) | only that a principal arrives |
| AuthService | `services/auth` | locals of each login: groups, wanted bindings, two maps of existing bindings | `AuthAccount`, `ldapReconcilate`, reconciliation | `AuthService`; its promise: `AccessPolicy` |
| ServiceAccountsService | `services/k8s/serviceaccounts` | none of its own; ServiceAccounts and bindings in the API server | get/create account, token, list/create/update/delete bindings | `ServiceAccounts` |
| LDAP service | `services/ldap` | none; a connection for each query | `GetUser`, `GetUserGroups` | `AuthService` (same names) |
| LdapGroupBindingService | `services/k8s/ldapgroupbindings` | `cache`, under an RWMutex | `add`, `update`, `delete`, `GetBindings` | `BindingCache` |
| LdapGroupBinding types | `k8s/api` | objects in the API server | written by administrators | `AuthService`, `BindingCache` |
| Credential plugin | `client/kerbernetes` | a credentials file per cluster | print or renew | `ClientCredentials` |
| Env, K8s service | `services/env`, `services/k8s` | settings and a client, fixed at start | read | not modelled |
| OpenAPI, generated code, chart, build | | | | not modelled |

How they interact:

* A request runs in a goroutine of its own: SPNEGO, then `AuthAccount`, which
  calls in turn the ServiceAccountsService (API server), the LDAP service (LDAP),
  `GetBindings` (shared memory) and the ServiceAccountsService again, many times.
  There is no lock around any of this: logins meet only in the API server.
* client-go's informer calls the three event handlers from one goroutine, one
  notification at a time; the handlers write `svc.cache` under the write lock.
  `GetBindings` returns the slice itself, which a login then walks without a lock.
* `main` starts that informer in a goroutine and serves requests without waiting
  for it. Each replica of the program has an informer and a cache of its own.
* Administrators change LdapGroupBindings, LDAP, and may touch the bindings.
* On the user's side `kubectl` runs the plugin for every command; invocations share
  the credentials file and nothing else.

What is hard about it, and what must hold:

* *Overlapping logins.* A login lists bindings, then creates, updates and deletes
  on the strength of the listing. Another login of the same account may have made
  the listing stale. Still: no login removes what it wants itself; logins that
  want the same thing leave exactly that; no login touches another account; what a
  login has settled is undone by nobody but a rival that wants something else.
* *Interruption.* Any call may fail, and any answer may be lost after the call
  took effect; the process may end at any step. Still: the next login repairs what
  is left and is not refused for it.
* *A moving world.* Group membership and LdapGroupBindings change between two calls
  of one login, and not in all replicas at once. Still: no role is granted without a
  group that was seen to justify it, and when the world rests, the bindings converge.
* *The cache.* A slice shared by handlers and readers, notifications that lag behind
  the objects, lost watches, restarts. Still: the cache follows the informer's store,
  a reader misses no binding, and a token goes with bindings that were asked for.
* *The file.* Plugins that read it while others truncate and write it, a kill between
  the two, credentials that expire between a look at the clock and the output, and
  again and again. Still: some invocation goes on giving out credentials, and none is
  kept from them for ever but by others that renew theirs.

`PROJECT.json` lists every hazard at its line, with the properties aimed at it or
the reason there is none.

## 2. Modules

| Module | What it is |
|---|---|
| `ServiceAccounts` | The objects in the API server (`accounts`, `bindings`) and what each call of the ServiceAccountsService reads, requires and changes |
| `AuthService` | The logins in one or several replicas, LDAP, the caches' contents as they change, failures and administrators; the properties |
| `AccessPolicy` | The abstract specification: what the service promises of bindings, without listings, items or calls; a theorem about it |
| `AuthServicePolicy` | The refinement mapping from `AuthService` to `AccessPolicy` |
| `MCAuthService`, `MCAuthServicePolicy` | Small directories, LdapGroupBindings and administrators' writes for TLC |
| `AuthServiceProofs` | Typing, the inductive invariant, two theorems about what logins remove and grant |
| `AuthServiceExactness` | The theorems that an account's bindings are its own logins' doing and are exact |
| `AuthServicePolicyProofs` | The theorem that `AuthService` implements `AccessPolicy` |
| `AuthServiceSerialProofs` | The theorem that logins that come in turn fail for no reason of their own |
| `BindingCache` | The LdapGroupBindings in the API server, informer, handlers, cache, and the walks of logins over its slice |
| `MCBindingCache` | Symmetry for TLC |
| `BindingCacheProofs` | The three invariants of `BindingCache`, for every instance |
| `Kerbernetes` | The program as one process: `AuthService` and `BindingCache` composed, with starts and ends of the process |
| `MCKerbernetes` | Small contents of LdapGroupBindings for TLC |
| `KerbernetesProofs` | The theorems about the program: what a token goes with, and that the program has its two components as parts |
| `ClientCredentials` | The credential plugin: invocations, the file, the clock, the server's answers, kills |
| `MCClientCredentials` | The instance TLC checks |
| `ClientCredentialsProofs` | The three invariants of the plugin, for every instance |

`AuthService` EXTENDS `ServiceAccounts`; `Kerbernetes` takes both `AuthService` and
`BindingCache` with INSTANCE. `ClientCredentials` stands alone: what it has of the
program is an answer.

Definitions whose comment begins with "Faulty" say what a slip in the code would
have made of the definition after them. No specification uses them; they serve
to show that each property notices such a slip.

### AuthService and the code

`pc[r]` names the call a login makes next. One action is one call with everything
the code does up to the next call, its early returns included:

| Action | Code |
|---|---|
| `Arrive`, `Finish` | `getKerberosAuth`, and the returns of `AuthAccount`; `ok`, `unauthorized` (401) and `failed` (500) |
| `GetAccount`, `CreateAccount` | `UpsertServiceAccount`, `createServiceAccount` |
| `GetUser`, `GetUserGroups` | the LDAP queries, each on a connection of its own |
| `GetBindings` (`Learn`) | `groupsMap`, `GetBindings` of the login's replica, the filter to `userBindings`; `desired` holds the items the nested loops will visit |
| `ListClusterRoleBindings`, `ListRoleBindings` | `getExisting*`: label, subject filter, and the maps keyed by name alone (`LastByName`) |
| `CreateMissing`, `KeepExisting`, `GetForUpdate`, `UpdateBinding` | `ensureClusterRoleBinding`, `ensureRoleBinding`, `Update*` (a get and a put, hence two actions) |
| `RemoveUnused` | `removeUnused*`, ClusterRoleBindings first, each map in any order |
| `IssueToken` | `IssueToken`, which needs the account to exist |
| `ApiFails`, `LdapFails`, `AnswerLost` | a call that fails without or after its effect |
| `DirectoryChanges`, `CacheChanges`, `AdminWritesBinding`, `AdminDeletesAccount` | the world |

Items of an LdapGroupBinding are visited in their order, LdapGroupBindings in the
order of the cache, which may be any (`NextTasks`). `GenBindingName` keeps what the
formatted name tells apart: account, LdapGroupBinding and role, and not the
namespace. `Supported` is the code's switch: other kinds and Roles without a
namespace are skipped.

A replica is what a cache belongs to: `cache[p]` changes in one replica at a time,
and `ServedBy` says in which one a login runs. Replicas share nothing else but the
API server.

What is abstracted, and the choices made:

* Tokens, log lines, the text of LDAP filters and of names are left out.
* A put is refused when the object is gone, when it differs from what was read, or
  when the role reference would change. The API server compares versions, the model
  contents: an object deleted and created again with the same content in between is
  taken for the one that was read. The refusal the API server would give there is a
  behaviour of `ApiFails`.
* A stored role reference is its name: kind and API group of a stored reference are
  fixed by the key's scope and by the API server's default. The API group of an
  *item* matters (an empty one makes `ensureRoleBinding` update a RoleBinding at
  every login) and is modelled.
* Subjects of a binding other than ServiceAccounts of the configured namespace are
  left out.
* A call that was abandoned takes effect when it is abandoned or not at all; an
  effect that arrives while a later login is under way is not modelled.
* `undisturbed[r]` and `drifts` are history: the first says that no overlapping login
  of the same account wants other bindings, the second counts interventions of
  administrators. They occur in properties and in bounds, in no guard of a login.

### AccessPolicy and the mapping

`AccessPolicy` has logins that decide what their account should have (`Decide`),
give or take one grant at a time (`Enforce`), note grants they have seen as they
want them (`Observe`), may give up at any moment, and issue a token only when they
have seen every grant of the account right, each at some moment since they decided.
More cannot be promised: nothing keeps two logins of an account apart.

`AuthServicePolicy` maps `AuthService` to it without auxiliary variables. `Held` is
the managed bindings that name their account among the subjects; `Wanteds` the keys
of `desired`; `Settled(r)` is read off a login's maps and items. A wanted binding is
settled when it is in a map (listed, and not yet visited) or its item is done; an
unwanted one when its list was read and it is not, or no longer, in a map. So the
listing, `CreateMissing` and `RemoveUnused` each settle something, and `IssueToken`
is `Issue` because both maps and `todo` are empty by then. An answer lost after a
create or delete is `Give` or `Take` together with `End`.

### BindingCache and the code

`objects` are the LdapGroupBindings by version, `stream` the watch, `indexer` the
informer's store, `queue` the notifications for the handlers, `cache` is
`svc.cache`. `HandleAdd`, `HandleUpdate` and `HandleDelete` are the handlers with
`add`, `update` and `delete`. A relist notifies every listed object again (`added`
or `updated`) and every vanished one with a tombstone, in any order within each
group; `HandleTombstone` is the panic of `DeleteFunc`'s type assertion, in a
goroutine nothing recovers, and so the end of the process.

Slices are modelled as Go keeps them. A walk (`reader[r]`) holds the elements it
will find. `update` writes an element of the array the walk shares, and because the
two race, each walk under way may find the old or the new pointer there. `append`
writes beyond the walk's length, or moves to a new array when the old one is full;
`delete` always builds a new one; from then on the walk is on its own (`shares`).

A watch resumed where it stopped is only a delay; `WatchLost` is the case where
events are lost and the informer lists anew.

### Kerbernetes: the composition

In `AuthService` the cache changes between members of `BindingSets` at any time and a
login reads it in one step; in `BindingCache` a login is only a walk. `Kerbernetes`
joins the two: the caches of the one are the versions of objects in the other
(`Object` turns a pointer into an LdapGroupBinding through `Content`), `GetBindings`
becomes `TakeSlice`, a step for each element (`WalkOn`) and `EndWalk`, which hands to
`AuthService`'s `Learn` what the walk found. Handlers write in between.

The process begins with an empty cache and serves at once. `Restart` and
`HandleTombstone` end it with the logins under way (`LoginsEnd`) wherever they are,
their bindings half done. One process and one directory that does not change:
failing calls, administrators and replicas are `AuthService`'s own runs.
`offered` and `kept` are history for `TokensReflectBindings`: the pointers that were in
the cache at some time, or all the time, between a login's arrival and its walk's end.

### ClientCredentials and the code

`pc[i]` is the command the script runs next; commands that look at the file, at the
clock or at the server are steps: `[ -f ]`, `jq`, `date` with the comparison, the two
`cat`, `curl`, the test of the status, and the redirect of `echo`, which is two steps,
the shell's truncation and the write. All run under `set -e`, which decides what a
failing command means: a `jq` that finds no file or no expiry in it leaves `EXPIRY`
empty, which ends the script as "invalid"; a failing first `cat` leads on to `curl`,
since it stands in a condition; a failing `curl`, in an assignment, ends the script
before the branch meant for it. The `sh` is taken to be one that knows `pipefail`,
without which the script ends at line 13.

The credentials are their expiry; of two writes into the file the later one stands,
since credentials have one length. Client and server read one clock, in UTC, and it
never stops: a time is written as what is left until then, `Tick` takes one from every
time there is, and expired credentials are told apart by how long ago they expired only
as far as `PrintsUnexpired` needs it. `waited` counts the ticks since an invocation last
looked at a time (the expiry in the file, the clock, the server's answer); after such
a look it waits for at most `MaxWait` ticks, elsewhere for any time. What it printed keeps the time left then. The
temporary file is an invocation's own and is left out; so is that it stays behind
when `curl` fails. `opened` is whether the file an invocation has open is still the
one the name stands for (a removal by the user parts the two). `meddled` is history:
another invocation opened or wrote the file meanwhile.

## 3. Runs

Those that pass:

| Run | Question | Instance | States |
|---|---|---|---|
| `auth_overlap` | What do overlapping logins do to bindings? `TypeOK`, `ExactBindings`, `OnlyOwnLogins`, `WantedBindingsStay`, `GrantsAreEntitled` | 2 users, 2 requests, 1 change, 1 failure | 344,859 |
| `auth_serial` | Is an interrupted login's remainder ever refused, does it grant too much, is it repaired? `SerialLoginsSucceed`, `GrantsAreEntitled`, `Converges` | 2 users, 1 request, 2 changes, 2 failures, 1 intervention; users LDAP does not know or knows twice | 168,111 |
| `auth_replicas` | Do logins in two replicas keep the promise, end, and converge? `ImplementsAccessPolicy`, `OnlyRivalsUnsettle`, `EveryLoginAnswered`, `Converges` | 1 user, 2 requests in 2 replicas, 1 change, 1 failure | 97,327 |
| `program_converges` | Do the objects end up in the cache and in the accounts? `CacheCatchesUp`, `AccountsFollowObjects` | 1 user, 1 request, 2 names, 1 change, 1 lost watch or restart | 61,940 |
| `program_tokens` | What does a token go with, if handlers write while the login walks? `TokensReflectBindings` | 1 user, 1 request, 3 names, 1 change, 1 lost watch or restart | 1,703,366 |
| `cache_walks` | Does the cache mirror the informer, and does a walk miss anything? `TypeOK`, `CacheMirrors`, `WalksMissNothing` | 4 names (symmetric), 1 reader, 2 changes, 1 lost watch or restart | 1,140,598 |
| `plugin` | What do overlapping, killed and expiring invocations print and leave? `TypeOK`, `EmptyIsBeingWritten`, `PrintsUnexpired`, `GoesOnOrWasCut`, `EachGoesOnOrIsOvertaken` | 2 invocations, a clock that never stops, lifetime 3, wait 1, 1 kill, 1 removal | 224,338 |

Those that show the program differing from what its source says of itself:

| Run | Claim | What happens |
|---|---|---|
| `auth_moved_role` | "2. Ensure desired bindings exist" (`auth.service.go:186`) | A Role item moves to another namespace. The old RoleBinding has the same name, is found and kept; nothing is created in the new namespace, and the login succeeds. By the same collision, of two RoleBindings of a Role spread over two namespaces a login sees one, and the other is not removed with the item. |
| `auth_twice` | "Automatic reconciliation of Kubernetes RoleBindings and ClusterRoleBindings." (`README.md:49`) | An LdapGroupBinding lists a Role twice. The second create is refused, at every login, and no login reaches the removals: a group the user has left keeps granting. |
| `auth_upsert_race` | "retrieves or creates a service account" (`serviceaccounts.service.go:22`) | Two first logins overlap; the second Create is refused, and that login answers 500. |
| `program_startup` | "3. Remove bindings no longer needed" (`auth.service.go:236`) | No LdapGroupBinding ever changes. The process restarts, a login comes before the first list is handled, finds an empty cache, removes bindings its user is entitled to, and is given its token. |
| `cache_tombstone` | the assertion in `DeleteFunc` (`ldapgroupbindings.service.go:84`) | An object is deleted while the watch is lost; the handler is given a tombstone. |

No state machine here ever stops for good, and deadlock is checked in every run.

### Why the bounds are enough to be interesting

The LdapGroupBindings of `MCAuthService` hold a ClusterRole, a Role with an empty
API group (created, then updated at every login), a Role of the same name in a
second LdapGroupBinding for another group (told apart by the binding's name only),
and a Role without a namespace (skipped). The reduced set drops one
LdapGroupBinding and one item, so that a change both removes a whole object and
shortens one; the directories move `u1` between groups and leave `u2` alone. One
failure can fall on any call, before or after its effect. Two requests with two
users cover both overlaps, of one account and of two; with two replicas a change
reaches one cache at a time, so that logins of one account want different bindings
at the same time. The interventions of `auth_serial` (`MendableWrites`) are those
logins can undo: a deleted binding, a second subject. Each run's bounds are the
constants of its `.cfg`: `MaxChanges`, `MaxFaults` and `MaxDrift` in `AuthService`;
`MaxChanges` and `MaxDrops` in `BindingCache`; `MaxObjectChanges` and `MaxDrops` in
`Kerbernetes`; `MaxWait`, `MaxKills` and `MaxRemovals` in `ClientCredentials`. Slots
for requests, readers and invocations are reused, so their number is not bounded.

Four names in `cache_walks` let a walk and the array it shares meet an append that
fits (three elements in four places) and one that does not. In `program_tokens` three
LdapGroupBindings of which one can be edited, to other items or to another group,
created or deleted make a walk meet a write at each of its positions. A lifetime of
three ticks lets credentials expire as often as the clock gets that far, and a wait of
one lets them expire between the look at the file and the comparison and between the
comparison and the output.

`GoesOnOrWasCut` rests on a lifetime of more than twice `MaxWait`. With a lifetime of twice
the wait and three invocations (or a lifetime equal to the wait and two) TLC finds that they
overtake each other for ever, each printing the empty file another has just truncated;
with this run's lifetime and wait it holds for three as well (1,649,061 states, too many to
keep as a run). The program's lifetime is minutes (`TOKEN_DURATION`),
the wait that of a few commands. The safety properties do not rest on it: the
theorems hold for every `MaxWait` and every lifetime.

### Fairness

`AuthService`: weak fairness of each login's steps, since a goroutine that can run
is run, and calls to LDAP and the API server answer or fail. The latter is assumed:
the code sets no deadline of its own. Strong fairness of each user's arrivals stands
for a user who comes back when a token expires; strong, because with all slots
taken an arrival is disabled for a while. A failure is never forced.

`BindingCache` and `Kerbernetes`: weak fairness of relisting, receiving and handling,
which are the informer's goroutines; in `Kerbernetes` of the logins as above, with
their walks. Watches need not be lost. That a list succeeds in the end is assumed:
the code waits for it without end.

`ClientCredentials`: weak fairness of each invocation's commands and of the user's
next `kubectl`; strong fairness of an answer with credentials: a server that is asked
again and again does not refuse for ever. Kills, removals and the clock are not forced.
No single invocation is promised credentials under this fairness: one that runs `jq` each time
between another's truncation and write fails each time, without a kill, for as long as the
credentials expire and others renew them. `GoesOnOrWasCut` therefore is about the invocations
together, and `EachGoesOnOrIsOvertaken` names the others that renew.

## 4. What is proved

Every safety property that a passing run checks is a theorem. The theorems hold for
every value of the constants that satisfies the named assumptions of the modules, which
only say that the constants are of the right type, that `None`, `Cluster` and `Absent`
are nothing else, and that the names of LdapGroupBindings are finitely many: any number of users, of concurrent logins, of
replicas, of changes, failures and interventions, of readers, and of invocations.

| Module | Theorem | Statement | Further assumption |
|---|---|---|---|
| `AuthServiceProofs` | `TypeCorrect` | `Spec => []TypeOK` | |
| | `Invariance` | `Spec => []IInv` | |
| | `WantedStay` | `Spec => WantedBindingsStay` | |
| | `OnlyEntitledGrants` | `Spec => GrantsAreEntitled` | |
| `AuthServiceExactness` | `OwnLoginsOnly` | `Spec => OnlyOwnLogins` | `MaxDrift = 0` |
| | `Exactness` | `Spec => []ExactBindings` | `MaxDrift = 0`, `OneNamespacePerRole` |
| `AuthServicePolicyProofs` | `Implementation` | `Spec => ImplementsAccessPolicy` | `MaxDrift = 0`, `OneNamespacePerRole` |
| | `ServiceRivalsOnly` | `Spec => OnlyRivalsUnsettle` | the same |
| `AuthServiceSerialProofs` | `SuccessInTurn` | `Spec /\ []OneLoginPerAccount => SerialLoginsSucceed` | `OneNamespacePerRole`, `ItemsOnce`, `GroupsValid` |
| | `SerialSuccess` | `Spec => SerialLoginsSucceed` | the same, one request at a time |
| `AccessPolicy` | `RivalsOnly` | `Spec => OnlyRivalsUnsettle` | `GrantsHaveOwners` |
| `BindingCacheProofs` | `TypeCorrect` | `Spec => []TypeOK` | |
| | `Mirrors` | `Spec => []CacheMirrors` | |
| | `NothingMissed` | `Spec => []WalksMissNothing` | |
| `KerbernetesProofs` | `Tokens` | `Spec => []TokensReflectBindings` | `OneNamespacePerRole` |
| | `ImplementsCache` | `Spec => Service!Spec` | |
| | `CacheInProgram` | `Spec => [](Service!CacheMirrors /\ Service!WalksMissNothing)` | |
| | `ImplementsLogins` | `Spec => AuthP!Init /\ [][AuthP!OpenNext]_(AuthP!vars)` | |
| `ClientCredentialsProofs` | `TypeCorrect` | `Spec => []TypeOK` | |
| | `EmptyNotForLong` | `Spec => []EmptyIsBeingWritten` | |
| | `UnexpiredPrinted` | `Spec => []PrintsUnexpired` | |

**The inductive invariant of the logins** (`IInv`). `TypeOK` alone is not inductive:
that a put writes to a key of the store needs an item of a supported kind, and that
comes from how `desired` was filled. `LoginInv(r)` adds, for each login, that its items
come from its groups and one state of the cache (`Sourced`), that an update is for an
item whose turn it is (`Updating`), and that an item that has had its turn is in
neither map any more (`DoneItemsKept`). The last is what makes `WantedStay` true: a
login deletes only what is left in the maps, and by then every wanted item has had
its turn. `Sourced` is what makes `OnlyEntitledGrants` true: whatever is created or
given a subject is for an item of some LdapGroupBinding of the login's groups.
Administrators aside, every write to `bindings` is a creation, a put or a removal of a
reconciling login (`WhoWrites`).

**Whose bindings** (`OwnInv`). While administrators leave the bindings alone, every
stored binding is the one `NewBinding` made for the account and role in its name, so
that filtering by subject is filtering by name, and a login lists, and so deletes,
only its own account's.

**Exactness** (`ExactInv`). For a login whose overlapping logins of the same account
agree with it (`Agreed`), two facts hold from its first listing to its token. What
the account has is still in the login's maps or is wanted (`NothingOverlooked`):
nothing unwanted can appear behind its back, since only agreeing logins add. And
what is wanted and was found or made is still there (`WantedThere`): agreeing logins
do not remove it, by the argument of `WantedStay`. When nothing is left to ensure
or to remove, the two together are equality. `OneNamespacePerRole` excludes the
collision of names the violation runs show: without it the theorem is false.

**The refinement** (`Implementation`). `IInv` and `OwnInv`, with `CourseInv`: groups are
some directory's answer until the cache is read, only ClusterRoleBindings are listed
first, and without LDAP there is nothing to enforce. Each login's part of the mapping
depends on its own variables alone (`SameView`), so a step of one login moves no
other's view (`ViewStep`). Its steps fall into three kinds: before the reconciliation
(`PreparePolicy`), within it (`EnforcePolicy`), and those that end it (`EndPolicy`).
The one in the middle carries the weight: what newly counts as settled is right in the
store at that very step (`EnforcingStep`), because it was listed, created or deleted
there, and nothing else in the maps is touched. With two namespaces for one role the
maps hide a binding and the step is not `Observe`: hence the assumption again.
`ServiceRivalsOnly` is the theorem `RivalsOnly`, about nothing but `AccessPolicy`,
carried over.

**Logins in turn** (`SerialInv`). While administrators leave the bindings alone, what a
login knows of its account is what the API server has: the account is there or not as
the login found it (`AccountThere`), the maps hold bindings as they are stored
(`MapsTrue`), an update under way read what is there (`ReadTrue`), and a binding that an
item yet to be ensured asks for is in the maps if it exists (`MapsFull`). Then no call is
refused (`NoRefusal`): nothing is created that exists, got or deleted that does not, or
put with another role. A login of another account disturbs none of it, since it writes
its own account's bindings only (`WritesOwn`, `OthersUpToDate`); one of the same account
would, hence `OneLoginPerAccount`. Where an earlier login was cut short does not matter:
the next one's invariant begins with its own listing. The three assumptions are on
the LdapGroupBindings. `ItemsOnce`: an LdapGroupBinding lists a role once for one place;
otherwise the second creation is refused (`auth_twice`). `GroupsValid`: a Role item's API
group is one the API server takes. `OneNamespacePerRole`: as before, names tell
RoleBindings apart. The instance of `auth_serial` satisfies them, and TLC evaluated
`SerialInv` on it before it was proved.

**The cache** (`IInv` of `BindingCacheProofs`). `CacheMirrors` speaks of the last
notification of a name; to be inductive it must hold of every one of them. `Takes` says
that the notifications about a name form a chain from one version to another, in
which each finds what its type says: an `added` nothing, the others something.
The stream leads the store to the objects and the queue leads the cache to the store.
Chains join at the end (`TakesConcat`) and lose their head (`TakesTail`); a relist
adds at most one link for each name (`Notified`). That is why `add` never makes a
duplicate, although it does not look. `NothingMissed` needs `WalkInv` besides: a slice
that is still part of the array is nowhere ahead of the cache, so a write in place
brings a later version, of the same name.

**The components as parts.** The proofs about logins are about more than `Next`:
`OpenNext` also lets caches turn without a step of `AuthService` (`CacheTurns`), lets a
login learn any set of LdapGroupBindings and not just the one cached (`LearnFrom`), and
lets a process end with its logins (`LoginsLost`). `IInv`, `OwnInv` and `ExactInv` are
inductive for `OpenNext`, so they hold of every program `AuthService` is a part of. Likewise
the lemmas of `BindingCacheProofs` are about any step that is one of `BindingCache`.

**The program** (`ProgramInv`). `Kerbernetes` satisfies both: its steps are steps of
`BindingCache` or leave its variables alone (`ImplementsCache`), and steps of `OpenNext`
or leave the logins alone (`ImplementsLogins`). For the latter `EndWalk` has to be a
`LearnFrom`, that is, what a walk read must be versions of objects that there were;
`VersionsInv` of `BindingCacheProofs` says so of the cache and of every slice handed out.
`HistoryInv` ties the two together. While a login prepares, `kept` is still
cached and what is cached was `offered`; once it has the slice, it will read all of
`kept` and nothing but `offered` (`Prepares`); what it then reconciles towards is what such
a walk read (`Learnt`). It is inductive because of what a handler does to a walk under
way (`HandlersWrite`): the walk gains only what is cached now, and so is offered from that
moment, and loses nothing that stays cached, and so stays kept. `ExactInv` makes the
account's bindings equal to what was learnt, and `AskedFor` grows with the set it is
given (`AskedForGrows`): that is `TokensReflectBindings`. `HistoryInv` was evaluated by TLC
on the instance of `program_tokens` first.

**The plugin.** A file that no other invocation touched since it was looked at is what
was seen, unless it was removed; an invocation that wrote finds what it wrote. A tick takes
as much from the file as it adds to what an invocation has waited (`TickKnows`).

The invariants of the logins and of the cache were also evaluated by TLC on small
instances before they were proved.

## 5. What is only model-checked

* Liveness (`Converges`, `EveryLoginAnswered`, `AccountsFollowObjects`, `CacheCatchesUp`,
  `GoesOnOrWasCut`, `EachGoesOnOrIsOvertaken`) is beyond the prover: it rests on fairness and ENABLED.
* The recursive part of the data, sequences of items of any length, enters the proofs only
  through what `Tasks` takes from it; nothing is proved by induction over it.
* The claims that fail are refuted on instances, not in general.

## 6. What is not modelled, and why

* The SPNEGO exchange: gokrb5's code; the repository contributes the hand-over of a
  principal.
* K8sService, EnvService: they run once, at start, and what they return is fixed for the
  life of the process (`LDAPEnabled`; the namespace is left out as there is only one).
  Neither has a step that anything could come between.
  (The default of `LDAP_GROUP_FILTER`, `env.service.go:32`, has an unbalanced
  parenthesis, unlike `.env.sample` and the chart; where it is used every
  `GetUserGroups` fails, which in the model is `LdapFails`.)
* OpenAPI and the credentials model: no behaviour.
* A list that never succeeds: `WaitForCacheSync` then neither returns nor fails
  and the process goes on serving with an empty cache. A login does then what
  `program_startup` shows.
* The probes of the chart test the port only; a pod is in service before its cache is
  filled. This is the reason `Kerbernetes` lets logins come at once, and no more of the
  chart is modelled.
* Generated code, chart, build files, the release workflow.
* Interventions logins cannot undo (a binding stripped of its label, a role reference
  rewritten): in the model and in the proof of `GrantsAreEntitled`, but `Converges` does
  not hold for them and does not claim to.

## 7. Plan

Done: `ServiceAccounts`, `AuthService` with its runs and proofs; `BindingCache` with
its runs and proofs; their composition `Kerbernetes` and its proofs; `AccessPolicy` and
the proof that `AuthService` implements it; `ClientCredentials` with its run and proofs.

What could follow:

1. The refinement of `AccessPolicy` by `Kerbernetes`: its proof is about `Next` of
   `AuthService` and would have to be widened to `OpenNext`, with the cache of the
   abstract specification read through a walk.
2. Replicas inside `Kerbernetes`, each with a `BindingCache`: today a replica is a cache
   whose contents change at will, which allows more than an informer does.
3. The safety half of `Converges`: that a login that reconciles undisturbed by
   administrators leaves a converged account converged.

## 8. Running

`tlc -config AuthServiceOverlap.cfg MCAuthService.tla` checks a run; the module and
configuration of each run are in `PROJECT.json`. `tlapm` checks the proofs of
`AccessPolicy.tla`, `AuthServiceProofs.tla`, `AuthServiceExactness.tla`,
`AuthServicePolicyProofs.tla`, `AuthServiceSerialProofs.tla`, `BindingCacheProofs.tla`,
`KerbernetesProofs.tla` and `ClientCredentialsProofs.tla`.
