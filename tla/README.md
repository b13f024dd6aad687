# A TLA+ model of scia

`scia` is a forward proxy that adds credentials to the requests of its clients:
it applies a policy to each request, may hold it until an operator approves it,
obtains (and refreshes) the access token the target needs, and sends the request
on. A second mode of the same program, the OAuth helper, lets users authorize
providers and stores the tokens it receives. Both keep secrets in a store that
may be a local database, an HTTP service or Kubernetes, and follow configuration
files that are edited while they run.

This directory holds TLA+ models of the parts where concurrency, failure and
order matter, the TLC configurations that check them, and theorems that TLAPS
has checked. Source paths below are relative to `src/internal/` unless they
start otherwise.

## The system

| Component | State | Operations | Talks to |
|---|---|---|---|
| Approval manager, `approval/manager.go` | map of pending requests, a channel of capacity one and a timer for each | `Wait`, `List`, `Resolve` | proxy handlers block in `Wait`; admin calls `Resolve` |
| Credential injector, `auth/credential.go` | cache of tokens, a mutex per credential | `Apply`, `ApplyServices` and a function per kind of credential | secret store, token endpoints, service metadata |
| Service metadata, `serviceinfo/serviceinfo.go` | one record per service and an index, all in the secret store | `Put`, `Get`, `AddToIndex`, `MatchingStoredIDs`, `Fetch`, `FetchAll` | secret store, metadata endpoint of the OAuth helper |
| Configuration, `config/config.go`, `config/file_provider.go` | the current configuration, the modification times seen, a channel of capacity one | `Load`, `Watch`, `Validate`, `Get` | files; every handler reads `Get` |
| Proxy, `proxy/server.go` | per connection: the configuration taken, the request in work | `serveForward`, `serveConnect`, raw tunnel, interception, WebSocket upgrade | all of the above, upstreams |
| Policy, `policy/policy.go` | none | `Evaluate`, `MatchHostAny` | called with a configuration |
| Admin API, `proxy/server.go` | none of its own | approvals, credential status, put and revoke of tokens | approval manager, secret store, brokers |
| OAuth helper, `oauth/server.go` | signed states, legacy states in memory | start and callback per provider, brokers, revoke, dynamic users, KMS broker | providers, secret store |
| Secret stores, `secrets/*.go` | a map of secrets; for the envelope store a cache of data keys | `Get`, `Put`, `Delete`, `Close` | sqlite, HTTP, Kubernetes, KMS |
| Certificate authority, `proxy/ca.go` | two files, a cache of leaf certificates | load or create, `certForHost` | file system |
| Process, `src/cmd/scia/main.go` | none | start, signals, shutdown | all |

What is hard in it, and what makes each part correct:

- **Approval.** A verdict, the timeout and a client that leaves race in one
  `select`; `Resolve` sends after it released the lock. Correct: only a request
  whose first verdict is an approval goes on; every wait ends; no admin call is
  told it resolved a request when its verdict vanished without anybody knowing.
- **Injector.** Providers rotate refresh tokens: each refresh uses up the token
  presented and returns its successor, which must reach the store. Requests run
  in parallel, clients leave, the store fails, the process restarts, users
  authorize anew, administrators revoke and delete; and an answer may also repeat
  the token that was presented, which is stored as well. Correct: no token is
  presented twice by requests that take the mutex; the store holds the token the
  provider accepts, unless a rotation was lost.
- **Service metadata.** The index is read and written back without a lock.
  Correct: every indexed service has a record; an entry disappears only by an
  overlapping write, and a request misses its service for no other reason.
- **Configuration.** Files are noticed by modification time and read one after
  the other while they change. Correct: no change is missed, an invalid
  configuration never runs, nothing old comes back, and the process ends up with
  what the files hold, unless its last load failed for a reason that has passed.
- **Proxy.** The configuration changes while requests are held and connections
  stay open. Correct: what goes upstream was allowed, or approved for itself, by
  a configuration no older than the request, and carries its credentials; a request
  that no peer keeps waiting is answered; a tunnel ends when its peers do, and not
  before.
- **Admin API and OAuth helper.** A token is read, revoked at a broker and
  deleted while callbacks and refreshes store new ones; states are signed and
  can come back more than once; a dynamic user registers with the first request.
- **Secret stores.** Kubernetes keeps all secrets of a user in one object that is
  read, changed and written back; the envelope store shares a bounded cache of
  keys that it overwrites with zeros. Correct: both are a map of secrets of which
  a call reads or changes one key; nobody works with a key that was overwritten,
  and none stays in memory.
- **Certificate authority.** A certificate and its key are two files; requests,
  reloads, other processes and crashes fall between their reads and writes.
  Correct: clients keep seeing the CA they trust; what a crash leaves behind can be
  loaded or is made anew; the CA in memory can sign.

`PROJECT.json` lists these hazards one by one, at their lines, with the
properties that would catch them.

## Modules

| Module | What it is |
|---|---|
| `ApprovalGate` | What the approval flow promises, without channels or timers: the abstract specification |
| `Approval`, `MCApproval` | `Manager.Wait` and `Manager.Resolve` with their callers; implements `ApprovalGate` |
| `ApprovalProofs` | Proofs about `Approval`, the safety part of the refinement among them |
| `TokenRefresh`, `MCTokenRefresh` | How the injector obtains one credential's token: cache, mutex, store, rotating provider |
| `TokenRefreshProofs` | Proofs about `TokenRefresh` |
| `StoredTokens`, `MCStoredTokens` | What the secret store holds for one credential, and all who change it |
| `StoredTokensProofs` | Proofs about `StoredTokens` |
| `OAuthFlow`, `MCOAuthFlow` | From a start request to the stored token, under reloads and restarts |
| `Consents` | What the authorization code flow promises: the abstract specification of `OAuthFlow` |
| `OAuthFlowProofs` | Proofs about `OAuthFlow`, its refinement of `Consents` among them |
| `ServiceIndex`, `MCServiceIndex` | Records and index of service metadata, and the jobs that use them |
| `ServiceIndexProofs` | Proofs about `ServiceIndex` |
| `ConfigReload` | `NewStore`, `Load` and `Watch` while files change |
| `ConfigReloadProofs` | Proofs about `ConfigReload` |
| `ProxyRequest`, `MCProxyRequest` | Connections, requests and tunnels under reloads, with the policy |
| `SecretStore` | What a secret store promises: the abstract specification of the two below |
| `KubernetesStore` | One Secret object, read, changed and written back; implements `SecretStore` |
| `EnvelopeStore`, `MCEnvelopeStore` | Encryption and the cache of data keys over `KubernetesStore`; implements `SecretStore` |
| `SecretStoreProofs` | Proofs about `KubernetesStore` and `EnvelopeStore`, the refinement of `SecretStore` by both among them |
| `CertAuthority`, `MCCertAuthority` | The CA's two files, the CA in memory, reloads, crashes, several processes |
| `ProxyProofs` | Proofs about `ProxyRequest` and `CertAuthority` |

Definitions whose name has the form `Action_Variant` are deliberate distortions
of the action after the underscore's left side (a dropped check, a step too
early). No specification uses them. Each shows that some property would notice
that mistake; `PROJECT.json` pairs them.

### Approval

`wait[r]` is the program counter of the goroutine in `Wait`: `registered` once it
is in the map, `parked` once its `select` found nothing ready, `decided` once a
case was taken, then `forwarded` or `refused`. The difference between
`registered` and `parked` is Go's: before a goroutine parks, events pile up and
the select takes any of them; afterwards the first event wakes it. `done[r]` is
the slot of the channel. `call[c]` is the goroutine of an admin call, which looks
the request up under the lock (`LookUp`) and sends outside it (`Send`). `first`
is a history variable. `Return` includes the deferred delete and what
`denialResponse` does with the result.

The refinement maps the three states inside `Wait` to "held" and `first` to the
abstract verdict.

### TokenRefresh

One credential; cache and locks are keyed by it, so credentials do not
interact. A token is `[grant, gen]`: the authorization it descends from and how
often that was refreshed. The provider accepts, for each grant it has not `ended`,
only the latest generation; its answer brings no refresh token (`Keep`), the one
presented (`Echo`) or the next (`Rotate`). The code stores any that it gets, new or
not. `flow` records what distinguishes the six functions: whether there is
a mutex, when a stored access token is used, where the refresh token comes from,
whether it rotates, and whether it is stored before the access token is cached;
`params` whether the config carries a refresh token. Both are chosen at the start
and stay. A step ends at each call of the store, the provider or the mutex;
`Abort` is every error return. A goroutine whose request has ended stands for a
later one, so there are any number of requests and the run checks cycles of them.
`Returning(r)` says that r has a refresh token to store, `Carries(r)` that it is the
successor of the one presented and nobody else has it, `Echoes(r)` that it is the
same. `lost` collects the grants where a request that carried one ended without
storing it, `overtaken` those where a token was rotated while another request had
the old one to store, as only functions without the mutex allow; `dropped` remembers
that the stored token was deleted and the config's left to fall back to.

Around the requests: `Expire` (fewer than 30 s left), `Reauthorize` (a callback
of the OAuth helper), `StoreAccess`, `DeleteAccess` and `DeleteRefresh` (the admin
API), `RevokeAtProvider` (the broker, asked by it), `Restart`, each any number of
times but for the bounds.
The store's calls are atomic and may fail. An answer without an access token
counts as a failed one.

### ServiceIndex

A job is a request without a rule's service ("match"), one with it ("named"), an
admin call that stores a service ("put") or the prefetch at start. `Put` is three
store calls: `PutRecord`, `ReadIndex`, `WriteIndex`. `erased` is a history
variable: services missing now because a write has dropped them that had read the
list before they were on it; who lists one again takes it out. Order and repetition in the
index are abstracted away, for every reader clears them. A job that cannot get
what it needs ends, after any of its steps (`Fail`).

### ConfigReload

A file holds a version and a kind: good, invalid (loads and is rejected by
`Validate`), broken or absent. `Watch` and `Load` advance file by file
(`Stat`, `ReadFile`), so that files may change in between; `updates` is the
channel. `Backdated` says whether a file may be replaced by one whose
modification time is not later. `StatFails` and `ReadFails` are failures of the
file system that pass; `gaveUp` remembers that the last load ended with one, for
Watch has then already noted the new modification times and does not try again.

### ProxyRequest

A connection is plain HTTP (one request each) or HTTPS (a CONNECT and what
follows). All want one host. A configuration has the rules in their order, each
with its methods, hosts, paths, action, credentials and services, and the lists
that decide about interception; a pattern is the set of what it matches.
`Evaluate` takes the first rule that matches; `Passes`, in the properties, says
once more and in other words what a request must have passed. `Choose` decides
between interception and a tunnel; `Handshake`, `Dial`, `Forward` and `Upgrade` end
where the client, the upstream or a backend proxy has answered. `snap` is the
handler's `cfg`. How a held request is decided is left to `Approve` and `Refuse`,
whose fairness is what `ApprovalGate` promises.

A raw tunnel and an upgraded connection are two goroutines, one for each
direction: `peer[k][s]` says whether the side s still sends, has finished or is
gone, `copied[k]` which directions are over. The first direction that is over
tells the other peer (`closeWrite`), and only both together end the tunnel.

### StoredTokens

The revoke request (with `RevokeOAuth`, the OAuth helper's part of it), the
refresh and the callback are processes that make one
step per call to the store, the broker or the provider, so that all others may
act between the read of a token and its deletion, between a rotation and its
storing, and between two fields of one answer. `AdminPut` is a single store
call. Of the provider it assumes only this: when it answers success to the revocation
of a token it accepts, the grant of that token has ended. A success for a used-up
or unknown token, or for an access token, may end the grant or mean nothing
(`RevokeOAuth`). `Layout` says how keys are named: with the credential's id in kubernetes
mode ("scoped"), bare otherwise ("plain"), and for ids that end in ".google" with
the older bare key still being read ("google"). `since[p]` is a history
variable, the tokens that others stored while p held its own; `raced[a]` keeps the
tokens of refreshes that had an answer to store, or might yet get one, when a
deleted its token. What `TokenRefresh` shows in detail is here `RefreshLook`,
`Refresh` (the answer brings no token, the same or the next) and `PutReturned`; the
two modules model the same calls of the store from the two sides.

### OAuthFlow

A start request is a process, and its flow lives on in the signed state that the
browser carries: `user`, `token`, `signed` (the version of the secret that signed
it) and `fresh` (not older than ten minutes). A callback is a process that brings
the state of some flow, again and again if it likes; the provider accepts a code
once. `snap[p]` is the handler's `cfg`, taken where the code takes it, while
`createState` and `consumeState` read the current configuration themselves. The
secret store keeps the users it was made with, so `boot` is the configuration of
the last start, and `SecretName` the object a user's secrets are in. Two keys
stand for "<credential>.refresh_token" and the bare "refresh_token" which is
shared by all credentials of a user. `settled` and `absent` are history
variables that remember how the configuration changed. `startGeneric` and
the handlers of the named providers differ in the order of two checks; `Start`
and `CreateState` allow both. The secret that signs states is part of the
configuration, also where `clientSecretRef` keeps it in the secret store
(`oauth/server.go:3017`).

### SecretStore, KubernetesStore, EnvelopeStore

`SecretStore` is what the other modules take a store for: a call reads or changes
one key at one moment, and one that returns an error may or may not have. A call
of the sqlite store is one SQL statement, and a step of this as it is.

In `KubernetesStore` a call reads the object, changes its copy (`ReadForWrite`) and
writes all of it back (`Write`), if the version is still the one it has read. An
answer may be lost after the write (`Error`), and then the caller does not know.

`EnvelopeStore` extends it. Put has a data key generated, seals the secret with it
and stores both; Get reads the envelope, takes the key from the cache or has it
decrypted, and opens it. Memory is made of cells, one for the slice of each call
and one for the slice of each cache entry, so that a copy and a shared slice are
different things. Where a second entry for a key replaces the first, the first
slice is not zeroed: `stray` has such keys, and `twice` those that two calls had
decrypted at the same time. `Validate` accepts encryption with sqlite only
(`config/config.go:423-425`), whose calls are atomic; the inner store of the module
has their steps apart and may conflict, so it allows more than a sqlite store does,
and what holds over it holds over that.

### CertAuthority

The configuration names the certificate and the key by a path each. `place[p]` is
the pair of paths process p is configured with, any of `CertPaths` with any of
`KeyPaths`, and a reload may change one or both; that one path names both files of
a CA is left out. A file holds the part of some CA, nothing, or less than it should
(`Cut`). Reading the two files and writing them (truncate, fill, for each) are steps
of their own, between which other threads and processes act, reloads change the
paths, and processes are killed and started again. A process keeps one CA in memory,
behind a mutex. `disturbed` and `stopped` remember where two processes met over the same
files, where a read failed, where a creation for another pair of paths wrote over
one of the two files, and where a creation ended inside the key file.

## Runs

| Run | Instance | What it shows |
|---|---|---|
| `approval` | 1 request, 3 calls, fairness | Safety of the gate, both liveness properties, refinement with liveness. Requests share nothing but the map, and the proofs cover any number; three calls let one verdict decide, one fill the slot and one block |
| `refresh` | 2 requests at a time, any number in all, 6 functions, with and without a refresh token in the config, 2 grants, 1 refresh each, 1 access token stored by hand, any number of restarts and deletions, fairness | Mutual exclusion, no needless refresh, store and provider in step, no refusal without loss or revocation, the generic flow's cache never ahead of the store, nobody sets out with a token used up before, no starvation |
| `stored_tokens` | 1 revoke request, 2 refreshes, 1 callback with up to two fields, 2 tokens stored by hand, 2 rotations per grant, plain keys | A successful revocation removes the token and its successors, unless a refresh under way stores its answer afterwards; nothing stored is lost but to a revocation, a newer token or a process that began before |
| `oauth_flow` | 2 flows, 2 callbacks, 2 users, 2 user tokens, 5 configurations, 1 reload, 1 restart | One token per dynamic user, states that survive a restart, keys that credentials share only after a removal, stored means stored |
| `service_index` | 3 jobs of any kind, 2 services | A service that was put stays listed, and is found by the requests for its host, unless a write that overlapped has dropped it and nobody has listed it since |
| `config_reload` | 2 files, 4 writes, 1 failure of the file system, fairness | No change missed, nothing invalid, nothing old, convergence |
| `proxy_request` | 1 connection, 3 requests, 2 reloads, 6 configurations, fairness | What goes upstream was allowed by the first matching rule of the configuration in force, with its credentials; every request that no peer keeps waiting for ever is answered; tunnels end with their peers, and not before |
| `secret_store` | 2 callers, 2 keys, 2 texts, 2 data keys, 3 writes, a cache of 1 entry | Both stores are a map of secrets; no call works with an overwritten key; where keys may stay in memory |
| `cert_authority` | 2 processes, one with 2 threads, 2 certificate and 2 key paths, 1 reload, 2 CAs | Clients see one CA, what a crash leaves can be recovered from, and the CA can sign; each with the exceptions its comment names |
| `refresh_stale_cache` | 2 requests, Slack | Refutes README.md:335-336: a stored access token is not used while an older one is cached |
| `service_index_lost` | 2 jobs, metadataUrl a template | Refutes README.md:85-86: a stored service may be missing from the index |
| `revoke_legacy` | 1 revoke request, 2 refreshes, 1 callback, keys of a ".google" credential | Refutes README.md:137-139: a refresh token found under the older key is revoked, and "deleted" under a key that does not hold it |

Deadlock is not checked where an instance comes to its end: its requests, jobs,
flows or writes are used up, or the process has refused to start. In `refresh`,
`secret_store` and `cert_authority` there is no such end, and it is checked.

**Bounds.** Two requests or jobs show every race of two; the third job shows that
what two leave behind does not confuse the next, and requests of `refresh` come
again and again. Two grants let an authorization replace another while a request is
at work; one refresh of a grant leaves a used-up token behind, which a second
request may present or store. Two files are enough for a mixture of old and new;
four writes let both change before and after a load, and one failure falls anywhere
among them. Connections share only the configuration, so one suffices, with enough
requests for one to be judged before, between and after two reloads; the six
configurations have each action, a rule before and after the one that matters, each
reason for interception and one host that is tunnelled. A revoke request, two
refreshes (one that has the old token, one with its successor) and a callback meet
in every order, and a grant may be rotated twice; more revoke requests and callbacks
are left to the proofs. Two flows let two users, two tokens or two codes compete;
two callbacks let one state come back twice; one reload and one restart fall between
any two steps. Two callers of a store meet between read and write, and the third
write follows a conflict; a cache of one entry evicts at the second key. Two threads
of a process meet at the mutex of the CA, and the process of the third at the files;
two paths of each part make pairs that have both, one or none of the files in
common. The processes begin with any pairs, so that one reload leads from one pair
to another which the other process already has.

Requests, jobs, refreshes, flows, callbacks, user tokens, callers, keys,
texts and paths of a kind are interchangeable in the modules; `stored_tokens`,
`revoke_legacy`, `oauth_flow`, `service_index`, `secret_store` and `cert_authority`
use that as a symmetry, which is sound for the safety properties they check.

**Fairness.** Weak fairness of a goroutine's next step: the Go scheduler runs what
can run. Timers fire. `SF(Acquire)`: `sync.Mutex` hands the lock to a waiter that
has waited for a millisecond. Every call to a provider has a timeout of ten seconds,
so the step that waits for it is fair as well (its failure is among its outcomes). A
peer of a tunnel that has been told of the end of the other's data ends its own at
some time (`Told`), and peers take what they are sent; without that a tunnel may
stay open for ever, for the code sets no deadline. Nor does it for the client's TLS
handshake, the handshake and the answer of a WebSocket upstream, the backend proxy's
answer to a CONNECT, or bodies: `Handshake`, `Dial`, `Forward` and `Upgrade`
(`Await`) have no fairness, and `RequestsAnswered` says that everything else ends:
it is about connections whose peers do not keep them waiting for ever. Calls to the
secret store are taken to return. Nothing is assumed of operators, clients, the file
system or whoever edits files: `Register`, `LookUp`, `ClientLeaves`, `Write`,
`ReadFails`, `Request`, `Approve`, `Close` are free.

## Proofs

All proofs hold for every value of the constants that satisfies the modules'
assumptions (`ConstantsOK`, `CAConstantsOK`). Each proves the module's type
invariant as well, as a theorem or as a part of its inductive invariant, and no run
repeats it. Every invariant and every action property of the passing runs is stated
by a theorem.

- `ApprovalProofs`. The invariant `ApprovalInv` adds to the checked properties
  how the outcome of a wait and the slot of its channel depend on the accepted
  calls (`OutcomeInv`, `FirstInv`, `GivenInv`): without them
  `VerdictsConserved` is not preserved by `Send`, which must know that an empty
  slot and an open wait mean that no call was accepted yet.
  `ManagerImplementsGate` uses it to show that every step is a step of
  `ApprovalGate` or stutters.
- `TokenRefreshProofs`. First types, then mutual exclusion (`RefreshExclusive`),
  which needs no other fact. Then the rotation: every token anywhere is one its
  provider issued, and no generation lies ahead of the provider's; the successor a
  request carries is the newest of its grant and nobody else has it (`CarriedInv`),
  and a token that an answer repeats is the newest as well, unless another request
  has rotated it meanwhile (`EchoInv`, `overtaken`). From this `StoreStaysCurrent`
  follows for every flow, with or without mutex; with the mutex no answer is under
  way while another request rotates (`MutexInv`), and nothing is overtaken. With the
  mutex, too, the request in exchange holds what the store holds, or the token's grant
  was lost or revoked: hence `NoRefusalWithoutLoss`, for configurations without a
  refresh token (with one, the used-up token of the config is presented again and
  again).
  `CacheFollowsStore` needs that what a request is about to store is not behind the
  store (`CacheInv`). `PresentsCurrentToken` is about the steps in which a request
  sets out with a refresh token. With one from the store it rests on
  `StoreStaysCurrent`; with one from the config, on `ConfigInv`: while the store has
  none, the config's is still the newest, or its successor is on its way to the
  store, or was lost, or was deleted by the administrator (`dropped`).
- `StoredTokensProofs`. What a callback has still to store is in nobody else's
  hands (`PendingInv`); whoever has a revoked refresh token to store, or another of
  its grant, was at it when the token was deleted, and is in `raced` (`RevokedInv`).
  Therefore a revoked token can come back only from a refresh under way, and what
  replaces a token is newer or in the hand of a process that began before
  (`SinceInv`).
  `RevokedStaysGone` and `NothingLostUnexplained` assume `Layout # "google"`: with
  the older keys both are false, the first as `revoke_legacy` shows.
  `GrantStaysGone` holds for every layout. With the older keys it has an invariant
  of its own, `OldLayoutInv`: nothing is rotated there, and what the older key holds
  is from before every callback.
- `OAuthFlowProofs`. `FlowInv` carries what was true at the start request over to
  the callback: who the user is, which secret signed the state, whether the
  configuration has changed since (`SettledInv`), who was unknown to it
  (`AbsentInv`), and who is about to register a token (`RegisterInv`).
  `FlowImplementsConsents` shows that the whole flow, with any number of callbacks
  for one state, implements `Consents`: a consent is turned into a token once, the
  token is put in one place of the user the flow was begun for, and a callback
  reports "stored" exactly then. It rests on `ConsentInv`: since the provider takes
  a code once, one callback per flow gets past the exchange, and a place holds only
  tokens of its user (`ConsentInvariant`). Neither is a property of a run: TLC finds
  both to hold on the instance of `oauth_flow`, in three minutes, and the proofs do
  not depend on an instance.
- `ServiceIndexProofs`. That a service is missing, for who stored it
  (`StoredIsMissingByOverlap`) and for who needs it (`BareByOverlap`), only through
  an overlapping write rests on what a job has put already: what it wanted to put
  is still to do, on the list, or erased (`PutInv`).
- `ConfigReloadProofs`. `OrderInv` orders the versions along the path of a
  configuration (file, read, channel, current), which gives `ReloadsGoForward`.
  `NoticeInv` says that `Watch` remembers no time ahead of a file's, which with
  `Pending` gives `EveryChangeNoticed`, assuming modification times do not go
  back: a file replaced by an older one is not noticed.
- `ProxyProofs`, about `ProxyRequest`. What goes upstream was decided several steps
  before. `ClearedInv` says that the request in work is cleared by the configuration
  the handler holds, `HandlerInv` that this is the one of its arrival and what the
  injection has added, `PipeInv` why a direction is over. That `Evaluate` and
  `Passes` agree takes that a set of indices has a least element.
- `ProxyProofs`, about `CertAuthority`. `CAInv` says what the two files of an
  undisturbed place hold at each point of a creation (`CreatorInv`, `FilesInv`):
  no key; or a cut key beside a whole certificate, which a creation is about to
  fill or has left behind; or both halves of one CA. Two facts make that enough.
  Two creations at one place have disturbed it (`AloneInv`); and a creation has
  disturbed every pair of paths that shares a file it has begun to write
  (`SharedInv`), so that what fills the file later harms no undisturbed pair. So
  what clients have seen is what the files hold (`ShownInv`, `ClientsSeeOneCA`), a
  CA in memory is that of its files and has the key of its certificate
  (`MemoryInv`, `CACanSign`), both where nothing was disturbed; and a start finds a
  CA or makes one, unless a creation was stopped between truncating the key file
  and filling it (`CreationResumes`).
- `SecretStoreProofs`, about `KubernetesStore`. While the object has the version a
  writer has read, the writer's copy is the object with one key changed (`CopyInv`).
  Hence the write is a step of `SecretStore`, and the whole module implements it
  (`StoreIsAMap`).
- `SecretStoreProofs`, about `EnvelopeStore`. A call that works with a data key has
  it in a slice of its own (`SliceInv`), so no eviction and no `Close` can overwrite
  it: `NoKeyOverwritten`. `CacheInv` says that an entry of the cache has one slice
  which holds its key, `FreshInv` that a key being sealed with is nowhere else yet,
  `TwiceInv` that an entry is replaced only where two calls had decrypted one key:
  together `NoKeyLeftBehind`. The inner calls are such as `KubernetesStore` allows, so
  that `StoreIsAMap` holds of envelopes (`EnvelopesAreStored`). `AskedInv` says that
  the inner call is what the outer one was asked for, but for the encryption; hence
  every step is a step of `SecretStore` over secrets or stutters
  (`EnvelopesAreAMap`).

Model-checked only: the liveness properties (`WaitEnds`,
`ResolveReturnsUnlessSlotLost`, `GateLive`, `RequestsEnd`, `ConfigConverges`,
`RequestsAnswered`, `TunnelsEnd`), because TLAPS as used here proves neither
fairness nor ENABLED; and the three counterexamples, which are behaviours of an
instance. No module has a `RECURSIVE` operator.

## Not modelled

Logging, templates and JSON; the static kinds of credentials and client
credentials, which have nothing to rotate; the frontend and metadata endpoints and
the status of the admin API, which only read; what `Validate` checks and how two
documents merge; header and query injection; the token and KMS brokers, which pass
a request on and keep nothing; the external store, which sends its calls to a
webhook and can read nothing back; the lifetime of leaf certificates. The modules
other than those about stores take a secret store for an atomic map whose calls
may fail. A write that the API server carries out only after its caller has given
up is not in `KubernetesStore`: there a call that ends with an error has taken
effect by then, or never will.

## Plan

What is left: the pure operators against reference definitions, `mergeYAMLNodes`,
`HostRule` and `HostMatches`, `oauthScopeFromRequest`.

## Known differences between code and documents

The three runs that end in a violation show one each. These were read in the code
and have no run of their own:

- A load that fails in passing (too many open files, say) is not tried again before
  the next change (`config/file_provider.go:73`;
  docs/generic-service-integrations-design.md:226). `gaveUp` of `ConfigReload` is the
  exception that `StaleIsNoticed` and `ConfigConverges` need.
- Where the host is tunnelled, the credentials of a rule that allows it are not
  injected: nothing of the rule but its action is looked at (`proxy/server.go:355`).
- The leaf certificates of the CA are cached without end and expire after seven
  days (`proxy/ca.go:112`, `:127`).
- A CA file that cannot be read is taken for a missing one, and the CA is replaced
  (`proxy/ca.go:31`); a key file cut short makes every later start fail (`:53`).
  `OneAuthority` and `NoDeadEnd` name both as exceptions.
- A reload that changes only one of the two CA paths makes a new CA over the file
  that was kept, when the other one is missing; when both are there it may load a
  certificate with the key of another CA, which cannot sign: nothing compares them
  (`proxy/server.go:1351`, `proxy/ca.go:31`, `:59`). `disturbed` has the pairs of paths
  this happens to.
- Without a mutex (Notion), an answer that repeats the token presented is stored
  like any other, and may overwrite the successor another request has stored
  meanwhile (`auth/credential.go:204`). `StoreIsCurrent` has `overtaken` for it.
- After the administrator has deleted the stored refresh token, the one in the
  config is presented, though it was used up by the first rotation
  (`auth/credential.go:866`). `PresentsCurrentToken` has `dropped` for it.
- A refresh under way while a token is revoked stores its answer after the 204 of
  the revoke request: the successor, or the revoked token itself where the provider
  repeats it (`auth/credential.go:559`; README.md:137-138 "revokes a stored token
  through a configured broker and deletes the local secret only after the broker
  succeeds"). `raced` has these refreshes.
- A rotation under way when a user authorizes anew overwrites the new
  authorization's token with the successor of the old one (`auth/credential.go:560`).
- The generic callback stores an answer field by field: two callbacks at once may
  leave the access token of one authorization beside the refresh token of the other
  (`oauth/server.go:537`). `ChangesExplained` explains each field alone.
- Of two first requests of a dynamic user with different tokens both are let in, and
  the one that is stored last counts from then on (`oauth/server.go:2031`).
  `overlapped` of `OAuthFlow` is the exception.
- An entry of the data key cache that a second Put of the same key replaces is not
  overwritten with zeros (`secrets/envelope.go:313`).
- A refresh token in the config goes before the stored one (`auth/credential.go:823`;
  README.md:313-315 "otherwise refreshes with a stored `refresh_token`").
- A file replaced by one with an older modification time is not reloaded
  (`config/file_provider.go:72`; docs/generic-service-integrations-design.md:226).
  `Backdated` of `ConfigReload` allows such writes.
- Hosts listed for Slack and GitHub are not intercepted (`proxy/server.go:637`;
  docs/generic-service-integrations-design.md:519 "include legacy
  `server.integrations.*.hosts` during migration").
- In kubernetes mode Google's refresh token is stored under
  "<credential>.refresh_token" (docs/google-oauth-kubernetes.md:103-105 names the key
  `refresh_token`).
- Revoke deletes the key whatever it holds by then: a token stored between its read
  and its delete goes with the revoked one (`proxy/server.go:1126`).
