# A TLA+ development of the Cyphr OIDC bridge and its extension

`cyphr-OIDC` lets a user sign in to an OpenID Connect client with a key that
never leaves the browser. The **bridge** (`bridge/`, Go) is an OIDC provider
built on the `zitadel/oidc` library. It issues a random challenge, verifies a
signed answer to it (a "Coz" message), marks the authorization request as
completed, and lets the library exchange codes for tokens. The **extension**
(`cyphrmask/`, JavaScript and Rust compiled to Wasm) keeps the key and signs.

This directory models the parts of the system whose behaviour depends on
ordering, concurrency, expiry, restarts and asynchronous answers, checks them
with TLC, and proves with TLAPS, for all values of the constants, all the
safety properties that the passing runs check: that the inductive invariants hold, that the
three detailed specifications implement their abstract ones, and that the
composed bridge keeps what its parts promise. Paths below are relative to the
repository.

## 1. The system

### Components, their state and their operations

| Component | State | Operations | Module |
|---|---|---|---|
| Challenge store, `bridge/handlers/challenge.go` | `challenges`: connection address → nonce and time of creation, under an `RWMutex`; the TTL | `HandleChallenge` stores; `HandleVerify` gets, compares, deletes; `Cleanup` (no caller) | `ChallengeVerify` |
| Verification, `bridge/handlers/verify.go`, `bridge/crypto/coz.go` | the table of users, fixed at start | timeliness, nonce, user and signature checks, completion | `ChallengeVerify` |
| Auth requests and codes, `bridge/storage/storage.go`, `handlers/callback.go`, `handlers/token_callback.go` | `authRequests`, `codes`, and `AuthRequest` objects that are shared by pointer | create, complete, issue a code, look up by code, read for tokens, delete | `AuthFlow` |
| Tokens, `bridge/storage/storage.go` | `tokens`, `refreshTokens` | issue, renew, revoke, log out | `TokenStore` |
| Process, `bridge/main.go` | all of the above, in memory | start, stop | `Bridge` and every `Restart` |
| Extension worker, `cyphrmask/src/background.js` | the Wasm module, the key in a global, the key in `chrome.storage` | start, load, set a key, sign | `KeyHolder` |
| Login page and content script, `bridge/templates/login.html`, `cyphrmask/src/content.js` | the nonce of the page, the button, the message waited for | fetch a challenge, ask the status, click, post, redirect | `SignIn` |
| Coz messages, `bridge/crypto/coz.go`, `cyphrmask/wasm-crypto` | the keys an operator registered | generate, register, sign, verify | `Coz` |
| Signing key, `bridge/storage/storage.go` | the key file, the key and its id | load or generate, sign ID tokens | `SigningKey` |
| Locks, `bridge/storage/storage.go`, `bridge/handlers/challenge.go` | `Storage.lock`, `ChallengeStore.mu` | taken and given back by every call | `Locks` |
| Popup and options pages, `cyphrmask/src/popup`, `cyphrmask/src/options` | the poll, the identity shown, messages under way | poll the worker, load the identity, set a key | `KeyPages`; the popup's challenge in `SignIn` |
| Multihash, `bridge/crypto/multihash.go` | none | encode, parse; only tests call it | `Multihash`, checked in `Coz` |
| Client registry, userinfo, introspection | `clients`, fixed at start | reads | the locks of the reads, in `Locks` |

### How they interact

1. The login page fetches a challenge: `GET /api/challenge` stores a nonce under
   `r.RemoteAddr`, the address of the TCP connection.
2. A click sends the nonce through the content script to the worker, which
   answers with a Coz message or an error.
3. The page posts the message to `/api/verify?authRequestID=…`. `HandleVerify`
   checks the timestamp, takes the store's mutex once to read the nonce and
   once to delete it, looks the user up, checks the signature, and calls
   `CompleteAuthRequest`. Here the challenge component meets the storage.
   Which request that is comes from the query, which nothing signs.
4. The page goes to `/login/callback?id=…`, which saves a new code for the
   request and redirects to the client.
5. The client presents the code. The library calls `AuthRequestByCode`, reads
   the request through the pointer it is given, calls `CreateAccessToken`,
   builds the ID token from the same pointer and calls `DeleteAuthRequest`.
6. Refresh tokens, revocation and logout work on the two token maps.

Every map is guarded by a mutex, but few operations are one critical section.
Requests of other connections, exchanges of the same code, and a restart of the
process come in between. Nothing is persisted except the RSA signing key.

### What is hard about it

The list, line by line, is in `PROJECT.json` under `hazards`. In short: a nonce
is read, compared and deleted in separate sections; two clocks and two checks of
time together bind a signature to a challenge; auth requests are read without a
lock after they were handed out by pointer; codes are not used up when they are
presented; renewals read a refresh token in one section and replace it in
another; a browser may stop the worker, and its storage answers late; the page
asks for the worker's status once; a challenge belongs to one TCP connection.

## 2. The modules

    OneTimeNonce  <-- ChallengeVerify <--+
                                         +-- Bridge
    CodeGrant     <-- AuthFlow        <--+
    RotatingToken <-- TokenStore
    KeyHolder     <-- KeyPages
    KeyHolder     <-- SignIn
    Multihash     <-- Coz
    SigningKey
    Locks

`A <-- B` means that B is shown to implement A, or is composed from it. Each
component has an `MC…` module with the definitions its TLC instance needs, and
each a module `…_proofs` with its theorems: those of `KeyPages` and `SignIn` are in
`KeyHolder_proofs`, since they rest on the worker's, and those of `Multihash` in
`Coz_proofs`. `Bridge_proofs` instantiates
the proofs of its two parts.
Variables and operators have the names of the code where it has one. Operators
whose comment begins with "A mutant" are not part of a model: each is a
plausible bug, and putting it in the place of the definition below it makes a
property of the run fail. They show that the properties can tell the difference.

### ChallengeVerify, implementing OneTimeNonce

One action per critical section of the two handlers. A handler stands at
`idle`, `get` (past the timestamp check), `delete` (the nonce matched) or
`complete` (the nonce deleted and the signature good). `GetMissing`,
`GetMismatch` and `GetMatch` are the outcomes of `Get` and the comparison;
`VerifyDelete` is `Delete` with the lookup of the user and the check of the
signature that follow it, which touch no shared state; `VerifyComplete` is the
completion and the answer. `Restart` may happen between any two of them.

A `VerifyRequest` carries a nonce that was issued to anyone, a thumbprint, the
signer's own time and the key that made the signature: a signature is modelled as
that key. Its `req` is the `authRequestID` of the query, which no signature covers.
`Timely` is `VerifyTimeliness` with its `int64` difference that wraps around: it
accepts the times within the drift and the one that lies 2^63 seconds (`Half`)
before the bridge's. `Coz` computes the same difference with the wrap-around, and
`TimelyExact` says that these are all. Failures before the store is reached change nothing and are not steps.
`Get` deletes an expired entry, as the code does, under the read lock, which is
the matter of `Locks`. `Cleanup` has no caller and is no action.

`OneTimeNonce` knows no connections, handlers or clocks: a nonce is fresh, then
outstanding, claimed, and spent, with at most one use.

### AuthFlow, implementing CodeGrant

`object` is the heap of `AuthRequest` objects, `stored` the keys of the map: a
request deleted from the map lives on in the exchanges that hold a pointer.
`callback` is `/login/callback`, which looks the request up and saves the code
in two sections. `exchange` is a request that presents a code: `PresentCode` and
`RequestByID` are the two sections of `AuthRequestByCode`, `ReadEmail` and
`CreateAccessToken` the unlocked reads and the section of `CreateAccessToken`,
`SetUserinfoFromScopes` and `SetUserinfoFromRequest` the two sources of the ID
token's claims, `DeleteAuthRequest` the end. The order of these calls is the
library's (external): it reads the email first, then the subject. A failed
check of the client or of PKCE after the lookup ends the exchange without
effect, which `ShowSubject`, the end of the bridge's own `/callback` page,
also does. The iteration over `codes` in `DeleteAuthRequest` stops at the first
match in Go's random order: the model deletes any one of the request's codes.

A request may have a subject before anybody has verified it: the authorization
endpoint accepts an `id_token_hint`, any ID token that the bridge signed, expired
or not, and the library passes its subject to `CreateAuthRequest`, which stores it.
`HintSubjects` are the subjects of the tokens that exchanges have ended with, those
from before a restart included (the new process refuses them by the new id of its
key, so that the model allows more than the code). `hint` remembers what each
request was created with.

The writes of `CompleteAuthRequest` are one step, although readers without the lock
might see some of them only. What they read without it is the email, and then the
subject, whose write comes first, and they take the lock before they read more. An
email read between the writes is the old one, as before all of them, or the new one,
as after; a subject read between them is the new one, as after all of them, and what
is read next is read after the section has ended.

`CodeGrant` knows no codes, maps or pointers: a request is opened, for nobody or
for a subject that has verified another one, is verified, and is closed; a grant
begins on an open request, names one of the subjects that verified that request,
or the one it was opened for, and closes it.

### Bridge

Composes the two with `INSTANCE`. `VerifyComplete` calls `CompleteAuthRequest`
when the named request is stored, and does nothing to the storage otherwise,
as the code does, which reports success either way. The subjects and emails of
the storage are those of the users table. A restart empties both.

### TokenStore, implementing RotatingToken

The calls that create tokens, the goroutines that revoke them, logouts, expiry
on renewal and restarts. `CreateAccessAndRefreshTokens` takes the lock once per
token, and the refresh token it renews was read in an earlier section, so other
calls come between. `GetRefreshTokenInfo` reads an id through a pointer that a
renewal may have given a new id in the meantime: `ReadRenewedID`. A call creates
at most one token of each kind, so that the call stands for the ids of both.

`RotatingToken` says that each sign-in has at most one valid refresh token, and
that a token that was replaced, revoked or lost never becomes valid again.

### KeyHolder

The worker's script runs at each `Start`: it instantiates the Wasm module and
asks `chrome.storage` for the key; both answers come later. `ops` is the queue
of storage operations, which outlives the worker. `SET_KEY` works at once;
`IMPORT_KEY` and `GENERATE_KEY` need the module.

### KeyPages

One page, the popup or the options page, on top of `KeyHolder`, whose variables
and actions it extends; the other pages are reduced to the keys they set. The
page polls (`Poll`, `AnswerStatus`, `StatusShown`), reads the key (`KeyRead`) and
has the worker derive the identity (`DeriveKey`, `IdentityShown`), and the user
sets keys in between (`SetKeyClicked`, `AnswerSetKey`). `page.identity` is what
it shows, exports and copies. The answer to the page's read of `chrome.storage`
is fixed when it is asked for, since operations are done in order, and arrives
later. A poll is answered before the next one: the interval is 200 ms, and an
answer comes at once from a worker that runs. An undefined answer, with which
the browser reports a lost message, is not modelled: it ends the poll and leaves
the page waiting.

### SignIn

One page from load to redirect, reloads included, and its content script, on top of
`KeyHolder`, whose variables and actions it extends as `KeyPages` does. The bridge is reduced to the challenge it holds for each
connection. The environment may reload the page, lose the fetch or the post, change connection,
forget the challenge (expiry or restart), overwrite it from the popup, delay the
post until the signature is out of date, set the browser's clock right or wrong, stop
the worker or set another key, `MaxTrouble` times in all. The browser's clock may be
off from the start (`drifted`): then the bridge refuses every signature and keeps
the nonce, and the user cannot sign in until the clock is set.

### SigningKey

The starts of the process, with and without `BRIDGE_SIGNING_KEY_PATH`.
`loadOrGenerateKey` loads the file if it can be read and saves a new key
otherwise; `os.WriteFile` truncates before it writes, hence the two steps
`OpenFile` and `WriteFile` with a crash or a failure (`Stop`) at any point. A
file that was left torn cannot be decoded, and a start that finds it panics:
`LoadKey` has no step then. `ReadFails` is a file that exists and cannot be
read, which the code treats like one that does not exist. `Serve` is the end of
`mustNewStorage`, with its new id; `SignToken` adds an ID token that names it.

### Locks

The other modules take a critical section for one step. `Locks` looks inside: a
call of the storage or of the challenge store is the set of its paths, a path
the sequence of lock operations and of accesses to shared maps and objects, the
deferred unlock at the end of each. `Claim` and `Drain` are the two halves of
`RWMutex.Lock`, which keeps new readers out before it waits for the old ones.
Goroutines make any calls in any order, all on the same connection, request and
token, so that what could meet does. The values are left out: a path may be
taken whether or not the data of another call would lead to it. What a goroutine
has left to do is always the rest of one of its call's paths (`TypeOK`).

### Multihash

The encodings and the parser as operators, without state. A character is its
place in the base64url alphabet, in which the hex digits lie, so that the texts
of the two encodings can be mistaken for one another, as in the code, where
`ParseMultihash` goes by the length of the text.

### Coz

The bytes of a sign-in, with coordinates and numbers of `CoordLen` bytes and
integers in `-Half .. Half - 1` in the place of 32 bytes and 64 bits. Rust writes
coordinates and signatures at a fixed width; Go reads them into numbers without
leading zeros (`Trim`). `Register` is the entry an operator copies into
`BRIDGE_USERS`, as PEM, as the popup writes it, or without its prefix; a hex text
is never mistaken for base64 or the other way round (lengths and padding
differ), so that the text's encoding is left out. Whether a text has the prefix
is told by its length: a coordinate may begin with the prefix's byte, 4, too. `sign_action` signs with any
registered or unregistered key at any time the browser's clock may show, and
`HandleVerify` applies the checks in the code's order. ECDSA and SHA-256 are
ideal: only the signature that was made verifies, and a digest stands for its
text. The nonce is left to `ChallengeVerify`. `MultihashesReadBack` applies
`Multihash` to the digests of the identities, at lengths up to 32 bytes.

## 3. What the runs check

| Run | Properties | What it shows |
|---|---|---|
| `challenge_verify` | `IndInv`, `NonceOnce`, `OwnLatestChallenge`, `SignedNearIssue`, `RegisteredSigner`, `OneTimeNonceSpec`, `GoodSignInAccepted` | Reading, comparing and deleting the nonce in separate sections is safe, because a connection serves one request at a time: a nonce signs in once, over the connection that fetched it last, signed within the TTL and the drift of its issue (or at a time 2^63 seconds before a valid one), with the registered key; a failed attempt voids it; a good answer to a stored challenge is accepted, whatever other connections do, unless it expires or the process restarts. |
| `auth_flow` | `TypeOK`, `TokensAgree`, `RequestNamesUser`, `CodeGrantSpec` | The unlocked reads of a request that one user completed give tokens that agree, whatever subject a hint put there first; a token with an email names a user who verified its request; an exchange that begins after another one of the request has finished gets nothing, whichever code it presents, also across a restart. |
| `lookup_during_exchange` (violated) | `LookupSucceeds` | `findEmailBySubject` fails when a concurrent exchange of the same request ends first. |
| `bridge` | `TokenSubjectProved`, `CompletionsNeedNonces`, `PartsKept` | A subject in a token proved itself, in an accepted sign-in whose query named that request; or it was taken from an `id_token_hint`, the token has no email, and the subject proved itself for another request; one answer never completes two requests; in the composition each component behaves as it does alone, so its results carry over. |
| `token_store` | `TypeOK`, `RenewedOnce`, `AccessFollowsRefresh`, `LogoutEndsFamily`, `RotatingTokenSpec` | Renewal is safe although its two sections are apart; revoking or logging out ends what it should, also in the middle of a renewal; no refresh token comes back. |
| `key_holder` | `PagesTypeOK`, `KeyIsDurable`, `LoadedKeyIsLatest`, `PageShowsLatest`, `PollEnds` | A key the user was told is set is not lost when the worker is stopped, and later workers sign with it. A page that has nothing under way shows that key, and the setup screen only without one, unless a key was set from elsewhere or while it loaded, or the worker was restarted while it loaded. Its poll ends. |
| `key_matches_storage` (violated) | `KeyMatchesStorage` | A key set while the startup read is under way is overwritten in memory. |
| `sign_in` | `SignInTypeOK`, `RedirectProved`, `ClickAnswered`, `GoodClickSignsIn`, `ReloadEnablesButton` | The page goes on only after the bridge accepted its own challenge; every click is answered; in a browser whose clock is within the tolerance a request in good order signs in whatever went wrong before; a page that is loaded or reloaded while the worker is ready gets its button. |
| `ready_page` (violated) | `ReadyEnablesButton` | A page that asks while the module is loading is not told when it is ready. |
| `signing_key` | `ServedKeyIsSaved`, `IssuedWithSavedKey`, `IdNamesKey` | Whatever crashes while a new key is saved, a bridge with a key path serves the key its next start loads, and all tokens of all starts have one key, unless a file that held it could not be read. A key's id never stands for another key. |
| `locks` | `OnlyKnownRaces`, `LocksMatch`, `CallsEnd` | What the other modules assume of critical sections: shared maps and objects are accessed under the mutex, but for the races that `OnlyKnownRaces` lists; every path gives back what it took, in the mode it took it; every call ends. |
| `coz` | `TypeOK`, `UsersOwnKey`, `ThumbprintsAgree`, `MultihashesReadBack`, `GenuineAccepted` | What the extension signs is accepted exactly when the clocks agree, or at one timestamp far in the past, with whatever zeros keys and signatures begin; no registration replaces another; on which keys the two thumbprint functions agree; which texts of a multihash are read back, and that none is read as another. |

### Findings

The violated runs are disagreements with the repository's own words, quoted
under `findings` in `PROJECT.json`:

- The comment of `findEmailBySubject` says that the lookup succeeds during
  token creation. It fails if another exchange of the request finishes between
  the access token and the ID token. The ID token still gets its email, from
  the request itself: `TokensAgree` holds.
- The startup callback of the worker replaces a key set in the meantime.
- The content script asks for the status once, so the page's button stays
  disabled if the worker was still loading its module.

More was seen while modelling, and is not a run:

- `ChallengeStore.Get` deletes an expired entry under the read lock, and
  `GetRefreshTokenInfo` reads a map without the mutex: the two races on maps in
  `OnlyKnownRaces`. The Go runtime may end the process at either.
- The RSA key "Persists across restarts" (`README.md:385`), but its id is new at
  each start: a client that selects the key by the id in an earlier token's
  header does not find it. By `IdNamesKey` it never finds a wrong one.
- The base64url text of a SHA-256 multihash has 46 characters, and
  `ParseMultihash` takes a text of even length for hex: it refuses every such
  text. By `SHA256NeverHex` and `MultihashesReadBackHolds` it never reads one as
  something else.
- A page of the extension loads the identity once: when the other page sets a
  key, it goes on showing, exporting and copying the old one until it is opened
  again. While a worker that was just started has not heard from storage, a page
  shows its setup screen, with its button for a new key, until the identity is
  loaded.
- A poll whose answer is lost ends the poll, and the page goes on saying
  that the module is being initialized.
- Introspection does not look at a token's expiration, and userinfo does.
- `README.md` calls `challenge.go` a "Nonce store with TTL cleanup", and nothing
  calls `Cleanup`: entries of connections that do not come back stay.
- `DeleteAuthRequest` breaks out of its loop after the first code. A request
  whose callback was called twice leaves a code behind, which is a leak and not
  a grant, as `CodeGrantSpec` shows.
- `/login/callback` issues a code for a request that nobody has verified. The
  token then names no subject, or the subject of the `id_token_hint` with which
  the request was created: a user who proved itself for some other request, maybe
  long ago. It has no email then. `TokenSubjectProved` and `CodeGrant` say this
  and no more. A client that needs to know that the user has just signed in cannot
  tell it from the subject alone.
- `HandleVerify` reports success when the request is no longer stored and
  nothing was completed.
- A challenge is bound to the address of a connection, where `docs/PLAN.md`
  plans to bind it to a session cookie, so that a browser that opens a second
  connection is refused.
- `VerifyTimeliness` accepts a timestamp 2^63 seconds in the past, because the
  negation of the smallest `int64` is itself: the one exception in
  `GenuineAccepted` and in `SignedNearIssue`, and by `TimelyExact` the only one at
  every width.
- `ComputeThumbprint` (Go, called only by tests) and `compute_thumbprint` (Rust),
  both "RFC 7638" in `docs/DAY1.md`, differ on a key one of whose coordinates
  begins with a zero byte.
- The helper `signTestPayload` of `bridge/crypto/coz_test.go` joins `r.Bytes()`
  and `s.Bytes()`, so that a test with it fails when `s` is the shorter of the
  two, about once in 256 runs. The mutant of `GenuineAccepted` does the same.
- A crash inside the first start's `os.WriteFile` leaves a key file with which
  no later start succeeds until somebody removes it.

## 4. Bounds

`MaxTime`, `MaxRestarts`, `MaxOps`, `MaxStarts`, `MaxTrouble` and the sets of
ids bound the instances; they appear as guards and nowhere else.

- `challenge_verify`: two connections, two nonces, two keys, one user who is in
  the built-in table and overridden in `BRIDGE_USERS`, a TTL of 1, no drift, time
  up to 2, one restart. Two connections are the least for interference and
  wrong-connection answers, two nonces for overwriting, and time 2 for a request
  that is timely, waits, and outlives its challenge. Payloads bear the times of the
  clock, or the one that lies `Half` before time 1, at which a challenge may be
  stored, claimed or expired (`Stamp`; the proofs are for all of them). How the drift adds to the
  TTL is proved for all values (`SignedNearIssueHolds`).
- `auth_flow`: two requests, codes, exchanges and users, one restart. Two codes
  are needed for a request with two codes, two exchanges for one to delete what
  another reads, two users for a request completed twice.
- `bridge`: two users, two requests, two codes and two exchanges, one nonce over one
  connection, one tick, one restart. This is the least in which a token is issued by
  a hint: one request is verified and exchanged, and its token is the hint for the
  other, whose code is looked up without a verification. One answered challenge
  is also the case for `CompletionsNeedNonces`, which forbids it two
  completions; several, and a request completed by two users, are in
  `auth_flow`. The users are symmetric, with their keys and emails. Interference between connections and
  between exchanges is left to the components' runs, which `PartsKept`
  makes applicable.
- `token_store`: four calls, one revoker, one user with two clients, one tick
  and tokens that expire after it, one restart. Four calls give a sign-in with
  two competing renewals and one more, or two sign-ins.
- `key_holder`: two keys, three pending operations, two starts and two messages
  of the page under way: a get of an earlier start, a write and a get of the
  next one can be pending together, and an import can overtake a load.
  `key_matches_storage` has three keys and four starts.
- `locks`: two goroutines. A race is between two accesses, and with two mutexes
  a circle is of two.
- `sign_in`, `ready_page`: two keys, two nonces, two connections, two starts of
  the worker and two disturbances, enough for the worst pairs, for instance an
  overwritten challenge and a stopped worker.
- `signing_key`: three keys, four ids, four crashes or failures,
  enough for a torn file, a lost key, and three starts that serve; keys and ids
  are symmetric.
- `coz`: numbers of two bytes that are 0, 1, 4 or 171 (4 begins a point without its
  prefix, 171 is for both halves of a hex byte and all parts of a base64 character), digests of 0 to 4 and of 32 bytes,
  three keys and three signatures that differ in where their zeros are, two
  users, 3-bit integers with a drift of 1, so that every timestamp is tried,
  those that wrap around included.

Deadlock is not checked where all ids, restarts and disturbances can be used up
or where the page has been left: there the system has nothing more to do. It is
checked in `challenge_verify`, `coz` and `locks`. In `signing_key` a process
with a torn key file really stops for good.

## 5. Assumptions and fairness

- Open TCP connections have different addresses, and `net/http` serves one
  request of a connection at a time: `RemoteAddr` is injective (`CVAssumption`).
  `NonceOnce` rests on it. Behind a proxy that reuses one connection to the
  bridge requests are still served one at a time per connection.
- Nonces, request ids, codes and token ids are random and do not repeat.
- `None` stands for a missing value and is none of the values it is compared with
  (a conjunct of most assumptions, and `NoneAssumption`); the table of emails is that
  of the subjects, and no email is missing (`AFAssumption`).
- `MaxTime + MaxDrift < Half`: the bridge's clock is far from the end of `int64`, so
  that a time of the clock is never taken for one that wrapped around; payloads may
  bear any `int64` (`Stamp`, in `CVAssumption`).
- In `Coz` too, clocks show times far from the ends of the integers (`TimeAssumption`): without it
  a difference that wraps around could fall into the window.
- Bytes are numbers up to 255, zero is one of them, a coordinate has at least one,
  and the length of a digest fits a byte (`BytesAssumption`).
- `BridgeAssumption` says what both parts of the bridge assume of the constants they
  share. The parts' own assumptions are derived from it in `Bridge_proofs`
  (`CVAssumed`, `AFAssumed`), and not made again.
- The library calls the storage in the order written in `AuthFlow`; its own
  callback requires a completed request and saves a code as the bridge's does.
- `chrome.storage` performs operations in the order they were asked for.
- Fairness in `ChallengeVerify`: the Go scheduler runs each request in progress
  (`VerifyStep` of each handler), and time passes. In `SignIn`: messages,
  requests and callbacks are dealt with, and a message starts the worker it
  needs; in `KeyPages` the same of the page's messages. In `Locks` each goroutine in a call goes on, with strong
  fairness (`SF`), because a waiting goroutine gets a mutex that is given back
  again and again: Go hands a starved `Mutex` to the one that has waited longest,
  and an `RWMutex` alternates between a writer and the readers that wait for it.
  No fairness is assumed of users, of the environment's disturbances, or
  that the Wasm module loads well rather than badly.

## 6. What is proved

All theorems are about any number of connections, requests, tokens, goroutines,
keys, bytes and restarts, from the assumptions of section 5. Nearly none of the
properties is inductive. Each proof module begins with an invariant `IndInv` that is,
and proves `Init => IndInv`, one lemma per action for `IndInv /\ [Next]_vars =>
IndInv'`, and the properties from it. TLC finds
each of these invariants to hold on the instances of section 4: `challenge_verify`
checks it as it stands, the other runs do with the definitions of the proof module
added to their `MC…` module.

### The challenge: `ChallengeVerify_proofs`

| Theorem | States |
|---|---|
| `TypeCorrect`, `Invariance` | `Spec => []TypeOK`, `Spec => []IndInv` |
| `NonceOnceHolds` | a nonce serves at most one sign-in |
| `OwnLatestChallengeHolds` | a sign-in past the deletion uses its own connection's last challenge |
| `SignedNearIssueHolds` | an accepted signature bears a time within the drift and the TTL of the issue, or one that lies 2^63 seconds before a moment at which the challenge was valid |
| `RegisteredSignerHolds` | an accepted signature was made with the registered key |
| `OneTimeNonceHolds` | the handlers implement `OneTimeNonce` |

`NonceOnce` alone allows a state in which two handlers have both matched one nonce.
`IndInv` adds what excludes it: a stored challenge is the last one of its connection
and unused (`StoredInv`); a request in progress was timely at a moment after its nonce was issued (`RequestInv`); and a
request that has matched its nonce *owns* it until it answers (`MatchedInv`): the
nonce was issued to its connection, is that connection's latest and is unused, and
it is still stored before the deletion and gone after it. Only the handler of that
connection can change these facts, because no two handlers share an address.

The refinement is proved action by action: a challenge makes one nonce outstanding
and spends the one it overwrites; `GetMatch` claims the stored nonce, and `GetMissing`
spends one that has expired; `VerifyDelete` keeps the nonce claimed when the signature
is good and spends it otherwise; `VerifyComplete` redeems it; a restart spends all that
are outstanding or claimed at once; the other steps stutter. That a step changes the state of no *other* nonce is where
`MatchedInv` is needed.

### The code flow: `AuthFlow_proofs`

| Theorem | States |
|---|---|
| `Invariance`, `TypeCorrect` | the inductive invariant, and the types |
| `RequestNamesUserHolds` | a complete request's subject and email are those of one user who verified it; before, it names nobody, or a hinted subject who verified another request, with no email |
| `TokensAgreeHolds` | a token with an email names a user who verified its request; the tokens of one exchange agree, when the request was complete as its code was looked up and one user only completed it |
| `CodeGrantHolds` | the storage implements `CodeGrant` |

An exchange reads a request through a pointer, unlocked, at four different times,
and others may complete or delete the request in between. `CodeInv` and `PointerOK`
say that a code or pointer always leads to an object that was created, and that it
does not become incomplete; `ClaimsOK`, that whatever was read so far names a user
in `verified[req]`, maybe a different one each time, or without an email the one in
`hint[req]`. That an email is never read together with a hinted subject is the order
of the reads: the email comes from a completion, and the subject, read later, from
that one or a later one. A new request's hint is the subject of a token (`HintsKnown`),
so by `ClaimsOK` of that token's exchange it has verified some request, or was a hint
itself. `verified` only grows
(`Grows`), so that steps of others keep this. In the refinement the object that an
exchange holds may be deleted from the map while the grant goes on: the abstract
request is closed once, by the exchange that ends first.

### The tokens: `TokenStore_proofs`

| Theorem | States |
|---|---|
| `Invariance`, `TypeCorrect` | the inductive invariant, and the types |
| `RenewedOnceHolds` | of the calls that renew one refresh token at most one succeeds |
| `AccessFollowsRefreshHolds` | an access token goes with the refresh token it was sent with |
| `LogoutEndsFamilyHolds` | a family that was logged out has no refresh token again |
| `FamilyKeepsOwnerHolds` | renewed tokens stay those of the user and application that signed in |
| `RotatingTokenHolds` | the maps implement `RotatingToken` |

A renewal remembers the token it read, and the token may be gone when it looks
again. What holds the maps together is `OnePerFamily`: the calls that descend from one
sign-in have one refresh token among them. `StoreInv` says that it is stored under the
id of the call that sent it, together with that call's access token, and `CallInv` that
a call in progress stays in the family of the token it read. `FamilyKeepsOwner` is
stated with the proofs and checked by no run of its own.

### The bridge: `Bridge_proofs`

| Theorem | States |
|---|---|
| `PartsInvariance` | both parts' invariants hold in the composition |
| `PartsKeptHolds` | the composition implements both parts |
| `BridgeInvariance` | whoever completed a request proved itself for it |
| `TokenSubjectProvedHolds` | a subject in a token proved itself for the token's request, or it was hinted at, the token has no email, and it proved itself for another request |
| `CompletionsNeedNoncesHolds` | no more requests are completed than challenges were redeemed |

The module instantiates the proofs of both parts, whose lemmas are then cited as they
stand. The steps of the bridge are those of a part, with the other part unchanged,
but for `VerifyComplete`: that it is a step of `AuthFlow` needs that the user it names
is in the table (`CompletesUser`), which is `MatchedInv` of the other part. So the
two invariants are proved together, and the parts' specifications follow. `ProvedInv`
relates the histories of both: every user in `verified` has an accepted sign-in that
names the request. `CompletionsNeedNonces` follows by an injection of the completions
into the nonces that were used: a nonce has at most one sign-in (`NonceOnce`), and a
sign-in names one request and one user.

### The worker and the pages: `KeyHolder_proofs`

| Theorem | States |
|---|---|
| `WorkerInvariance`, `WorkerTypeOK` | the inductive invariant of the worker, and its types |
| `KeyIsDurableHolds` | storage settles on the last key the user was told is set |
| `LoadedKeyIsLatestHolds` | a worker that has heard from storage has this key, unless one was set while it waited |
| `PagesAreWorkers` | the worker with its pages implements the worker alone |
| `PagesInvariance`, `PagesTypeCorrect` | the inductive invariant of a page, and its types |
| `PageShowsLatestHolds` | a page with nothing under way shows the last key set |
| `SignInsAreWorkers` | a sign-in with the worker implements the worker alone |
| `SignInInvariance`, `SignInTypeCorrect` | the inductive invariant of the login page, and its types |
| `RedirectProvedHolds` | the login page goes on only after the bridge accepted its own challenge |

`KeyIsDurable` is inductive with the types. `LoadedKeyIsLatest` needs that the
answer to the startup get is the last key: `GetInv` says that in an undisturbed
life the get is the last operation in the queue, so nothing is left to do when it
is answered, and what storage settles on is what it holds; `LifeInv`, that the
gets before it are of earlier lives; `MemoryInv`, that the answer and the global
agree with it.

`PageShowsLatest` speaks of a page with nothing under way, and its invariant of every
other moment. `Stages` follows a page: it polls, one question at a time (`Waits`), and
never again once it knows (`Polled`); an undisturbed one gets the last key from
storage while it shows none (`Loads`), has its identity derived (`Asks`), and when it
has taken the answers under way shows it (`Ends`). The answers are taken in order, so
the last one with a key decides. A page that hears of a failure
(`Failed`) or of a disturbance leaves these stages.

`RedirectProved` relates the page's nonce to what the bridge accepted, several messages
apart. The page may be clicked before its challenge has arrived, and the nonce it shows
then is another one than the one it sent. `SignInInv` has what excludes that such an
attempt is taken for the page's: the nonce is set once (`FetchedOnce`), an attempt
has the page's nonce or none (`OwnNonce`), and the bridge says "ok" only to a nonce
(`Proven`). The button is enabled only by the one answer to the content script's
question or by the end of an attempt (`ShownOnce`), so no two attempts are under way.

### The signing key: `SigningKey_proofs`

| Theorem | States |
|---|---|
| `KeyInvariance` | `Spec => []IndInv` |
| `ServedKeyIsSavedHolds` | a bridge with a key path serves the key its next start loads |
| `IssuedWithSavedKeyHolds` | the tokens of all starts have one key, up to a failed read |
| `IdNamesKeyHolds` | an id never names two keys, also where keys are lost |

`FileInv` says that what the file holds is the key of every token, and that while a
new key is being saved there is no token yet. So the file may be torn only before the
first token. `IdInv` adds that every id in use was given out, and so cannot be given
out again.

### The locks: `Locks_proofs`

| Theorem | States |
|---|---|
| `Invariance` | the inductive invariant |
| `LocksMatchHolds` | every path gives back what it took, in its mode |
| `OnlyKnownRacesHolds` | no races but the listed ones, among any number of goroutines |

Two things are proved. The first is about the paths alone, without a state: every path
of every call is `Good`. It takes and gives back in turn, starting and ending with
nothing (`Closed`), and each access to a map stands where the mutex is held in the
mode it needs, apart from the accesses in `Free`, which are the known races
(`Guarded`). Goodness is kept by concatenation and by wrapping a body in a lock, of
which the paths are made, loops of any length included. The second is about the
state: what is left of a goroutine's path tells what it holds, so `owner` and
`readers` can be read off `todo` (`LocksMatch`). `Drained` adds that a writer that
waited for the readers keeps them out until it unlocks. Two accesses to a map that are
both guarded cannot meet then.

### The encodings: `Coz_proofs`

| Theorem | States |
|---|---|
| `Invariance`, `TypeCorrect` | the inductive invariant, and the types |
| `TimelyExact` | `VerifyTimeliness` accepts the drift's window and one timestamp more |
| `GenuineAcceptedHolds` | the action property `GenuineAccepted` |
| `UsersOwnKeyHolds` | no registration replaces another identity's |
| `ThumbprintsAgreeHolds` | on exactly which keys Go's and Rust's thumbprints agree |
| `SHA256NeverHex` | no base64url text of a SHA-256 multihash reads as hex |
| `MultihashesReadBackHolds` | which texts of a multihash are read back |

They hold for every width of the coordinates and of the integers. `GenuineAccepted`
rests on two facts about bytes: what is written at a fixed width and cut in halves
gives the same numbers, whatever zeros are trimmed; and two coordinates of one width
with equal trimmed bytes are equal, so that numbers tell keys apart. `IndInv` says that
every entry of the table and the message under way belong to some identity and are
tied to it by the thumbprint.

`TimelyExact` splits on whether the difference wraps around. `SHA256NeverHex`: the
second base64url character of a SHA-256 multihash holds two bits of the function's
code, 18, and four of the length, which puts it among the letters that are no hex
digits. For `MultihashesReadBack` the four characters that stand for three bytes are
shown to give the bytes back, then the last one, two or three bytes of a text, then
the text; no induction is needed, because the encodings are functions of the position.

The attempt to prove `GenuineAccepted` corrected the model: a text used to count as
prefixed when its first byte was 4, where a coordinate without a prefix may begin
with a 4 as well. The code looks at the length, and so does `WellFormed` now; the
instance of `coz` has such a coordinate.

### Only model-checked

- Liveness: `GoodSignInAccepted`, `ClickAnswered`, `GoodClickSignsIn`,
  `ReloadEnablesButton`, `PollEnds`, `CallsEnd`. It rests on fairness, thus on
  ENABLED, which is out of the prover's reach.
- The violated runs, whose counterexamples are TLC's.

## 7. What is not modelled

- What a data race does: the Go runtime may end the process at one of the races
  on maps. The effect is a restart, which the models allow at any step. A string
  field that is read while it is written is taken to be the old one or the new one.
- The order of a payload's fields: Rust serializes the payload once for the
  signature and once more in the envelope, from the same value, and Go checks the
  bytes it received.
- The registration of clients, at startup; the values that userinfo and
  introspection return, which change no state (`Locks` has their lock operations);
  `CheckUsernamePassword`, which only tests call.
- Routing, CORS, rendering, logging and configuration; the popup's own signature
  of the challenge it fetched, which completes no auth request.

## 8. Plan

Done: all components of section 1 modelled and checked, and their safety proved.

Next: what a logout and a renewal leave to the other sign-ins of the same user, as
properties of `TokenStore`; a statement about the whole sign-in, from the page's click
to the token, which would compose `SignIn` with `Bridge`.
