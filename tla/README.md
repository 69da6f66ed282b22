# ShareLock: TLA+ models and proofs

ShareLock is an end-to-end encrypted file store with sharing. Clients encrypt
everything and keep it in an untrusted key-value server; access to a file is a
chain of encrypted records, and revoking a user means re-encrypting the file
under a new key and telling the users who may stay. This directory models the
client services, the store they talk to and the command line in front of them,
model-checks the models with TLC and proves the main invariants with TLAPS.

## The system

| Component | State | Operations | Modelled by |
|---|---|---|---|
| `UserService` (`encryption/service.go`) | user structs in the datastore, two public keys per user in the key store | `InitUser`, `GetUser`; `saveUser` (`utils.go`) | `ShareLock`; `Registration` |
| `FileService` | `Access`, `MailboxNode`, `Inode` and block records | `StoreFile`, `LoadFile`, `AppendToFile`, `ListFiles` | `ShareLock`; `ConcurrentClients` |
| `InvitationService` | invitations, the `Children` map of an `Access` record | `CreateInvitation`, `AcceptInvitation`, `RevokeAccess` | `ShareLock`, `SharedFiles`, `Revocation`; `ConcurrentClients` |
| record names (`service.go`, `utils.go`) | none | hashes of concatenated names, keys derived from the master key | `Naming` |
| encryption utilities (`utils.go`, `File.go`) | none | sealing, key derivation, cutting into blocks | operators of `ShareLock` |
| storage adapters (`memory.go`) | two maps, a local key cache | `Get`, `Set`, `Delete` | `Put`, `PutAll`; the cache in `Registration` |
| `app.Client` (`app.go`) | the logged-in user struct | forwards to the services | `sessions`, `Next`; `CommandLine` |
| `userlib` client protocol | one connection per call | GET, SET, DELETE with status codes | `KVServer` |
| KV server (`internal/server`) | badger store, one goroutine per connection | accept, handle a request | `KVServer`, `KVStore` |
| hosts and session files (`config.go`) | two JSON files | load, change, save | `CommandLine`, `HostTable` |
| command line (`cmd/client`) | none of its own | dispatch, log in from the session file, run one operation | `CommandLine` |
| `netstream` | none | copies bytes over TLS | no (pure I/O) |

The services call the datastore and the key store through two small interfaces;
a client holds one user struct in memory and passes it to every operation.
Clients never talk to each other: they share only the datastore and the key
store. A file is reached by following pointers,

    <user, filename> -> Access -> MailboxNode -> Inode -> blocks

where `Access` is sealed under a key derived from the password and the file
name, `MailboxNode` under a random mailbox key kept in `Access` (and in the
invitation, and in the sharer's `Children`), and the inode and the blocks under
the file key kept in the mailbox. Every user of a file has a mailbox of their
own; all mailboxes of a file hold the same file key until somebody revokes.

What is hard here: sequences of invitations, re-shares, overwritten names and
revocations by different users; sessions whose user struct is stale;
operations of several datastore calls that interleave, or that a crash cuts
short; a wire protocol whose error replies are hardly looked at; commands that
share two files without a lock. `PROJECT.json` lists these hazards with their
lines and the properties that cover them; where the code has no protection and the
properties exempt the case, the hazard has no property but a note.

What makes each part correct: keys in stored structs, in sessions and in the key
store agree (users); every pointer opens and every file is in one piece (files);
the revoked stay out and the others stay in (sharing); what holds serially and
how much of it survives concurrency and deaths (clients); every call is one
access to one table and comes to an end (store); a command that says ok has done
what it says (command line).

## Modules

`ShareLock` is the core. Its variables are the datastore split by kind of
record, the key store, the sessions' user structs, and the counter `fresh` from
which random UUIDs, keys and key pairs are drawn. A sealed payload is the pair
of the key it was sealed under and its plaintext; it opens under that key only.
Public keys and private keys of one pair are one number. Each exported method
that changes state is one action with the code's checks as guards:

| Action | Code |
|---|---|
| `InitUser`, `GetUser` | the methods of `UserService` |
| `StoreFile`, `AppendToFile` | the methods of `FileService` |
| `CreateInvitation` | the whole method, when the recipient exists |
| `CreateInvitationFails` | the error return of line 466, after the recipient's mailbox has been stored |
| `AcceptInvitation`, `RevokeAccess` | the methods of `InvitationService` |

Every other error return comes before the first write and leaves the state as
it is. The one exception in the text of the code, an error in the middle of
`RevokeAccess`' block loop, is unreachable when operations run one at a time:
that is `FilesWhole`. `LoadFile` and `ListFiles` change nothing; `FileBytes` is
what `LoadFile` returns to whoever can open the inode.

Operations are atomic in this module: it describes serial executions by any
number of sessions. The definitions called slips are plausible mistakes in the
definition that follows them; nothing uses them, and putting one in the place
of its neighbour makes a property fail.

`SharedFiles` is the abstract specification: users, names, capabilities and
files, no cryptography. A capability grants access while it is in `alive`;
`Revoke` kills all capabilities of the file except the revoker's new one and
the revoker's other kids. `ShareLockRefinement` maps mailboxes to capabilities
and states that `ShareLock` implements it.

`Revocation` adds history variables to `ShareLock`: the users a mailbox was
handed on through (`line`), the owner's current mailbox of each file (`root`),
and the mailboxes the owner has cut off (`cut`: those handed to or through the
revoked user, and whatever is handed on from them later). No step is restricted.

`ConcurrentClients` extends `ShareLock` with the same methods one storage call
at a time. `call[s]` is the method session `s` is in: what it has read and drawn
so far, and `todo`, the `storage.Set` calls whose content is settled, in the
code's order. A read, with the computation up to the next storage call, is one
step (`GetAccess`, `GetMailbox`, `GetInode`, `GetBlock`, `GetChild`, ...); a
write is one step (`SetNext`); between two steps any other session may act. What
a storage call is worth is what `KVStore` says and `KVServer` is shown to
implement: it takes effect at one moment, but a `Set` may be refused without the
client noticing (`RefusedSet`), and one whose client dies while it waits for the
reply is applied at any later time, or never (`CrashInSet`, then `LateSet`;
`Crash` for a death with nothing on the way). A dead client's call counts as in
progress until its last `Set` has arrived, so whatever is called meanwhile
overlaps it; then the session is free again (`Gone`). `SerialClients` lets one
call finish before the next begins and states that the result is a step of
`ShareLock`: the two descriptions of each method agree. Initially the users have
registered and the owner has stored a file and shared it (`SetUp`), a state of
`ShareLock` with its numbering. Three history variables record which methods
were called by whom (`begun`), which were in progress at the same time (`mixed`)
and in which a client died (`died`), a fourth of which methods a `Set` was
refused (`refused`): the code has no locks and no transactions, so a property
that a method keeps on its own may end where two methods overlap, and each
property names the overlaps and deaths that it does not survive.

`Registration` splits `InitUser` into its check, the two key store writes and
the write of the user struct, over the key store's local cache and both semantics of
`KeystoreSet`: a server overwrites, the in-memory store refuses. Which of the two
the processes use is chosen initially (`connected`); in memory one test follows
another, with or without clearing the key store (`NextTest`). An attempt draws
one number for its two key pairs. A client may die between two steps (`Crash`) or
inside one of the three `Set`s, which the server then applies later (`CrashInSet`,
`LateSet`), and the server may refuse any of them, which `InitUser` does not
notice. `contended`, `refused` and `leftover` record overlapping attempts, refused
`Set`s and keys an earlier test has left.

`KVServer` is the remote store from both ends: `Dial`, `WriteOp` in pieces,
`ReadReply` and `ReadPanics` in the library; `Accept`, `ReadOp`, one badger
transaction with its reply, and the end of `handleConn` in the server; lost
connections, dying clients, and server crashes and restarts in between.
`KVStore` is what callers may rely on, one table with atomic operations, and
`KVServerRefinement` maps one to the other: a call takes effect when its
transaction commits, possibly after its caller has given up. A request the
store refuses has no effect; only `keystoreSet` says so, and what the other
functions return then is left open (`Anything`), because the library returns the
error text as a value or reports success.

`CommandLine` has one process per command. A step is one access to `.hosts` or
`.session`, or one call of the user service; `os.WriteFile` is an open that
truncates and a write, so other processes, deaths and errors come in between,
and two texts may be written over each other (`Torn`). A server is the accounts
it holds; what the services do there is in the other modules. `HostTable` is
what the host commands promise (in the words of the usage text) to somebody who
works at one terminal without faults, while no other terminal has run a command
(`Alone`), the only case the two unlocked files are made for.

`Naming` has the UUIDs of user structs and access records as concatenated texts,
and the keys these records are sealed with as what they are derived from: user
name, password and, for an access record, file name. `InitUser`, `GetUser` and
`StoreFile` are reduced to the records under such UUIDs.

The `MC` modules instantiate these for TLC. The theorems about `M` are in
`MProofs`: `ShareLockProofs` (with the refinement of `SharedFiles`),
`RevocationProofs`, `ConcurrentClientsProofs`, `NamingProofs`,
`RegistrationProofs`, `KVServerProofs` and `CommandLineProofs`.
`ClientsSharingProofs` continues `ConcurrentClientsProofs` with revocation
(`SharingInductive` and what follows from it).

## What TLC checks

| Run | Instance | Result |
|---|---|---|
| `sharing` | 3 users with a session each, 1 file, 5 mailboxes | `CutStaysCut`, `RecordedShareesRead`, `RootPrivate`, `LinksOpen`, `ImplementsSharedFiles` hold |
| `files` | 2 users, 2 sessions, contents of 0, 1 and 3 bytes with blocks of 2, 2 inodes, 3 mailboxes, 3 blocks | `TypeOK`, `KeysPublished`, `SessionsGenuine`, `FilesWhole`, `SizeMatches`, `ContentOnlyGrows`, `ImplementsSharedFiles` hold |
| `serial` | 2 users and an unregistered one, 2 sessions, 3 calls of any method | `ImplementsShareLock` holds |
| `clients` | 3 users, 2 sessions of the owner and a sharee or both of the owner, any 3 calls, or 2 and a death, a late or a refused `Set` | `NeverCorrupted`, `LoadsAreSnapshots`, `AppendsKept`, `SlotsReadable`, `OwnerReads`, `RevokedStayOut`, `SharingTreeComplete` hold |
| `datastore` | 2 callers, 2 calls of any of the 5 functions, 1 key, 2 values, 1 fault of any of 4 kinds, fair | `WholeRequests`, `ImplementsKVStore`, `CallsEnd`, `HandlersEnd` hold |
| `registration` | 2 names, 3 clients, 4 attempts, 2 deaths, 1 refused `Set`, 2 tests, connected or in memory | `KeysAgreed`, `OneRegistration` hold |
| `command_line` | 2 terminals, one with every command, one with the session commands; 4 commands, 1 fault | `SessionsAccepted`, `LoginSticks`, `ImplementsHostTable` hold |
| `revoked_lose_access` | ordinary use, 4 registered users, 7 mailboxes | `RevokedLoseAccess` is violated |
| `remaining_sharees_read` | ordinary use, 4 users | `RemainingShareesRead` is violated |
| `records_kept` | 3 usernames, 4 filenames (one is `userStruct`) with many coinciding concatenations, 2 passwords | `RecordsKept` is violated |
| `use_sets_default` | 1 terminal, the host commands | `UseSetsDefault` is violated |
| `legacy_commands_work` | 1 terminal, the old command names | `LegacyCommandsWork` is violated |

Bounds. `MaxInodes`, `MaxMailboxes` and `MaxBlocks` limit how many records are
created; every run is finite because each `StoreFile`, invitation and revocation
creates a mailbox. Five mailboxes are an owner's, two invitations and two
revocations (or three invitations and one): a mailbox cut off before, and one
made between, the two re-keyings. One session for each user is enough where the
question is about stored records; in `files` either of two sessions logs in as
any user, which a stale user struct needs. Contents of 0, 1 and 3 bytes with
two-byte blocks cover no block, a partial one, and a full one followed by a
partial one, before and after appends. `sharing` lets users register before the
first file is stored only and has no block for an append (`OwnSessionsSpec`);
`files` has both, and the theorems are about `Spec` and `HSpec`. Users are
interchangeable, so symmetry is used. The system can always log in again, so no
run of the core ends in a deadlock.

The concurrent models are finite because calls, connections, attempts and
commands are counted (`MaxEvents`, `Conns`, `MaxAttempts`, `MaxCommands`), and so
are faults (`MaxFaults`, `MaxCrashes`, `MaxRefusals`); when the counts are used
up the system rests, so these runs do not check for deadlock: `CallsEnd` and
`HandlersEnd` say that no call and no server goroutine gets stuck. Two sessions
are enough for a conflict on one record, which is what all interference goes
through. In `clients`, `MaxEvents` is three: two calls that overlap and a third
that meets what they have left, or a fault in place of one of the three; a
single death already produces every cut through a method's writes, with the last
write lost or late. `datastore`
needs no third call to observe the other two, because the refinement compares
the store itself with the abstract table at every step; the store treats keys
independently, so one is enough. Four attempts at registration are two names
with a retry each, or one name with two deaths before it succeeds. Four commands
are a host, an account, a login and a command that depends on them.

Where a property of the concurrent models has exceptions (a pair of methods that
overlapped, a method in which a client died, a refused `Set`), they are cases in
which the code does not keep it: the properties say how far the code goes, and
what happens beyond is left open. The run contains the exceptional cases, but for
four exceptions of `RevokedStayOut` that the proof brought up and that need more
than the run has: an append that overtakes the revocation of an empty file writes
it back under the old key, for the revoked user to read; an owner who holds the
file under two names, by accepting an invitation to it, has two `Children` maps,
and a revocation under one name re-keys a user revoked under the other (six
calls); a user invited while `RevokeAccess` has only to return counts as revoked
and reads; and so does one whose new invitation was stored by a client that then
died. A late `Set` needs no exception of its own: a dead client's call counts as
overlapping until it has arrived, and an append that died before a revocation
and whose inode arrives after it is the case of an append that overtakes one.
`LoadsAreSnapshots` has no exception at all.

In `records_kept` the text `userStruct` is cut to one letter; what matters is
which concatenations coincide, and with the names chosen a file of one user
falls on a file of another, on another's account and on the user's own account.

"Ordinary use" excludes two odd uses of the API so that the counterexamples do
not depend on them: inviting somebody through whom the file came, and revoking
somebody who is not one's own sharee (`OrdinarySpec`). `EveryoneSpec` is the same
from the state in which all users have registered, each in a session of his own,
which leaves room for nine operations on the file.

Fairness. Only `KVServer` assumes any. `Progress` is weak fairness of each
library call and of each server goroutine: the Go scheduler runs what can run,
and a read on a connection whose peer is gone fails, because the kernel sends
resets and Go turns TCP keep-alive on. Nothing obliges anyone to call, a
connection to break, or the server to be restarted. Code and model have no
timeouts and no retries.

### What the violated statements show

- The README says revoked users lose access to all future updates
  (`RevokedLoseAccess`). A sharee who still has access and revokes somebody
  re-keys all mailboxes in the sharee's own `Children`, also one the owner had cut
  off: alice shares with bob and carol, bob invites carol too, alice revokes
  carol; bob shares with dan and revokes dan; carol accepts bob's invitation and
  reads. `CutStaysCut` is the strongest form that holds: the revoked stay out as
  long as the owner's mailbox opens the file, and it stops doing so at the moment
  of bob's revocation.
- The README says that re-keying transparently updates the remaining sharees
  (`RemainingShareesRead`). Sharees of sharees are not re-keyed when the owner
  revokes somebody else. `RecordedShareesRead` is what holds: whoever is in the
  owner's `Children` reads.
- What was stored should be loaded (`RecordsKept`). Records whose concatenated
  names coincide replace each other; a file called `userStruct` falls on its
  user's own struct. `CollisionsDetected`, which is proved, is what holds: such a
  record does not open, because its key depends on whose it is.
- `host use <name>` should set a host as default (`UseSetsDefault`). With the name
  `default` it removes the entry.
- `runLegacy` is there for backward compatibility, but `userCommands` does not
  know the old names, so `storefile` runs without services and panics
  (`LegacyCommandsWork`).

### Where the properties that hold have exceptions

- A sharee may call `RevokeAccess`, and then locks the owner out: `OwnerReads`
  asks that only the owner has revoked.
- `ListsAllFiles` is about one session at a time: two sessions of one user
  overwrite each other's file list.
- A second invitation to the same user replaces the first in `Children`; a user
  who accepted the first is lost at the next revocation.
- Methods are not isolated from each other: of two appends one is lost; of two
  registrations of one name both may succeed; an append that overtakes a revocation
  writes the inode back under the old key; of two invitations one drops out of
  `Children`; of two revocations each hands the new key to the user the other one
  revokes. What survives is that a load returns one state of the file or an error,
  and, while nobody overwrites or revokes, that nobody meets a damaged file.
- The last `Set` of a client that died may arrive after other calls have begun and
  finished. For the properties it overlaps them: an append that died can still
  undo a later append or re-keying, a registration that died a later one.
- `RevokeAccess` re-encrypts in place before the new key is stored, and
  `StoreFile` replaces the access record before the file it points to exists: a
  death in between loses the file.
- An error reply of the server is a value to `DatastoreGet` and a success to
  `DatastoreSet`, and the key store adapter drops the one error that is reported.
  So a client may go on as a user whose struct was refused; `OneRegistration`
  counts the users whose struct was taken.
- In memory, the local key cache hides a key that the shared store has refused, so
  a test that does not clear the key store registers users whose keys do not agree.
- Concurrent `host` commands lose entries; a login says ok when its session could
  not be saved; `init` without a configured host creates an account that ends with
  the process.

## What is proved

All for every number of users, passwords, names, sessions, terminals, callers,
connections, contents and faults, and every positive block size. That random
values do not collide, that derived keys are distinct and that a payload opens
under its own key only are built into the models.

The assumptions, each named in the module that declares the constants: block
sizes are positive, contents are byte sequences and bounds are natural numbers
(`BlockSizeAssumption`, `ContentsAssumption`, the two `BoundsAssumption`s,
`FaultsAssumption`); the users of the set-up are distinct and its parameters well
typed (`CircleAssumption`); a process holds finitely many sessions
(`SessionsAssumption`); the command lines entered are ones that exist
(`OfferedAssumption`); and the values that stand for nothing stored, no file, a
torn file or no reply are none of the records they stand in for
(`AbsentAssumption`, `NoCallAssumption`, `FilesAssumption`, `SpecialsAssumption`,
`RepliesAssumption`).

### The services, one operation after the other

- `TypeCorrect`: `Spec => []TypeOK`, inductive by itself.
- `KeysAgree`, `KeysArePublished`: stored structs, published keys and sessions
  agree. Inductive with `TypeOK`; the point is that `saveUser` writes a struct
  that differs from the stored one in its file list at most (`SessionKeys`).
- `AllFilesListed`: with one session, `ListFiles` misses no file. Inductive with
  the session's own list between the access records and the stored list.
- `Inductive`: `Spec => []IInv`, with
  `IInv == TypeOK /\ FreshUnused /\ Identities /\ LinksOpen /\ FilesWhole`.
  `LinksOpen` and `FilesWhole` are not inductive without `FreshUnused` (a new
  UUID could hit an old record), and the access record of a user opens after a
  later login only because of `Identities`. `PointersOpenAlways` and
  `FilesStayWhole` follow.
- `ServicesImplementSharedFiles`: `Spec => ImplementsSharedFiles`, one lemma per
  action. It needs `RInv == IInv /\ KeyPairs`: that no two users share a key
  pair makes an invitation one for a single recipient from a single sender. The
  hard case is `RevokeAccess`: the mailboxes alive afterwards are exactly the
  ones `SharedFiles` keeps alive, because a mailbox is alive when its file key is
  the inode's and the new key is in no other mailbox; the chunks of a file are
  the plaintexts of its blocks, which re-encryption leaves alone.
- `FlattenChunks`, `SizesMatch`, `BytesOnlyGrow`: joining what `ByteToBlock` cuts
  gives the content back for every block size and length, so the recorded size
  is the number of bytes stored and a file's bytes are only extended. These are
  about `FlattenSeq`, hence inductions: the library's induction rules take an
  operator as parameter, so `SetInduction` derives one for sets of numbers from
  the minimum of a non-empty set (`WFMin`, `NatLessThanWellFounded`), and
  `SeqSetInduction` one for sets of sequences.
- `RevocationInductive`: `HSpec => [](IInv /\ HInv)`. `CutStaysCut` is not
  inductive: the owner's next revocation re-keys the owner's children, so none
  of them may be cut. `RootChildren` says so, and says that each came straight
  from the owner to the user it is recorded under, so none of those that remain
  came through the user being revoked. A sharee's revocation could re-key a cut
  mailbox, but then the owner's mailbox is not among the re-keyed ones
  (`RootPrivate`), the owner can no longer open the file, and the statement asks
  nothing. `RevokedStayOut`, `RecordedShareesKeepReading` and
  `OwnersMailboxStaysPrivate` follow.

### The services, one storage call at a time

- `ClientsInductive`: `ClientsSpec => [](CTypeOK /\ (Heeded => BInv))`, for any
  number of sessions, calls in progress, deaths and late `Set`s. `CTypeOK` says which method can be
  where, with what in hand. `BInv`: a block number that is stored or queued has
  one content for good, since only `RevokeAccess` writes a block again and it
  writes back what it has read (`BlocksSettled`); an inode is stored after the
  blocks it names, and so is the one a method still has to write
  (`InodesBacked`, `CallBacked`); and a `LoadFile` in progress has the first part
  of what it saw while the rest is still to be found (`Loading`).
  As all invariants of this section, `BInv` is claimed while no `Set` has been
  refused (`Heeded`): the writes after a refused one rely on it.
- `LoadsSeeOneVersion` follows: `ClientsSpec => [](Heeded => LoadsAreSnapshots)`.
  No exception for overlaps, deaths or late `Set`s is needed. That it also holds
  with refused `Set`s is checked by TLC only.
- `AppendsAreKept`: `ClientsSpec => []AppendsKept`. `AppendsKept` is about stored
  inodes, but an `AppendToFile` or `RevokeAccess` writes back an inode it has
  read before. `AInv` adds that the inode in hand covers what is due as well
  (`CallMeets`), that methods in progress together are in `mixed` (`Overlaps`),
  which excludes a second writer while the statement asks anything, and that a
  `StoreFile` in progress makes an inode that nobody else has (`OwnInodes`). The
  length of a `StoreFile` that has written its inode but not returned counts
  already (`Meets`): an append may finish before it.
- `KeysInductive`: `ClientsSpec => [](CTypeOK /\ (Heeded => BInv /\ AInv /\ KInv))`. While
  nobody has called `RevokeAccess` (`Calm`), what is stored and what is queued fit
  together (`AllKeyed`): a file has one key, one less than its inode's number, in
  every mailbox, in its inode and in its blocks; a pointer in an access record or
  an invitation leads to a mailbox that is stored before it (`LeadsBy`); and a
  block that two calls have queued has the same key in both (`QueueKeyed`), since
  an inode may wait in one queue for a block of another. `AllThere`: a mailbox
  leads to an inode that is stored or that a `StoreFile` in progress makes, so a
  reader misses the inode only if it overlaps that call, which `Overlaps` has
  recorded, or if that call died. `NobodyMeetsDamage` (`NeverCorrupted`) and
  `EverySlotReads` (`SlotsReadable`) follow. The argument needs `Absent` not to be
  a call (`NoCallAssumption`): a `StoreFile` that equalled it would have vanished.
- `IdentitiesInductive`: `ClientsSpec => [](Heeded => MInv /\ (Tended => TInv))`. `MInv`: a
  user struct, stored or in a session, holds the private halves of its own
  user's public keys, and what a call has queued is what that user's method
  writes, in the order of the code. `TInv`, while the owner does nothing to the
  file but invite, one at a time (`Tended`): whoever an invitation of the owner is
  for is in the owner's `Children`, or the `CreateInvitation` that stored it has
  the access record still to write. The second half is why
  `SharingTreeComplete` is not inductive. `ChildrenComplete` follows.
- `SharingInductive`: `ClientsSpec => [](Heeded => \E g \in Labels : SInv(g))`. Who may read
  what depends on facts that are nowhere in the state: whose mailbox a number
  is, which inode it leads to, which key seals it, which method drew it, under
  which name an inode was first stored, which inode a block belongs to. They are
  settled when the number is drawn, so the invariant says that some account of
  them, `g`, fits the state, and a step that draws numbers extends the account.
  The parts of `SInv`:
  - `LInv(g)`, always: every stored record, every record in a call's hands and
    every queued write fits the account; a file's blocks are distinct and its
    own.
  - `AtHome(g)` and `KeysHeld`, while only the owner revokes, accepts nothing, and
    no revocation overlaps what it cannot overlap (`Orderly`): the owner's record
    under a name leads to a file stored under that name, so two names of the
    owner never lead to one inode; and the file key that an append or a
    revocation has in hand is the inode's, until the revocation writes the inode.
  - `CutInv(g)`, while moreover no `CreateInvitation` was cut short
    (`Thorough`): no mailbox of a user who has been revoked, and is not being
    invited again, holds the key of the inode; no such user is in the owner's
    `Children`, stored or in hand; and a revocation in progress hands its key only
    to users it spares (`RevokeClean`). `RevokedUsersStayOut` follows.
    `RevokedStayOut` alone is not inductive: the next revocation re-keys whoever is
    in `Children`, and during one the new key spreads before the inode is written.
  - `OInv(g)`, while moreover nobody died in `RevokeAccess` or `StoreFile`
    (`Unbroken`): the owner's mailbox holds the inode's key, unless a revocation
    still has its access record to write, which holds a mailbox with the new key
    (`Replacing`); all blocks are sealed under the inode's key, unless
    a revocation is in the middle of them, and then those it has left have the
    former key and the others the new one (`RevokeReads`). `OwnerKeepsReading`
    follows. That the blocks of a file are distinct matters here: a block
    listed twice would be read again under the key it no longer has.

### Names and registration

- `CollisionsAreDetected`: `NamingSpec => []CollisionsDetected`, for all usernames,
  filenames and passwords, whichever concatenations coincide. The invariant is
  `RecordsGenuine`: every record is some user's struct, or an access record that is
  where its user looks for it and holds what that user stored last under the name.
  A key tells whose record it seals, and of which file (`StructKeyTells`,
  `PersonalKeyTells`), so one that opens is one's own.
- `RegistrationInductive`: `RegSpec => []RegInv`. Neither `OneRegistration` nor
  `KeysAgreed` is inductive: an attempt that has passed the check must be the
  only one for its name (`OneAttempt`), what it has published must be what it
  will store (`StoreAgrees`), and a cache must hold what the store holds
  (`CachesAgree`) unless the name is contended, a `Set` was refused or a test has
  left a key. A client that died in a `Set` keeps its attempt until the `Set` is
  applied, so `OneAttempt` covers late `Set`s: while one is on its way, another
  attempt makes the name contended. `NameGivenOnce` and `PublishedKeysAgree` follow.

### The store

- `ConInductive`: `ConSpec => []ConInv`. For each connection, where the library
  is in a call and where the handler is determine each other up to what is in
  flight: how many pieces were sent and read, and whether a reply is there.
  The type invariant `ConTypeOK` is its first part; `OnlyWholeRequests` follows.
- `ServerImplementsKVStore`: `ConSpec => ImplementsKVStore`. A call takes effect
  at the handler's transaction and returns at `ReadReply`; a lost reply, a crash
  of the server or the death of the caller is the abstract call giving up,
  before or after its effect. The fairness of `KVServer` is not used.

### The command line

- `CliInductive`: `CliSpec => []CliInv`. A session is written by a process that
  keeps the credentials it was accepted with from the user service's answer to
  the write (`SaveAccepted`); a host command keeps the table it loaded and the
  table it will write, which differ by what it was asked (`EditAsked`), and at a
  terminal used alone the file is the loaded one or truncated (`HostsMine`).
  `SessionsAreAccepted`, `LoginsStick` and `HostCommandsRefineTable` follow; what
  `host use default` does is left open in the last.

Only proved, and in no run: `ListsAllFiles` and `CollisionsDetected`.

Only model-checked: the liveness properties `CallsEnd` and `HandlersEnd`, which
are out of the provers' reach, and `ImplementsShareLock`, that `ConcurrentClients`
executed alone is `ShareLock`. The latter holds for the bounds of its run: the
actions of `ShareLock` limit the number of inodes, mailboxes and blocks, the
methods taken apart are limited by the number of calls, and the one limit implies
the other only when the constants are chosen so. It compares two descriptions of
the same code; the theorems about either are proved separately.

## Plan

The modules of the plan are written, and every safety property that a passing
run checks is proved, `ImplementsShareLock` and the refused `Set`s of
`LoadsAreSnapshots` excepted. `ImplementsShareLock` could be proved with a
`ShareLock` whose bounds are constraints of the run instead of guards.

## Not modelled

Cipher, hash and signature internals, IVs, lengths and the JSON encoding; a
server that tampers with records (the datastore is taken as honest); `Delete`,
`SetWithTTL` and `Exists`, which nothing calls; `MemoryStorage` and
`MemoryKeyStore`, plain maps used by tests only; the bandwidth counters; where
the configuration files are (settled by the environment before the program
starts); `netstream`, which copies bytes and keeps no state; the TLS handshake;
flag parsing, logging and output. What badger loses when the machine loses power
is outside the repository: the models let processes die, not disks.
