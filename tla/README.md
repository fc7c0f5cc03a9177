# Verification of tid

TLA+ specifications of this repository, the TLC configurations that check them on
small instances, and proofs that TLAPS checks for every value of the constants.
Paths are relative to the root of the repository.

- Check a configuration: `tlc -workers 2 -config MCRoomSync.cfg MCRoomSync`
- Check the proofs of a module: `tlapm RoomAdmissionProofs.tla`,
  `tlapm RoomSyncProofs.tla`, `tlapm PeerHandshakeProofs.tla`, `tlapm RoomAppProofs.tla`,
  `tlapm PostFactoryProofs.tla`, `tlapm ArticleFactoryProofs.tla`, `tlapm FrontEndProofs.tla`,
  `tlapm FactoryListsProofs.tla` (the last takes some ten minutes)

`PROJECT.json` lists the components, the runs with what each checks, the lines of
code each definition stands for, the mutated definitions that show each property
can fail, the hazards of the code and the theorems.

## 1. What the repository contains

Two products share the repository. **Roomworks** (`signaling/`, `meta-app/`) is a
local-first application: rooms live in browsers, and a small service admits devices
and carries encrypted envelopes. The **factory** (`go-backend/`, `loops/`,
`frontend/`) turns podcasts and articles into scheduled posts. `local-relay/` is an
earlier transport experiment.

| Component | State | Operations | What makes it correct | Modelled in |
|---|---|---|---|---|
| Room admission, `signaling/server.go`, `internal/creationpermit` | rooms, permit uses, members, invites (SQLite, one connection) | createRoom, issueInvite, revokeInvite, redeemInvite | a permit buys one room; capacity is never exceeded; an invite seats one member; a retry gets the same seat, nobody else's | `RoomAdmission` |
| Mailbox and checkpoint, `signaling/server.go` | operations per recipient, one checkpoint per room, both expiring | postOperation, getOperations, put/getRoomCheckpoint, per-device checkpoints | quota, order within a mailbox | `RoomSync`, without expiry |
| Signals, `signaling/server.go` | expiring signals per session | postSignal, getSignals | only the addressee reads, in order | `PeerHandshake`, without expiry |
| Vault and synchronisation, `meta-app/src/rooms/{vault,roomService}.ts` | per room: encrypted state, applied operation ids, outbox, cursor (IndexedDB) | incrementCounter, syncMailbox, applyEncryptedOperation, createRoom, redeemInvitation | replicas converge; an operation counts once; none is lost or skipped | `RoomSync`, implementing `ReplicatedCounter` |
| Peer connection, `peer.ts`, `roomService.ts` | RTCPeerConnection, signal cursor, pending candidates, status | discoverPeer, connect, pollSignals, close, callbacks | the status tells the truth; no candidate is dropped | `PeerHandshake` |
| Room pages, `HomePage.tsx`, `JoinPage.tsx`, `RoomPage.tsx` | list of rooms, permit of the session, forms, the room shown | load, unlock, create, join, navigate | the list is the vault's; a spent permit is forgotten | `RoomEntry`, `RoomFrame` |
| Frame bridge, `bridge.ts`, `RoomFrame.tsx`, `public/room-frame.html` | pending requests, subscriptions, displayed value | update, subscribe, notifications | the frame ends up showing the stored value | `RoomFrame` |
| Service worker, `public/sw.js` | cache | install, activate, fetch | a reachable shell offline | – |
| Factory: sources and analysis, `handlers_factory.go`, `store.go`, `runner.go` | sources with a status, candidates | create, analyze, analyze-moment, delete | a source does not stay in `analyzing`; nothing outlives its source | `PostFactory` |
| Factory: clips and scheduler | clip and draft files, candidate status, scheduled posts | clip, trim, rewrite, schedule, tick, post-now | a clip shows its candidate's range; what is posted is what was scheduled, with the text it has | `PostFactory` |
| Factory: articles, `handlers_articles.go`, `articles.go`, `article_runner.go` | article sources and candidates, schedule kept in the candidate | the same life cycle | the same; a post is handed over once | `ArticleFactory` |
| Factory: active profiles, `store.go` | biases, prompts, mention dictionaries | get, put, seed | exactly one is active | `PostFactory` |
| Factory: ideas, `handlers_ideas.go` | ideas | create, patch, delete | no change is lost | `IdeasPage` |
| Factory front end, `frontend/` | what each page and card has read, typed and asked for | every button, and the answers | at rest a page shows what the server holds; controls come back | seven modules under `FrontEnd` |
| Factory: times, transcripts, attribution | none | parsing, clamping, merging of captions, footers | – | abstracted to ranges and texts |
| Local relay, `local-relay/main.go` | the active connection | accept, dial, send | frames are not torn | – |

**How the parts interact.** The service serialises everything: `newServer` limits
the pool to one connection, so a transaction or a single statement is atomic, but a
handler is not when it reads before `db.Begin`. A browser interleaves at every
`await`: a sync is eleven requests or vault accesses with user clicks, peer
messages, joins and page closes in between. Vault updates other than
`putRoom` in `createRoom` and `redeemInvitation` run under `withRoomLock`, a lock
of one page. `notify` wakes the sync and the frame; a wake-up during a sync is
dropped, and a four-second timer makes up for it. The factory runs each HTTP
request in a goroutine over SQLite without transactions around its
read-decide-write sequences, and calls processes that take minutes between the read
and the write. Its front end refreshes lists after each request with the closures of
the render in which the request was made.

**What is hard.** Concurrent redemptions and permits; answers that get lost and
requests that are repeated; syncs that stop half-way and repeat their posts;
joining while others synchronise; full mailboxes; overlapping polls and stale
callbacks in the peer; long-running factory jobs whose inputs change under them;
files that outlive the rows they belong to; answers that overtake each other in the
browser. `hazards` in `PROJECT.json` has the forty that matter most, line by line;
section 6 has the rest.

## 2. Modules

| Module | Role |
|---|---|
| `RoomAdmission`, `MCRoomAdmission` | rooms, permits, members and invites of the service; its instance |
| `RoomAdmissionProofs` | theorems about it |
| `ReplicatedCounter` | abstract specification: what a room promises its participants |
| `RoomSync`, `MCRoomSync` | vaults, syncs, joins, mailboxes and the checkpoint; implements `ReplicatedCounter`; its instances |
| `RoomSyncProofs` | theorems about it |
| `PeerHandshake`, `MCPeerHandshake` | the direct channel between two devices: attempts, signals, polls, status |
| `PeerHandshakeProofs` | theorems about it |
| `RoomEntry` | the home page and the join page, with the creation and redemption they call |
| `RoomFrame` | the page of a room, its frame, the bridge between them |
| `RoomApp`, `MCRoomApp` | composes the two: the pages of the room application |
| `RoomAppProofs` | theorems about it |
| `PostFactory`, `MCPostFactory` | sources, analyses, clips, drafts, profiles and the post scheduler |
| `PostFactoryProofs` | theorems about it |
| `ArticleFactory`, `MCArticleFactory` | articles, analyses, posts and their scheduler |
| `ArticleFactoryProofs` | theorems about it |
| `FactoryPage`, `ArticlePage`, `IdeasPage`, `SourcesPage` | the pages of the factories' front end |
| `CandidateCard`, `ArticleCard`, `SettingsPanel` | their cards and the panel of the profiles |
| `FrontEnd`, `MCFrontEnd` | composes the seven |
| `FrontEndProofs` | theorems about its cards, its panels, its editor and the page of ideas |
| `FactoryListsProofs` | theorems about its two pages of lists, and about `FrontEnd` as a whole |

What a room does is split where its parts share little: `RoomAdmission` decides who
gets a seat, `RoomSync` takes admitted devices as given and carries operations,
`PeerHandshake` decides when the channel of `RoomSync!DeliverPeer` exists, and
`RoomFrame` shows the counter that `RoomSync` keeps. `RoomEntry` takes the answers of
`RoomAdmission` as accepted or refused.

### RoomAdmission

The variables are the tables `v2_rooms` (`capacity`; 0 is a missing row),
`v2_creator_permit_uses` (`permitUse`), `v2_members` (`members`) and `v2_invites`
(`invites`), the clock `now`, the verified permits of createRoom requests in
flight (`creating`) and the history variable `grants` of successful redemptions.

`createRoom` is the one handler with a decision outside its transaction: it verifies
the permit, then waits for the connection. `VerifyPermit` is the first half,
`CreateRoom` and `RefuseRoom` are the transaction. `redeemInvite` is one transaction
with three successful outcomes, `Reconnect`, `AttachToMember` and `Admit`; its
rejections change nothing and are stuttering steps. Hashes are the values they
are hashes of, and random values are fresh. The UNIQUE constraints are `NoClash`.
`findMemberForRedemption` returns any matching row, so the actions take any
`m \in Matching(q)`. `Restart` loses requests in flight and nothing else. A
request that passes `VerifyPermit` may be dropped by `Restart` at any time, which also
stands for a client that gives up.

`Requests` in the instance are those a client derives from its identity (credential and
idempotency key bound to the invite), retries of them, and mixtures that
share a device, an identity or a key with another device.

### ReplicatedCounter and RoomSync

`ReplicatedCounter` has three variables: the increments made, the increments each
device has counted, and the value each device shows. A device counts its own
increment at once, learns of others in any order and any number at a time,
and shows the number it has counted. `RoomSync` implements it under the mapping `seen
<- vault.applied`, `shown <- vault.value` (property `CountsOnce`).

`RoomSync` follows `syncMailbox` from await to await. `RoomSync.stop` clears the timer
and leaves a sync in flight alone, so that after the room page is left and entered
again two syncs may work on one vault: `Pages` are the mounts of the room page, and
`DeviceOf[p]` is the device page `p` is open on. `sync[p].stage` is the await
page `p` is at, and the other fields are its local variables:

| Code | Action |
|---|---|
| `getRoom` at the start; the snapshot of the outbox and the cursor | `SyncStart` |
| `getDevices`, `discoverPeer`, `peer.send` | `SyncDevices` |
| `postOperation`, per item and recipient; a 429 | `PostOperation`, `PostRefused` |
| `getOperations` | `FetchOperations` |
| `applyEncryptedOperation`, per entry | `ApplyOperation` |
| `encryptCheckpoint` | `EncryptCheckpoint` |
| `putCheckpoint` | `PutCheckpoint` |
| `removeOutboxItem`, per item | `ForgetItem` |
| `updateSyncCursors`, if this sync has moved the cursor | `SaveCursor` |
| an exception, a closed page | `Interrupt` |

`createRoom` ends like a sync, with the upload of a checkpoint and the removal of
the item that stands for it; it is the initial state of a room with one founder, and
the page `Creation` is where it happens.
`redeemInvitation` is `Redeem`, `ReadCheckpoint`, `StoreRoom`. A request that is
lost after the service acted on it is the action of the service followed by
`Interrupt`.

Abstractions: increments commute, so the outbox and the posts of one sync are
sets; encryption is left out, and envelopes are well formed; the peer channel is
lossy and unordered, towards the recipient whose identifier sorts first, and may be handed
any of the operations of a sync when the members are listed, although the code hands it
one before the posts of each; the pages of one device share the room lock, being one browser
page; identifiers of mailbox entries are counted per mailbox, since a reader sees only their order.

### PeerHandshake

Two devices, `Caller` (whose identifier sorts first, the initiator) and `Answerer`. A
`RoomPeer` is a pair `<<device, attempt>>`, and `peer[p]` has its fields: the stage of
`connect`, whether there is a connection, the signal cursor, the descriptions, the
candidates that wait and those added. Two devices share one deterministic session, so the
signals of an attempt (`signals`, in the order of `signal_id`) are there for the next.

| Code | Action |
|---|---|
| `discoverPeer` with `shouldRetry`; `peer.close`; `connect` up to its first request | `StartPeer` |
| the offer's post; the `catch` of `connect` | `SendOffer`, `OfferFails` |
| `onicecandidate` | `PostCandidate` |
| the timer of `pollSignals` and the answer of the service | `StartPoll` |
| one signal after the other, each await a step | `Take`, `Describe`, `Answer`, `SendAnswer`, `ReadCandidate`, `Ignore` |
| `onSignalCursor`; the `catch` of `pollSignals` | `SaveCursor`, `PollThrows`, `AnswerFails` |
| `flushCandidates`, as a whole or refused half-way | `Flush`, within `Describe` and `SendAnswer` |
| `onopen`, `onclose`, `onconnectionstatechange` | `Callback` |
| the end of a sync, which tells the page a status of its own | `SyncEnd`, `SyncFails` |
| the browsers: a connection comes up, drops, recovers, ends | `LinkUp`, `LinkDrops`, `LinkRecovers`, `LinkEnds` (external) |

Callbacks of a device are a queue, because the browser runs its tasks in order; those of a
replaced connection may still be in it when the successor starts. `Polls` of a device may
overlap: the code starts one every 1.5 s whether or not the last has ended.

Abstractions: statuses other than `p2p` are one, nothing choosing among them; steps the
browser makes by itself (the session's digest, createOffer with setLocalDescription) are
one with what follows; the request of a poll and the reading of the cursor are one step,
and so is a flush; a connection has one candidate; `onopen` and `connected` are one
callback. A connection that never comes up fails silently.

### RoomEntry, RoomFrame and RoomApp

`RoomEntry` has the home page and the join page, the vault, the permit in the storage of
the session, and the calls of `createRoom` and `redeemInvitation` await by await:
`Provision`/`Refuse`, `CreateInvite`, `PutRoom`, `PutCheckpoint`, `Created`; `Redeem`,
`FetchCheckpoint`, `Joined`. A call goes on when its page is left (`GoTo`) and dies when
the tab is reloaded (`Reload`); what it does to a page depends on whether that
instance is still mounted. `Joined` navigates to the room even then, as the code does.

`RoomFrame` has the page of a room (`GetRoom`, `LoadBundle`), the script in the frame
(`FrameStarts`, `Click`, `SubscribeAgain`, `TimesOut`, `Receive`), the bridge
(`HandleMessage`, `RoomState`, `Answer`, `IncrementCounter`, `HandlerFails`), and the
messages between them as two first-in first-out queues. `Applied` and
`AppliedElsewhere` are operations that arrive in this tab, with a notification, and in
another, without one. `Jump` is a step in the history of the browser to another room,
which keeps the page mounted.

Committing an increment, notifying and answering is one step. Messages of another origin
or shape are ignored by both sides and left out, and `getState`, which the frame never
asks for. StrictMode's double effects are left out. The pages share only the vault, so
`RoomApp` explores each from the moment it is mounted.

### PostFactory

The tables are `source` (the status), `row` (candidates) and `sched` (scheduled posts);
the files `clip` (the part of the video it shows) and `draft` (the text in `meta.json`);
`gaps` are the kinds of profiles with no active row. `job[r]` is a request: the operation,
the statement or script it is at, and what it has read. A statement is a step, and so is
a script (yt-dlp, ffmpeg, the model), which succeeds or fails. Statements whose error the
code drops may not run (`Fault`), and a crash ends every request (`Crash`).

| Code | Actions |
|---|---|
| create and delete a source | `CreateSource`, `DeleteSource` |
| analyze, analyze-moment | `Analyze`, `AnalyzeMoment`; `Think`, `InsertCandidates` or `ReadRank` and `AppendCandidates`, `AnalysisFails`, `FinishAnalysis` |
| replace the active profile, in two statements | `PutProfile`, `ActivateProfile` |
| patch, delete, rewrite a candidate | `PatchCandidate`, `DeleteCandidate`, `RewriteCandidate`, `FinishRewrite` |
| clip; trim, with the restoration of the times | `ClipCandidate`, `TrimCandidate`; `CutClip`, `TrimFile`, `WriteDraft`, `RecordClip`, `RestoreTimes` |
| schedule, in two statements | `ScheduleCandidate`, `MarkScheduled` |
| post at once; the tick of the scheduler | `PostNow`, `Tick`; `NextDue`, `WriteDraft`, `PreparePost`, `MarkScheduledPrepared` |

Identifiers of candidates are `<<source, rank>>` and used again by the next analysis, and
the files of the former stay: much of what can go wrong comes from that.

Abstractions: a text is a model value up to the attribution every writer appends; the
profiles of an analysis are read in one step; the moment's analysis shares the file of the
source; `status` in a patch, which no client sends, is left out; the command line's
ingestion is the same request without the check of the dictionary. A trim whose range ends
after the file leaves a shorter file.

`PostsItsClip` says of what is handed over what `ClipWithinTimes` says of what is on record:
the handler that schedules (`handlers_factory.go:725`) does not look at whether there is a
clip, so that it rests on what the scheduler does when the post is due.

`disturbed` is the exception of the properties about posts and clips: two requests worked on
the candidate at once, its request was cut short (a crash, a dropped write, a cut that failed
half-way, a trim that found no dictionary or failed at its draft), its row was removed over
its files, or its clip was trimmed to a range past its end. Each part is needed: without it
TLC finds a run of the code that breaks the property. The last one is a defect: ffmpeg then
leaves a file without a frame, which is recorded as the clip (`runner.go:212`).
`ScheduledIsQueued` is not among those properties: it holds whatever meets on a candidate, but
for `swept`, a candidate that is removed between the two statements that schedule it. Its post
goes with it, and the second statement (`store.go:549`) marks the candidate that has taken
its identifier, which then says that it is scheduled and is not, until it is scheduled or
replaced itself.

### ArticleFactory

As `PostFactory`, with three differences of the code: the schedule is in the candidate's
row, every analysis of an article writes the same file (`RunAnalyzer`, `ReadAnalysis`,
which may read another's), and candidates are replaced in one transaction (`Rewritten`).
Titles and error messages are left out; a missing profile is `AnalysisFails`; the update of
the article prompt, one statement, is left out with it.

### The front end

Each page keeps lists it has read, and requests in progress with what they closed over
(`job[s].sel`, `job[s].list`): a request is served (`Serve`), answered later (`Answer`)
or fails (`Fails`) before or after it was served, and the refreshes an answer starts are
requests of their own (`Read`). Flags such as `analyzingId` are `busy`. `FactoryPage` and
`ArticlePage` have the lists, the selection, the table and the queue; `IdeasPage` its list
and its one card; `SourcesPage` the dictionary as table and raw text; `SettingsPanel` the
profiles; the cards their boxes, the row as last received, and `CandidateCard` the
transcript with its debounce and cancellation.

What the server does with a request of a card is one step here: `PostFactory` has its
statements. A page that is left forgets its state, so `FrontEnd` explores each from the
moment it is mounted. Requests in flight of a page that was left, option lists, and the
wording of the presets are left out. A list of sources is a set with `twice`, the sources in it
more than once: what the page is given when a source is created goes in front of the list
without a look at whether it is there (`FactoryPage.tsx:102`, `ArticleFactoryPage.tsx:86`).

## 3. Runs

| Run | Instance | Shows |
|---|---|---|
| `room_admission` | 2 permits, 2 concurrent creators, 2 rooms, 4 member ids, 2 invites, clock to 3 | all safety properties of admission |
| `redeem_retry` | the same | the documented retry fails once the invite is revoked (finding) |
| `room_sync` | 2 devices, one of them with 2 overlapping syncs, 2 increments, pages of 1, quota 3, 1 interruption | refinement, `CursorSkipsNothing`, `NoOperationLost` |
| `room_join` | the owner's new room, on 2 overlapping pages, and 1 joiner, 1 increment, 1 interruption | refinement, `CursorSkipsNothing`, `FirstCheckpointPending` |
| `room_sync_live` | 2 devices with a page each, 2 increments, quota 5, 1 interruption | `Converges` |
| `join_race` | owner and 1 joiner, 1 increment, no failure | an operation is lost to a device that joins during a sync (finding) |
| `rejoin` | 2 devices, 1 increment, one opens its invitation again | an operation in the outbox is lost (finding) |
| `peer` | 2 devices with 2 attempts each, 1 poll of the caller and 2 of the answerer, 1 trouble | `StatusTellsTruth`, `CandidatesKept` |
| `room_app` | home and join page with 2 permits, 1 invitation, 7 acts; a room's page and frame with 1 click, 1 operation of another device, 2 attempts to subscribe, 2 failures, 1 change of room | `EntryMatches`, `FrameShowsRoom` |
| `factory` | 1 source, 1 candidate, 2 requests at a time of 4, 2 overlapping ranges, 2 texts, clock to 1, 1 fault | the nine properties of the clip factory |
| `articles` | 1 article, 2 candidates, 2 requests at a time of 2, ticks at will, 2 texts, clock to 1, 1 fault | the six of the article factory, `DueGetsHanded` among them |
| `front_end` | 2 sources with a candidate each, 3 requests at a time, 2 acts and 1 failure on a page; 2 requests, 4 acts and 1 failure on a card | lists, boxes, profiles, controls |

**Bounds.** *Admission*: two creators, permits and invites are enough for each race of the
service, which is between two requests; capacity 2 and 3 are reached and one more
redemption is refused; the clock passes the expiry of permits and invites.
*Synchronisation*: two increments with pages of one make a mailbox longer than a page; two
overlapping syncs and one interruption let the same operations be posted three times, so
that a quota of three is exceeded and the cursors of two syncs overtake each other.
In `room_sync_live` the quota is large enough for every repetition: the service removes
an entry only when it expires, so that a mailbox that is full stays full for up to a week,
and no liveness can be expected while it is. *Peer*: an attempt and its successor on each
side, and two overlapping polls, are each pair of actors the code lets meet. A trouble is a
retry (unless for a connection that was lost before the other side noticed), an overlap of
polls, an offline start, a failed sync, a failed offer of the current peer, a failed answer,
or a dropped connection; connections that end because the other side has ended are free.
*Room application*: two permits, for the one in the session and the one typed over it;
seven acts reach a creation, a navigation, a return and a second creation. Two attempts to
subscribe, two failures, a click and an operation of another device, in this tab or in
another, give each order of a late answer and a notification.
*Factories*: races are between two requests on one candidate, and one of them may be the
scheduler; four requests reach an analysis, a clip, a schedule and a trim over them, and two
ranges that overlap without containing each other make a trimmed, a shortened and a
wrong clip all different. `MaxTime` 1 separates due from not due. Two candidates of an
article make an analysis of one, and a due post behind one that fails. *Front end*:
two sources make a selection that changes under an answer; three requests overlap, two of
them of one kind.

Increments, requests, slots, permits, invites and the two pages of one device are
interchangeable and symmetric where no property compares them with something fixed.
`room_join`, where one of the pages creates the room, `peer`, whose devices differ,
and the runs with liveness use no symmetry. `factory` also has a view. A
candidate stays disturbed; then its text, what its clip shows and what was posted of it are
left out of the view, and so is `lost` of a source that does not say `analyzing`: no property
looks at these and no step depends on them, so that states which differ in nothing else have
the same future. Deadlock is checked everywhere but in `room_app` and
`front_end`: there the user may stop, and the acts are bounded.

**Fairness.** `RoomSync!FairSpec` assumes that the room page of every device stays open and
each request is answered or fails: the timer of `RoomSync.start` then begins a sync
every four seconds, and a sync in progress goes on. Nothing is assumed of the user, of
the peer channel, of joins or of interruptions, of which there are finitely many.
`ArticleFactory!FairSpec` assumes that somebody keeps ticking, by the button of the page or
the command `factory-tick` (the timer is only planned, `loops/clip-to-post/README.md:156`),
and that requests in progress go on. `DueGetsHanded` says of a post that it is handed over if
its own draft and script succeed when they are tried infinitely often, whatever other posts
do; the strong fairness in the property says just that. The other specifications assume none.

**Findings.** Three properties that the documentation states do not hold; see
`findings` in `PROJECT.json`. (1) A retry of a redemption is refused once the
invite is revoked or expired. (2) A device admitted after a sync listed the members
and before that sync uploaded its checkpoint never receives the operations of that
sync. (3) Redeeming an invitation again replaces the vault entry with its outbox.
`NoOperationLost` holds when nobody joins (`room_sync`), and so it is not
checked in `room_join`.

**Exceptions.** Several properties exempt a case by a history variable. Each was found by
TLC, which breaks the property without it, and most say something about the code:

- `StatusTellsTruth`, `overtaken`: `connect` of a replaced peer whose offer could not be posted
  reports "mailbox" after its successor is connected (`peer.ts:85-88`); ten seconds after
  the last attempt the next sync then closes the working channel.
- `StatusTellsTruth`, `hidden`: a sync that fails, or runs while the browser says it is
  offline, tells the page "mailbox" or "offline" over a channel that is up (`roomService.ts:357`,
  `:412`), and nothing tells it "p2p" again. `docs_and_changelog/2026-07-12-local-first-room-demo-stabilization.md:18-19`
  says that "when both peers are online, the UI reports a live P2P DataChannel".
- `CandidatesKept`, `spoiled`: a candidate of an earlier attempt that the browser refuses ends the
  poll, and with it the candidates that waited behind it; every later poll stops at the
  same signal until the connection is replaced. An answer whose post fails is never sent again.
- `CandidatesKept`, `begin`: signals that the former attempt read, with candidates posted before
  their offer among them, are not read again by the next.
- `FrameShowsRoom`, `jumped`: a step in the history to another room gives the mounted page a
  new bundle with a new nonce, but only the fragment of the frame's address changes, so
  that its script keeps the old nonce and is deaf from then on (`RoomFrame.tsx:46`).
- `FrameShowsRoom`, `lowered`: an answer to `subscribe` that was read before a notification and
  rendered after it stays until the next change (`bridge.ts:92`). `unseen`: a change in
  another tab notifies nobody here.
- `EntryMatches`, `excused`: a creation that fails after the service consumed the permit keeps it
  in the session, and it is refused as used when tried again (`HomePage.tsx:72`).
  `overwritten`: the list read from the vault is set over a room shown meanwhile
  (`HomePage.tsx:45`). `left`: a call of a page that was left.
- `factory`: `disturbed` and `swept`, see section 2; `lost`, a source whose last status was not
  written, by a crash or a dropped error, and which stays in `analyzing` (`handlers_factory.go:338`);
  `torn`, a profile whose replacement was cut short.
- `articles`: `disturbed`, two requests on one post, or one cut short.
- `front_end`: `outdated`, `disturbed`, `mixed`, `elsewhere`, `left`: two requests overlapped, one
  failed after it was served, or somebody else saved. `left` is also said of what is typed during
  a save, which is marked as saved when the save ends (`SourcesPage.tsx:153`). `outdated` is also said of an analysis
  asked for while nothing was selected: `refreshAll` reads candidates only of a source its
  render had selected (`FactoryPage.tsx:57`, `ArticleFactoryPage.tsx:45`), so that a source
  selected while it is analysed goes on showing its former candidates. `early`: a source that was
  listed before the answer to its creation is then listed twice until the list is read again
  (`FactoryPage.tsx:102`, `ArticleFactoryPage.tsx:86`). `switched`: the flag of a removal stays
  on the card when another idea is selected meanwhile, because the card has no key
  (`IdeaCard.tsx:57-67`, `IdeasPage.tsx:131`).

## 4. Proofs

`RoomAdmissionProofs` proves each property of `room_admission` for every set of
permits, rooms, invites, requests and every bound. The assumptions are the `ASSUME`s
of `RoomAdmission`: claims have number fields, requests are well-typed, bounds are
naturals, and `None` is none of the values it marks the absence of.

- `TypedInvariant` is the inductive invariant all others start from. It extends `TypeOK` by
  what they need: members are finite and their identifiers unique, permits in
  flight had a capacity in range, invites belong to rooms that exist, and an
  invite's redeemed member is in the invite's room.
- `TypeCorrect`, `CapacityHolds`: a room that exists never has more seats than its
  capacity. The step that matters is `Admit`, by lemma `SeatsAfterInsert` about
  the cardinality of the seats after one insertion.
- `PermitsHold`: permits map injectively to rooms; `CreateRoom` takes a
  room with no row, and no other action touches permits.
- `InvitesAreOneTime`, `SeatsAreNotHandedOver`: by induction over the grants;
  members are never changed and redeemed invites never cleared.
- `PermitsExpire`: an action property, from the second look at the date in the transaction,
  under the typed invariant.

`RoomSyncProofs` proves every safety property of the `room_sync` and `room_join` runs for
any set of devices, pages and increments, any page size, quota and number of
interruptions. The assumptions are the `ASSUME`s of `RoomSync`: the owner is a
founder, increments are finitely many, `PageSize` is positive, and `None` and `Bootstrap`
are neither of the values they stand beside.

- `TypedInvariant` (`TypeCorrect` is its corollary) adds to `TypeOK` that mailboxes
  are finite, that a page with a sync in progress has a stored room, and that
  what is about to be uploaded or stored is there.
- `Growth`: while no device that has a room redeems an invitation again, no step takes an
  operation from a replica or an entry from a mailbox, and new entries have
  identifiers above all in the mailbox. The other results rest on it.
- `CursorsSkipNothing`: `CursorSkipsNothing` is not inductive, because `SaveCursor`
  stores a cursor that was computed several awaits earlier, possibly after the overlapping
  sync of another page stored a higher one. `CursorInv` says of each sync
  in progress that every entry up to its `top` is applied or still in its inbox,
  and every one up to its `after` is applied. The step that matters is
  `FetchOperations`, by lemma `PageHasNoGap`: an entry that is at most the greatest identifier on a
  page is on the page or below the cursor the page was read from.
- `RoomCounts` is the refinement. `CountInv` says that every replica, stored, uploaded
  or being joined from, shows the number of operations it has, and that
  whatever is queued, posted or under way was made by somebody. Every step then is a
  stutter of `ReplicatedCounter` or counts a set of operations on one device.
- `NothingIsLost`: `LossInv` says that past the listing of the members each member
  has or will get each operation in the snapshot of a sync, or the post to it is still to be
  made; so `ForgetItem` removes only what is delivered.
- `CheckpointStaysPending`: `PendingInv` adds that nobody is past an upload, or has
  been given a checkpoint to join from, while the room has none.

The hypotheses of the theorems are the two findings about syncs. `Rejoin = FALSE`, in
`CursorsSkipNothing`, `RoomCounts` and `NothingIsLost`, excludes the run `rejoin`, where an
older room replaces a stored one; `Joiners = {}`, in `NothingIsLost` alone, excludes the
run `join_race`. `TypeCorrect` and `CheckpointStaysPending` have no hypothesis.

`PostFactoryProofs` proves the nine properties of `factory` for any finite set of sources, any
number of candidates, requests, ranges, texts, times and faults. The assumptions are the
`ASSUME`s of `PostFactory`: sources are finitely many, ranges are pairs of times, proposals
have a range and a text, and `None` and `Broken` are none of the values they stand beside.

- `Typed` adds `JobsFit` to `TypeOK`: what a step may do with a request depends on what the
  request is for, so that the types rest on the stages each operation passes through
  (`Fits`). `AnalyzingHolds` and `GapsHold` need little more: a step that ends an analysis,
  or opens a gap, is one of the request it belongs to.
- `NoOrphansHold` needs the cascade of `DeleteSource` and the order of the two statements of
  `ScheduleCandidate`.
- `ScheduledHolds` rests on `Queued`, of every candidate outside `swept`: between the two
  statements that schedule it the post is in the queue already. The lemma that matters is
  `QueuedSwept`: what removes a candidate takes its post along and notes it if it was being
  scheduled; what is put in its place is not scheduled, so that an earlier note may go.
- `ReadyHolds`, `ClipsHold`, `PostsCurrentTextHolds` and `PostsItsClipHolds` come from one
  invariant, `Undisturbed`: every candidate outside `disturbed` is `Calm`, that is, at most
  one request works on it (`Alone`), its row, files and scheduled post agree (`Settled`), and
  the request that works on it has read what the row still says, and has written what agrees
  with that (`Working`). The properties speak of what is stored; they are not inductive,
  because each statement acts on what its request read several statements before.

`ArticleFactoryProofs` does the same for the safety properties of `articles`, for any finite
set of articles. `Typed` again says which stages fit which operation. `OneAnalysisHolds` rests
on `RowsKept`: every step but the one transaction that replaces the candidates leaves a row
its analysis. `Listed` says that no candidate is twice in the list of a tick. `Undisturbed` has
the same three parts; its `Working` says of a tick that the candidates of its list are not
handed over yet, but for the one it is about to mark, which is what makes `HandedOnce` hold
across overlapping ticks, failing posts and a list read long before.

`RoomAppProofs` proves the three properties of `room_app` for any sets of permits,
invitations and rooms, and any number of slots, attempts, clicks, operations and failures. The
assumptions are the `ASSUME`s of `RoomApp`: seats and bounds are numbers, at least one
subscription is attempted, no permit is an invitation, and `None` is none of the values it
stands beside. The properties are about pages at rest, where no call and no message is on its
way; the invariants strengthen each to every state by saying which call or message still
carries what is missing.

- `EntryInv`: a room of the vault is in the list of the home page, or in the list it has read
  and not yet shown, or is that of a creation that has stored it and goes on (`Lists`,
  `Coming`, `StoredFirst`); a permit of the session that the service has consumed belongs to a
  creation that goes on (`SpentInUse`); the form offers the permit of the session, as long as
  no call was left behind (`Offers`, `LeftCalls`).
- `FrameInv`, first part (`FrameBasic`): identifiers are given out once (`Numbered`), so that
  an answer meets the request it answers (`PendingFits`); a page that is given no other room
  loads once (`LoadsOnce`); a click that is being saved waits for an answer (`Saving`).
- `FrameInv`, second part (`FrameTold`), for a page that was given no other room: frame,
  bridge and messages are of one bundle (`OneNonce`); the first message the bridge takes up is
  the subscription (`SubscribesFirst`); nothing shown, read or posted is later than the counter
  (`NoLater`). `LatestFollows`: a notification on its way, or the answer to a click, carries
  the counter, or a notification that does is behind it. `LatestShown`: when no such
  notification is on its way, the frame shows the counter, or it has rendered an older
  answer to its subscription, after which none comes. TLC broke simpler versions of these
  two, one for each order of an answer and a notification.

`PeerHandshakeProofs` proves the three properties of `peer` for any number of attempts,
polls and faults, and for a session of any length. The assumptions are the `ASSUME`s of
`PeerHandshake`: the bounds are numbers, polls are of the two devices, and `None` is no peer.

- `FitInv`: only the last peer of a device is open (`OneOpen`), callbacks are due to the
  device of their peer (`TasksFit`), a poll reads signals of the other device, and has a
  description before it answers one (`PollFits`).
- `StatusInv` is what makes `StatusTellsTruth` inductive. That property speaks of a device
  whose callbacks have all run; `TellsOf` says of every state what those that are due will
  still tell: of a connection that is up, that the device has heard so, or will, or heard last
  from a peer it had replaced; of one that is down, that whatever announces the channel is
  followed by the callback that reads the state again. `HasHeard` says that a device whose
  last peer is closed has heard of no channel. The steps that matter are those of
  `CallsBack`, one lemma for each thing a callback may say, and `StartsPeer`, whose closed
  peer may still have callbacks due.
- `CandidateInv` does the same for `CandidatesKept`: of the candidates posted since a peer
  began, each one below its cursor is added or waits, and so is each one below a signal that
  some poll still has to deal with, unless that poll will come to it too (`Passed`); those
  that wait have a poll that will add them (`Waits`), which is so because only one poll of the
  answering device gets to answer (`AnswersOnce`). `PassedOn` is the lemma for a poll that moves
  on, and rests on `Least`: the signal a poll takes is the least it has left.

`FrontEndProofs` and `FactoryListsProofs` prove the five invariants of `front_end` for any
sources, texts, ranges, ideas and entries, any number of requests at once and of faults. The
assumptions are the `ASSUME`s of `FrontEnd`: sources are numbered from one and finitely many,
there is a text and a range, the idea a new one becomes is an idea, the bounds are numbers,
and the empty text and `None` are no values.

- `CardsInv`, in `FrontEndProofs`, is one invariant for each card, panel and the page of ideas
  (`SourcesInv`, `SettingsInv`, `ArticleCardInv`, `ClipCardInv`, `IdeasInv`). The properties
  speak of what is at rest; the invariants say of every state which request still carries
  what the boxes lack, or that the flag of an exception is up. `CardsMatchAlways` and
  `SavedMeansStoredAlways` follow.
- `PagesInv`, in `FactoryListsProofs`, adds the two pages of lists. `ClipsHeld` and `ArticlesHeld`
  name for every difference between a page and the server the request that will settle it
  or raise `outdated`: for the list of sources (`ClipsSources`, `ArticlesSources`), the
  queue (`ClipsScheduled`, `ArticlesScheduled`), the candidates, what is selected, and the
  candidate that is open. `ClipsTwice` and `ArticlesTwice` say of a list that is not `outdated`
  which sources may be in it twice.
- Most steps end one request, so the proofs turn on which of the requests that settle
  something a step loses, and which it makes: the lemmas `NothingLost`, `LostSent`, `LostRead`,
  `Made` and `MadeServed` answer that once for each kind of step, in terms of `Kept`,
  `KeptButServed` and `KeptButRead`.
- Without the exception for an analysis asked for with nothing selected (section 3),
  `ListsMatch` holds within the bounds of `front_end` and fails beyond them: that exception was
  found by the attempt to prove it. TLC checked the invariants on small instances before
  they were proved, and refuted simpler ones.

**What stays with TLC.** `Converges` and `DueGetsHanded` are liveness under fairness, which
the provers do not reach, as is everything that rests on `ENABLED`. Every
invariant and every other action property of a passing run is proved.
The three findings are counterexamples, which need no proof.

## 5. Plan

Done: admission; synchronisation and its refinement; the peer; the room pages and the frame;
the clip and article factories; their front end; proofs of every safety property of
every passing run.

Left, to widen the model, in this order:

1. Two tabs on one vault: `RoomSync` with a lock for each page, to show what is lost.
2. The expiry of mailbox entries and signals, and envelopes that cannot be read.
3. The pure operators on times, captions and mentions as functions, against a reference
   definition.

## 6. Not modelled

| Part | Why |
|---|---|
| Two tabs on one vault: their locks are separate (`vault.ts:10`); both may create the device's identity (`vault.ts:86`) | `RoomSync` has one lock per device; first in the plan. `RoomFrame` has the other tab as `AppliedElsewhere` |
| Expiry of mailbox entries and signals (`server.go:1122`), the quota of 512 signals, 200 to an answer | a week and a day; second in the plan |
| Malformed envelopes, which stop a mailbox (`roomService.ts:398`); `boundedTTL` (`server.go:1302`) | envelopes are well formed; times to live are in range |
| Checkpoints of a single device | no client uses them |
| Leaving the room page while the peer connects (`stop`), a third device, and whether the channel comes up at all | `stop` overlaps what `StartPeer` does with the former peer; the last rests on how retries of ten seconds and polls of 1.5 seconds fall, and two devices may keep replacing their peers over each other |
| Cryptography and invitation packages, permit minting | pure calls; secrets match or do not |
| Service worker, local relay, site content | keep nothing the rest depends on |
| Boot of the factory (`EnsureDictionaryNewsFeeds`, `store.go:192`), migration | run once, before the first request |
| Ideas on the server (`handlers_ideas.go:81`) | one row without neighbours; its page is `IdeasPage` |
| An article's analysis read while another is half-way through writing it (`article_runner.go:70`) | a file is written in one step; what is read is one analysis or another |
| Times, transcripts, attribution (`time.go`, `transcript.go`, `mentions.go`) | pure functions on text; third in the plan |
| Publishing loops | processes that succeed or fail |

**Hazards beyond the forty of `PROJECT.json`.** The reads before the transaction at
`server.go:780`; `vault.ts:86`; `roomService.ts:398` and `:325`; `server.go:1302`; candidates after
the connection is closed, `peer.ts:132`; answers after the frame is gone, `bridge.ts:82`, and the
timeout that races one, `room-frame.html:139`; effects that end after the page, `HomePage.tsx:45`,
`JoinPage.tsx:20`, `RoomPage.tsx:31`; `store.go:192`; the read-decide-write sequences at
`handlers_factory.go:285`, `:587`, `:645`, `:691`, `:769` and `handlers_articles.go:363`;
`runner.go:188`; the shared file of `articles.go:291`; `handlers_ideas.go:81`; refreshes of the lists,
`FactoryPage.tsx:32`, `:57`, `:116`; the boxes and the transcript of `CandidateCard.tsx:98`, `:393`;
`SourcesPage.tsx:170`; `SettingsPanel.tsx:44`. Most are exercised by the runs of their modules.
