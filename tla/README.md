# A verification project for tsbot-backend

tsbot-backend is the HTTP service (NestJS, TypeORM on PostgreSQL) with which the owners and users of
TeamSpeak 3 servers manage channels, zones, groups and icons. It never talks to a voice server itself: a *bot* does,
reached over NATS. Everything that is hard in this code comes from two facts:

- every `await` of a handler lets every other handler run (one Node process, no locks, PostgreSQL in READ COMMITTED), so
  what was read before an `await` may be wrong after it;
- the database and the voice server are changed by separate calls, and the call to the bot may time out
  (`TeamspeakBusService.send`, `TS_MSG_TIMEOUT`) while the bot still carries it out.

The TLA+ modules here model the handlers at exactly that grain: one action is the code from one `await` to the next.
TLC checks small instances; TLAPS proves the most important properties for every size.

## 1. Inventory of the system

| Component | State it keeps | Operations | What is hard | What makes it correct |
|---|---|---|---|---|
| User channels (`channels/`, `teamspeak/user-channel.service.ts`) | `Channel` rows; channels of the voice server | `createChannel`, `createSubChannel`, `deleteChannel` | check, bot call and insert are three steps; compensation after a failed insert; late bot; crash | one channel per client, rows and channels stay related, no silent orphan |
| Bus (`teamspeak/teamspeak-bus.service.ts`) | none | `send` with time-out, `emit` | the answer may come after the time-out | every call ends |
| Database connections (TypeORM, pg) | the pool | take, give back | a transaction waits for a second connection | no leak, no stuck pool |
| Clients and verification (`clients/`) | `Client`, `ClientHistory`, `VerificationToken` | owner's save, verify by address, redeem a token, clean-up | three reads before the write, tokens redeemed twice, a clean-up beside the creation of tokens | an identity has one user per server; an answered link is there; only age and redemptions end tokens |
| Server group sync (`server-groups/`) | `ServerGroup` rows | `syncGroupsByServerId` | writes what it computed from older reads; zones are bound to a group while the transaction that deletes it is open | a lone sync is exact; zones of deleted groups go with them |
| Zones (`servers/configs/zone/`) | `Zone` rows | create, update, delete | whole entities saved back after awaited checks | there always is a default zone; names differ; notification before deletion |
| Channel group sync | `ChannelGroup` rows | as above without zones | as above | as above |
| Zone events, bot configuration (`events/`, `teamspeak-common/`, `teamspeak-listener/config.*`) | what the bot was last told | `zoneUpdated`, `getServerConfig` | reads and emits of two events interleave | the bot ends up with the current zones |
| Icons (`icons/`) | `Icon`, `IconContent`, `iconId` of groups; icons of the voice server | upload, delete, icon half of a group sync, full sync | bot call before, or inside of, a transaction; late answers | rows come and go with the icons; groups show their own |
| Group categories (`servers/configs/group/`) | `GroupCategory`, `GroupConfig` | create, update, delete | replace-all of the groups, count before delete | a category has the groups last set; no group in a category that is gone |
| Badges (`badges/`) | none | give badges to a client | - | not modelled: one read and one call |
| Channel configurations (`servers/configs/channel/`) | `ChannelConfig` and its permissions | create, update, set permissions, delete | entity saved with relations read earlier | one configuration per zone, permissions last set |
| Crawls (`crawls/`, `teamspeak-listener/crawler.*`) | `Crawl`, `CrawlZone`, `InactiveChannel` | store a crawl, set inactive channels, notify | delete-then-save of two reports; zones deleted meanwhile | the table is one report |
| Servers (`servers/`) | `Server`, `ServerConfig` | create, update, delete, error flag | saved in two steps; an update brings a deleted server back | a server has a configuration; a deletion stands |
| Users, authentication, roles; metadata; start-up | `User` | log in, guards | - | not modelled: reads of one table, wiring, input and output |

How they interact: channels look up the client (Clients), the zone of the client's groups or of a channel (Zones, through the
bot) and the zone's configuration (Channel configurations); a group sync deletes zones; a saved zone emits `zoneUpdated`,
which makes Zone events read the zones and send them to the bot; a deleted zone takes its channel configuration and its
parts of crawls along; a group sync starts an icon sync. All share one connection pool.

The behaviours a test would hardly reach are listed, with the line where each bites, under `hazards` in `PROJECT.json`.

## 2. Modules

| Module | What it is |
|---|---|
| `Channels` | the handlers of user channels with the bot, the messages and the people on the voice server |
| `ChannelLedger` | what `Channels` promises about table and voice server together; `Channels` implements it |
| `ChannelsProofs` | its theorems |
| `ConnectionPool`, `ConnectionPoolProofs` | the connections `deleteChannel` needs, and theorems |
| `Clients` | the owner's save, verification, tokens |
| `IdentityRegistry` | what the `Client` table promises; `Clients` implements it |
| `ClientsProofs` | its theorems |
| `ServerGroups` | a voice server's groups, the table, and the steps of a sync; no specification of its own |
| `Zones` | extends `ServerGroups` with the zones and composes both: the deletion of a sync's groups and of their zones is one transaction, of two steps |
| `SyncHistory` | `Zones` with four history variables: which syncs were over when a sync began, which sync deleted a group, which requests were at work while a sync's transaction was open, and which zones they saved |
| `ZonesProofs` | theorems of the three |
| `Icons` | uploads, deletions and the syncs of icons, with the bot and its messages |
| `IconStore` | what `Icons` promises about table and voice server together; `Icons` implements it |
| `IconsProofs` | its theorems |
| `Handlers` | the requests of the modules below: where each is suspended, and which were over before it began |
| `ReadCommitted` | one PostgreSQL table under READ COMMITTED, with TypeORM's `delete` and `save` as statements; instantiated three times |
| `GroupCategories`, `ChannelConfigs`, `Crawls` | one component each, without specifications of their own |
| `Settings` | composes these three and the deletion of a zone |
| `ReadCommittedProofs` | what each statement does to a table, to the request that runs it and to the others; also instantiated three times |
| `SettingsProofs` | theorems of `Settings` and its three components |
| `Servers`, `ZoneEvents` | one component each, without specifications of their own |
| `BotLink` | composes the two: what a bot asks for and is told |
| `BotLinkProofs` | theorems of the three |
| `MC*` | symmetry sets and inputs for TLC |

### Channels
`rows` is the table. `chan[t]`, `subs[t]` are the voice server: whether root channel `t` exists, lies in a zone or was moved
outside of all, and its number of sub-channels. `pc[r]` is the `await` a request is suspended at and `op[r]` the method;
`tgt[r]`, `asked[r]`, `seen[r]`, `placed[r]` are its local variables. `wire[r]` is the one message of `r` to the bot that changes channels:
under way (`out`), answered, or gone. `GiveUp` is the time-out, and leaves the message under way: the bot may act on it
later. `Lose` is a lost message. `Crash` ends all handlers and rolls their transactions back, but not their messages.
`SaveFails` starts the compensation of `createChannel` (`op` becomes `undo`), which nobody awaits; `SaveUnacknowledged` is a
commit whose acknowledgement is lost (`LostAcks`). Lookups through the bot that change nothing are steps that succeed or fail.

### ConnectionPool
`at[p]` is where a request stands, `queue` the requests that wait for a connection, `tx[p]` and `stmt[p]` the connections it holds for its
transaction and for a statement outside of it. `deleteChannel` opens its transaction and, inside, reads zones
and configuration through injected repositories, which do not use the transaction's connection. `typeorm.config.ts` gives
the pool neither a size nor time-outs: pg-pool then has ten connections and lets requests wait for ever.

### Clients
`client` and `history` are tables; `token` holds every token ever created, `valid` those still in the table, `old` those of more than a day.
A request carries what it was asked (`req`), the identity it works with (`ident`, the pair of `tsUniqueId` and `tsClientDbId`) and the row as
it read it (`cur`). The unique keys are in the guards of the writes (`Unclaimed`), at the moment of the write; the checks before are steps of
their own. `verifyClient` runs the clean-up of old tokens and the creation of new ones side by side (`FoundMany`): `CleanUpOldTokens` and `CreateTokens` come in either order, the second
of them goes on, and `PrepareFails` is one of the two done and the other failed. `DayPasses` makes every token issued so far old.

### ServerGroups and Zones
`ts[g]` is the voice server, which never uses an id again; `group[g]` the table. A sync reads both (`known`, `found`, in either order), opens a transaction
(`OpenPersist`), commits the difference (`Persist`), fetches icons, loads the active groups (`loaded`) and saves them back. `mem[r]` is the zone entity in the memory of a request, as
created or read, and `dto[r]` the body of a PATCH. `SaveOld` writes the whole entity, and inserts it again if the row is gone, because
TypeORM's `save` does. Here the name check is a step that passes or refuses; so is everything a request may be refused for
besides group and default zone (`Refuse`). `ZoneEvents` has the names.

The transaction of `persistChanges` has the zones of the groups it deletes in `doomed[q]` from the statement of `cascadeGroupsDeletion` (`CascadeGroups`) to its COMMIT (`CommitGroups`) or `RollBack`. Nobody sees it before the COMMIT, and whoever
wants to write one of these zones waits (`Unlocked`); but a zone that is bound to the group in between is not among them, and a group still looks active to `validateGroup`. The other statements of the transaction write groups only, of which requests on
zones see nothing before the COMMIT, so they are part of `Persist`.

`SyncHistory` adds variables that restrict no step: `earlier` and `deleters` say which overlap a restored group needs, `crossed` and `strayed` which zones were saved by a request at work while such a transaction was open, or set active by a PATCH.
`HSpec` is its specification, which the run `zones` checks. Initial states contain any group table that earlier syncs can have left.

### Icons and IconStore
An icon of the voice server is its id, a hash of its content; `rows[u]` is row `u` of `Icon`, which may belong to another server (`here`) or be
more than a month old (`old`). `face[g]` is the icon a group has on the voice server, `link[g]` the `iconId` of its row. `uploadIcon` asks the bot first and
inserts then. `deleteIcon` deletes inside a transaction, which stays open over the call of the bot: `hold[u]` is that transaction, and whoever else
wants the row waits. A message (`msg`) may be lost, or arrive after the time-out (`Fail`). The icon half of a group sync is
`BeginGroupSync` to `SaveLinks`, the reads of each `Promise.all` in either order (`mem[r].same` are the groups for which the early return of
`groups-sync.service.ts:98` holds: `SameNumber` says which icons have the number of which group); `syncAllServerIcons`, which nothing calls yet, is `BeginFullSync` and `CleanUp`.
The clean-up takes every row of more than a month, not those found unused (`Outdated`): that is what the query says.
`IconStore` keeps voice server and rows only, and which rows have had their icon missing (`missed`).

### Handlers and ReadCommitted
`before[r]` are the requests that had ended when `r` began, so `Overlap(q, r)` says that the two were under way at one time. It lets a property say
*unless another request overlapped it*, which is what the code can promise without locks.
`ReadCommitted` has `table`, the row locks (`writer`) with what was written (`draft`), the rows a statement began with (`scan`), and the rows `save` has looked up (`seen`). A statement that has to wait is not
enabled. A DELETE passes over rows inserted since it began: that is how two replacements of a set can leave the union.

### GroupCategories, ChannelConfigs, Crawls, composed in Settings
`updateCategory` is `ReadCategory`, `Rename`, `FindGroups`, `DeleteGroups`, `LookGroups`, `SaveGroups`, `CommitCategory`: one action per statement, with the row locks that foreign keys take (`Renamed`, `Referred`).
`setConfigPermissions` and `setInactiveChannels` have the same shape. `updateConfig` saves the entity it has read
(`kmem`). It is read with its codec and its admin group, and `save` takes the key of a relation that is loaded from the relation, whatever the body has assigned to the column: `Related` are these columns, and
`Assigned` leaves those whose relation is there (`loaded`) as they were. `LookConfig` and `SaveConfig` are the two statements of TypeORM's `save`, which inserts a missing row and writes the columns that differ.
`DeleteZone` of `Settings` is the deletion of a zone with its cascades, `DropZone` on configurations and `ForgetZone` on crawls.
Requests about categories, about zones (configurations and crawls) and about inactive channels share no table, so `part` chooses one kind for a behaviour; interleaving them would add states and no interaction.

### Servers and ZoneEvents, composed in BotLink
`createServer` inserts (`InsertServer`) and then saves server and configuration in a transaction (`SaveBoth`, one step because the server's row is locked);
`updateServer` saves the entities it has loaded, the deletion date among them. `sback`, `sgone`, `snamed` remember who last brought back, deleted and named a server.
In `ZoneEvents` a body of a request is one of `Bodies`; `MinutesAccepted` is `validateInactiveMinutes` as it stands, with the operand that line 255 tests twice, and `LessThanField` the decorator of the body.
Every save raises an event (`note`), whose handler reads the zones (`load`) and emits them (`told`) apart from the request; `AskConfig` is the bot asking when it starts. `ahead`, `stale` and `missed` remember
whether an emitted list was overtaken by a newer one, lost, or missed a deletion, for which no event is raised.

Met while reading, and modelled as they stand: a PATCH of a zone with a deletion time alone, or with minutes and without `crawl`, is compared with nothing
(`zone.service.ts:255`; these zones are `loose`); a PATCH of a configuration's `codecId` or `adminChannelGroupId` answers well and changes nothing while the relation is loaded
(`channel-config.service.ts:134`); `groups-sync.service.ts:98` compares the id of a group's icon with the id of the group, so where these are one number the group keeps an icon it no longer has;
a zone that is bound to a group between the statements and the COMMIT of the sync that deletes it stays active (`server-groups-sync.service.ts:46`), and a PATCH with `active` brings back a zone whose group is deleted, as only a new group is validated (`zone.service.ts:198`); `zone.active` at `zone.service.ts:201` is a method and therefore always true, so a PATCH with `active: false` is refused;
a PATCH of a category without groups empties it (`group-category.service.ts:124`), and `createCategory` ignores groups.

## 3. Runs

| Run | Instance | Shows |
|---|---|---|
| `channels_lifecycle` | 3 requests, 2 clients, 2 channel ids, lost acknowledgements | type, table, orphan and removal invariants, `RowOutlivesChannel`, refinement of `ChannelLedger` |
| `channels_subs` | 3 requests, 1 client, 1 channel, limit 1 | one adder keeps the limit; the compensation spares recorded channels; every request ends (fair) |
| `channels_sub_limit` | the same | **violated**: two adders exceed `allowedSubChannels` |
| `pool_room` | 2 deletions, 2 readers, 3 connections | ended requests hold nothing, never stuck, every call returns (fair) |
| `pool_exhausted` | 2 deletions, 1 reader, 2 connections | **violated**: deletions wait for each other for ever |
| `clients_registry` | 3 requests, 2 users, 2 servers, 1 address, 2 identities, 2 rows, 4 tokens | refinement of `IdentityRegistry`; answered links stand; only age and redemptions end tokens |
| `clients_first_verification` | 2 requests | **violated**: a first verification by address is refused |
| `zones` | 2 groups, 1 sync, 3 requests, 2 zones | a default zone remains; a lone sync is exact; only zones saved across the sync's transaction, or set active, outlive their group |
| `group_restored` | 1 group, 2 syncs | **violated**: a stale sync restores a deleted group |
| `icons` | 2 requests, 2 icons, 3 rows (1 from before), 1 group, which has the number of one icon | refinement of `IconStore`; a deletion is complete; groups show only icons of their own; a lone sync links all the others |
| `settings` | 2 requests; 2 categories with 2 groups; 2 configurations, 1 zone, 2 columns (1 the key of a relation), 2 permissions, 2 crawls; 2 channels | replacements stand unless overlapped; no group without category; nothing outlives its zone; a lone PATCH writes its plain columns |
| `botlink` | 2 requests, 2 servers, 2 zones, minutes 0 to 3 | no server without configuration; deletions stand; names clash only by a race; minutes in order; the bot knows the zones |

*Bounds.* The interesting interleavings of channels need a creation that races another (2), and a deletion of what one of them made (3). Two clients and two ids tell rows
and answers apart. With 3 connections and 2 deletions the queue is filled and drained; with 2 the last connection is taken by a
transaction. A clean-up that could take the tokens of another verification, or of another server's redemption, needs two verifications (2 tokens each) and a redemption. A second address only adds tokens that nothing touches; it is in the proofs. A zone with a group needs a default
zone before it, and something that works on either: 3 requests, 2 rows. The proofs cover every number, two syncs among them.
The three last runs have two requests: the hazards they are about need one overlap (a replacement in another, a deletion under an update, two uploads of one icon), and what comes before them is in the initial states,
which take any table earlier requests can have left. Two keys and two values tell *the other row* and *the old value* apart. `Older` are the icon rows from before, one; two are left for uploads and syncs.
`MCBodies` and `MCRows` of `MCBotLink` are bodies and zones on both sides of every comparison of minutes, `MCLists` of `MCSettings` the reports that differ in a time, a flag or a channel.
`MaxAsked` bounds the sub-channels asked for at once. `TokenIds`, `RowIds`, `ZoneIds` and `TsIds` bound keys that are given once. Ids are never reused, as in PostgreSQL and TeamSpeak.

*Deadlock* is checked where the module has a final stuttering step (`AllEnded`). It is switched off for `zones`, `group_restored`, `icons`, `settings`, `botlink` (all requests served: nothing is left to do)
and for `pool_exhausted`, whose subject it is.

*Fairness.* `Channels!FairSpec`: each handler is weakly fair, because a database call answers or throws and `send` ends every wait by its time-out. Nothing is assumed of the bot, NATS or people.
`ConnectionPool!FairSpec`: statements and bot calls return, and the pool serves its queue whenever a connection is free. Both are what Node's event loop and the time-out give. The remaining runs need no fairness.

## 4. Findings

1. `createUserSubChannel` counts and then, some awaits later, adds (`user-channel.service.ts:89`): two requests exceed the limit (`channels_sub_limit`). `OneAdderKeepsLimit` is what does hold.
2. `deleteChannel` waits for a second connection while its transaction holds one (`channels.service.ts:187`): ten concurrent deletions stop the service (`pool_exhausted`).
   `PoolNotStuck`, proved, gives the bound: fewer deletions than connections.
3. `verifyClient` promises to verify at once if one identity is found, but `saveClient` of the same service refuses a user who has no client yet (`verification.service.ts:123`, `clients_first_verification`).
4. `groups-sync.service.ts:162` says that a group is never restored; an overlapping sync restores it (`group_restored`). `LoneDeletionStands`, proved, is what does hold.

## 5. What is proved

All theorems hold for every number of requests, rows, connections, groups and so on, from the named assumptions of the modules
(constants are of their types and `None` is not one of their elements; for the pool, finite sets of connections and deletions).

- **Channels.** The safety properties are not inductive: what a handler does depends on a channel id that it got some awaits earlier. `IInv` adds which method each await belongs to (`Phases`), that every
  channel has one creation behind it (`Makers`), what the id in a request's hands is (`Targets`: a deleter's channel is one whose creation has saved or failed; a compensation's is its own), and that rows come from creations that are over (`Table`). Steps that only move a
  request along share one lemma (`QuietInv`); the others have one each. From it: `TypeCorrect`, `TableCorrect`, `RowsNameOwnChannels`, `OrphansAreReported`, `RemovalCorrect`, `RowsOutliveChannels`, `LedgerImplemented` (initial states and every step map to the ledger or a stutter), and
  `CompensationIsSafe` under the assumption `~LostAcks`: when an acknowledgement is lost the compensation may delete a recorded channel, and the model shows it.

  `OneAdderCannotExceed` has an invariant of its own, `SubsInv`: a count may be stale only if somebody else was let through since, and who was let through stays in `Adders` for ever. So before the first of them every count is
  an upper bound of what is there, and with only one of them what it still has under way fits.
- **Connections.** `PoolInv` says who holds what at which await and that nobody queues twice. `PoolTypeCorrect` and `NothingLeaks` follow. `RoomIsEnough`: a queueing request holds at most its transaction's connection and is then a deletion, so a stuck pool needs as many deletions as connections; the
  counting uses the library's theorems on finite sets.
- **Clients.** `CInv`: the unique keys, and that the row a request has read still belongs to its user on its server (rows never change owner). `RegistryImplemented`: an insert links a free identity, an update moves an own link; the reads before are not needed. `IdentitiesHaveOneUser` is proved of the registry, and holds of the handlers because they implement it.

  `LinksStand` and `IssuedTokensStand` have a second invariant, `HInv`: a request that is past its redemption works with the identity of its token, which had its address and server; rows change only to what a request of their user answers; and a token that is missing is old or has a redemption of its
  address behind it. What a step has to show for it is little: `HStep` has the rest, once for all steps of a request.
- **Zones.** `ZInv`: if there is a zone, or a request that relied on one, there is a *founder*: an active zone without a group that every request working on it has read as such, so that none may bind or delete it and each save writes it back. `DefaultRemains` follows.
  `SyncIsExact`: what a sync that runs alone knows of the table stays true of it (`LoneInv`).

  `GroupsTakeZones`: a request that read a group as active and has not met an open transaction saves its zone while the group is still active (for a group is deleted only at the COMMIT of such a transaction); a zone bound before the transaction's statement is in `doomed` and waits there; one bound after it is the
  work of a request in `crossed`. Like the next theorem it is stated of `HSpec`; `HistoryRefines` says that `HSpec` implements `Spec`, so that what is proved of `Zones` holds there too.

  `LoneDeletionsStand`: a sync that has overlapped nobody deletes only groups that are gone from the voice server (`LoneReads`), and whoever begins after it finds them there no more and loads them no more (`LoneDeletes`). No run checks it, as it takes three syncs; before it was proved, TLC explored it with two groups and three syncs (no zones and no requests,
  which change no groups) without a violation in 853,286 states. Three syncs are what the least obvious restoration needs: one asks the voice server before a group is made, another inserts the group, the first then reads the table and deletes the group, and a third, which has overlapped neither, restores it.
- **Icons.** `IInv`: ids of rows are given once, so what a request remembers of a row (its icon, its server) is true of it or the row is gone; only a deletion that waits for the bot holds
  a row; and the icon of a row whose deletion the bot has answered has been missing since the row was made. `DeletionsAreComplete` and `GroupsShowOwnIcons` follow. `IconsImplementTheStore` maps inserts to `Record`, the commit of a deletion to `Strike` (the row's icon was `missed`
  because the bot's answer came first), the clean-up to `Purge`, all else to `Serve`.

  `LoneSyncsLink` follows the only request there has been through its awaits (`LoneOK`): no request but itself makes or unmakes rows, so the icons it has listed are still the rows of those its groups want (`Current`) when it links them. A group in `same` when the groups were loaded still shows the same row then.
- **Servers and zone events.** `BInv` joins one invariant per component. For names: a request that changes a name has counted first, so if a row of the name is there
  when it writes, its writer was under way in between, and both overlap (`Raced`). For minutes: if the last saver of a zone does not overlap an update, the row is still as the update read it, and what was compared is what is written. For events: the handlers that have
  read are ordered by `ahead`; the last of them that is not stale holds the table's zones, and the last to emit is `missed` otherwise.
- **Settings.** `GroupsAlwaysKeepCategory` and `ZonesAlwaysLeaveNothing` rest on one fact each way: what an open transaction has written refers to a row that is there, because the reference locks it, so neither the count of `deleteCategory` nor the lookups of `storeCrawl` need be recent.

  The four others share `SInv`: every variable's type (`SettingsTypeCorrect`), the method an await belongs to, that what is locked is consistent with what was written, and that who had ended before a request began (`Past`) stays ended. On top of it:

  - `GroupsAlwaysStand`, `PermissionsAlwaysStand` and `ReportsAlwaysStand` are one argument about a replaced set, made once per table. The invariant (`GStand`, `PStand`, `IStand`) says, for one request and one row, what its next statement relies on: after the DELETE the row is
    gone in the request's own view, or somebody who overlapped it has changed the row since; after the reads of `save` it is as it was read, or likewise. A step of the request itself moves it from one conjunct to the next, by the lemmas of `ReadCommittedProofs` on that statement; a step of another can spoil a conjunct
    only by changing the row, is then the last that has changed it, and was not over when the request began (`Foreign`). For reports time and flag are blamed apart, because a notification writes the flag alone.
  - `LonePatchesAreExact`: `PatchOK` says that while every other request is over or has not begun, the entity in memory is the row with the body assigned to it; nobody is there to change the row, so writing the columns that differ from the second read writes the plain ones of the body, and of the keys of relations those whose relation was not loaded (`MergesExactly`).

Every invariant, action property and refinement that a passing run checks is stated by one of these theorems.

*Only model-checked*: `EveryRequestEnds` and `EveryCallReturns`. They are liveness properties under fairness, and the prover has neither a rule for `WF_` that reaches them nor `ENABLED`. For the same reason absence of deadlock is TLC's, except for
the pool, where `PoolNotStuck` says it as a state predicate. What each violation shows is TLC's counterexample.

## 6. What is not modelled

- Names, passwords, codecs and permissions of channels; names of groups; contents and types of icons; the counts of a crawl; the data of a server's connection.
- Badges: one read and one call of the bot. Users, authentication, metadata and start-up: they keep no state between requests.
- A zone has three aspects, and no module has all three: group and deletion date (`Zones`), name and minutes (`ZoneEvents`), what refers to it (`Settings`). They are other columns and other tables; what is
  lost is a default zone that is renamed while it is deleted, and alike.
- The channel ids of a zone. Where the admin group of a configuration is null or softly deleted its relation is not loaded, and the column takes the body's value or keeps its own: what TypeORM makes of a relation that is null beside a column that is set is left open. A null in a body is not told from a field left out; a report gives each channel its flag.
- A category takes groups of the server, deleted ones included, as its check does not look at the date.
- The boolean with which the bot answers a deletion of a channel, and which nobody looks at (`teamspeak/user-channel.service.ts:102`): nothing in the repository says when it is false.
- `save` of a zone reads the row and writes it in one step.
- The two NATS connections of the service: answers and events are taken to arrive as they leave it.
- The sync of channel groups is that of server groups without zones; it has no actions of its own.

Assumed of what is not under `src/`: TypeORM 0.2 `save` reads the row (soft-deleted ones too), writes the columns that differ and inserts a missing row, a relation that is loaded takes precedence over the column of its key, and a condition `undefined` in `where` finds nothing; PostgreSQL runs in READ COMMITTED, where a statement
waits for a row another transaction has written and passes over one that is gone; pg-pool is first come, first served; the bot takes messages in any order, does each at most once, and answers a deletion only after it.

## 7. Plan

Done: channels, connections, clients, groups and zones; icons, settings, servers and zone events with their composition; theorems on every property that is not a liveness property.

1. What the ledger and the icon store promise as invariants of their own, carried over by the refinements as `IdentitiesHaveOneUser` is.
2. `Zones` and `ZoneEvents` with one zone record, if the states allow it.
3. The history of clients under three identities.
