------------------------------ MODULE Channels ------------------------------
(***************************************************************************)
(* User channels: the handlers of ChannelsService and UserChannelService.  *)
(* A channel lives in two places, a row of the Channel table and a channel *)
(* of the voice server, and only a bot reached over NATS can touch the     *)
(* second.  Every await of a handler is a point where other handlers, the  *)
(* bot and the people on the voice server act.                             *)
(***************************************************************************)
EXTENDS Naturals

CONSTANTS
    Requests,   \* HTTP requests, each served once
    Clients,    \* rows of the Client table
    TsIds,      \* ids the voice server can give to root channels, never reused
    Allowed,    \* ChannelConfig.allowedSubChannels of the zones
    MaxAsked,   \* bound on the sub channels one request asks for
    LostAcks,   \* may the database commit and the client library still throw?
    None

ASSUME ConstantsAssumption ==
    /\ Allowed \in Nat
    /\ MaxAsked \in Nat
    /\ LostAcks \in BOOLEAN
    /\ None \notin Requests \cup Clients \cup TsIds

VARIABLES
    rows,   \* the Channel table: a set of [client, ts]
    chan,   \* chan[t]: where the voice server has root channel t
    subs,   \* subs[t]: sub channels under t
    maker,  \* maker[t]: the request whose call made t
    op,     \* op[r]: the service method request r is in
    pc,     \* pc[r]: the await it is suspended at, or how it ended
    who,    \* who[r]: clientId, for a creation
    tgt,    \* tgt[r]: the root channel the request works on
    asked,  \* asked[r]: dto.subchannels.length
    seen,   \* seen[r]: subChannelCount, None before the answer
    placed, \* placed[r]: has getZoneOfChannel found the channel in a zone?
    wire    \* wire[r]: what has become of the bot call of r that changes channels

voice  == <<chan, subs, maker>>
locals == <<who, tgt, asked, seen, placed>>
vars   == <<rows, chan, subs, maker, op, pc, who, tgt, asked, seen, placed, wire>>

Row   == [client : Clients, ts : TsIds]
Ops   == {"none", "create", "undo", "remove", "addSub", "removeSub"}
Ended == {"done", "refused", "failed", "crashed"}
Steps == {"checking", "validating", "waiting", "saving", "locating", "located",
          "forgetting", "surveying"}

Live(t)     == chan[t] \in {"zoned", "outside"}
Recorded(t) == \E row \in rows : row.ts = t
HasChannel(c) == \E row \in rows : row.client = c
Active(r)   == pc[r] \in Steps

TypeOK ==
    /\ rows  \subseteq Row
    /\ chan  \in [TsIds -> {"unborn", "zoned", "outside", "gone"}]
    /\ subs  \in [TsIds -> Nat]
    /\ maker \in [TsIds -> Requests \cup {None}]
    /\ op    \in [Requests -> Ops]
    /\ pc    \in [Requests -> {"idle"} \cup Steps \cup Ended]
    /\ who   \in [Requests -> Clients \cup {None}]
    /\ tgt   \in [Requests -> TsIds \cup {None}]
    /\ asked \in [Requests -> 0..MaxAsked]
    /\ seen  \in [Requests -> Nat \cup {None}]
    /\ placed \in [Requests -> BOOLEAN]
    /\ wire  \in [Requests -> {"none", "out", "ok", "error"}]

Init ==
    /\ rows  = {}
    /\ chan  = [t \in TsIds |-> "unborn"]
    /\ subs  = [t \in TsIds |-> 0]
    /\ maker = [t \in TsIds |-> None]
    /\ op    = [r \in Requests |-> "none"]
    /\ pc    = [r \in Requests |-> "idle"]
    /\ who   = [r \in Requests |-> None]
    /\ tgt   = [r \in Requests |-> None]
    /\ asked = [r \in Requests |-> 0]
    /\ seen  = [r \in Requests |-> None]
    /\ placed = [r \in Requests |-> FALSE]
    /\ wire  = [r \in Requests |-> "none"]

Goto(r, l) == pc' = [pc EXCEPT ![r] = l]

\* TeamspeakBusService.send: publish the request and wait for one answer.
Send(r) == /\ wire' = [wire EXCEPT ![r] = "out"]
           /\ Goto(r, "waiting")

-----------------------------------------------------------------------------
(* ChannelsService.createChannel                                           *)

BeginCreate(r, c, n) ==
    /\ pc[r] = "idle"
    /\ Goto(r, "checking")
    /\ op'    = [op EXCEPT ![r] = "create"]
    /\ who'   = [who EXCEPT ![r] = c]
    /\ asked' = [asked EXCEPT ![r] = n]
    /\ UNCHANGED <<rows, voice, tgt, seen, placed, wire>>

\* checkClientHasChannel: a count, then the conflict or the bot.
CheckHasChannel(r) ==
    /\ pc[r] = "checking"
    /\ Goto(r, IF HasChannel(who[r]) THEN "refused" ELSE "validating")
    /\ UNCHANGED <<rows, voice, op, locals, wire>>

\* UserChannelService.createUserChannel: the name is free, the client's zone
\* has a config, the sub channels fit; then the call that makes the channel.
SendCreate(r) ==
    /\ pc[r] = "validating"
    /\ asked[r] <= Allowed
    /\ Send(r)
    /\ UNCHANGED <<rows, voice, op, locals>>

\* A lookup failed or timed out, the name was taken, no config, too many.
RefuseCreate(r) ==
    /\ pc[r] = "validating"
    /\ Goto(r, "refused")
    /\ UNCHANGED <<rows, voice, op, locals, wire>>

\* Bug: answers not matched to requests by their inbox.
GotAnyChannel(r) ==
    /\ pc[r] = "waiting" /\ op[r] = "create" /\ wire[r] = "ok"
    /\ \E t \in TsIds : maker[t] # None /\ tgt' = [tgt EXCEPT ![r] = t]
    /\ wire' = [wire EXCEPT ![r] = "none"]
    /\ Goto(r, "saving")
    /\ UNCHANGED <<rows, voice, op, who, asked, seen, placed>>

\* The answer to the creation: the handler learns the new channel's id.
GotChannel(r) ==
    /\ pc[r] = "waiting" /\ op[r] = "create" /\ wire[r] = "ok"
    /\ \E t \in TsIds : maker[t] = r /\ tgt' = [tgt EXCEPT ![r] = t]
    /\ wire' = [wire EXCEPT ![r] = "none"]
    /\ Goto(r, "saving")
    /\ UNCHANGED <<rows, voice, op, who, asked, seen, placed>>

\* Bug: the two columns swapped.
InsertSwapped(r) == rows' = rows \cup {[client |-> tgt[r], ts |-> who[r]]}

Insert(r) == rows' = rows \cup {[client |-> who[r], ts |-> tgt[r]]}

\* The catch block: deleteUserChannel is started and not awaited.
StartUndo(r) == /\ op' = [op EXCEPT ![r] = "undo"]
                /\ Goto(r, "locating")

\* Bug: no unique index, only the check before the bot is asked.
SaveWithoutIndex(r) ==
    /\ pc[r] = "saving"
    /\ Insert(r)
    /\ Goto(r, "done")
    /\ UNCHANGED <<voice, op, locals, wire>>

\* channelRepository.save under the unique index on clientId.
Save(r) ==
    /\ pc[r] = "saving"
    /\ ~HasChannel(who[r])
    /\ Insert(r)
    /\ Goto(r, "done")
    /\ UNCHANGED <<voice, op, locals, wire>>

\* Bug: the conflict is reported, the channel stays.
SaveFailsWithoutUndo(r) ==
    /\ pc[r] = "saving"
    /\ Goto(r, "refused")
    /\ UNCHANGED <<rows, voice, op, locals, wire>>

\* Bug: the try block covers a step after the save, and that step throws.
SaveFailsAfterRow(r) ==
    /\ pc[r] = "saving"
    /\ rows' = rows \/ (~HasChannel(who[r]) /\ Insert(r))
    /\ StartUndo(r)
    /\ UNCHANGED <<voice, locals, wire>>

\* The index refuses the row, or the database fails.
SaveFails(r) ==
    /\ pc[r] = "saving"
    /\ StartUndo(r)
    /\ UNCHANGED <<rows, voice, locals, wire>>

\* The row is committed, but the connection breaks before the answer.
SaveUnacknowledged(r) ==
    /\ LostAcks
    /\ pc[r] = "saving"
    /\ ~HasChannel(who[r])
    /\ Insert(r)
    /\ StartUndo(r)
    /\ UNCHANGED <<voice, locals, wire>>

-----------------------------------------------------------------------------
(* ChannelsService.deleteChannel and UserChannelService.deleteUserChannel  *)

\* The row is loaded; a root channel is then deleted inside a transaction.
BeginRemove(r, row, o) ==
    /\ pc[r] = "idle"
    /\ Goto(r, "locating")
    /\ op'  = [op EXCEPT ![r] = o]
    /\ tgt' = [tgt EXCEPT ![r] = row.ts]
    /\ UNCHANGED <<rows, voice, who, asked, seen, placed, wire>>

\* What the caller of deleteUserChannel does when it returns: the transaction
\* goes on to the row, the others are over.
AfterDelete(r) == IF op[r] = "remove" THEN "forgetting" ELSE "done"

\* Bug: every error of the lookup is taken for 'already deleted'.
LocateOutsideIsGone(r) ==
    /\ pc[r] = "locating"
    /\ Goto(r, IF chan[tgt[r]] = "zoned" THEN "located" ELSE AfterDelete(r))
    /\ UNCHANGED <<rows, voice, op, locals, wire>>

\* getZoneOfChannel: outside every zone is an error, and no such channel
\* (InvalidTeamspeakChannelException) counts as deleted.
Locate(r) ==
    /\ pc[r] = "locating"
    /\ Goto(r, CASE chan[tgt[r]] = "zoned"   -> "located"
                 [] chan[tgt[r]] = "outside" -> "failed"
                 [] OTHER                    -> AfterDelete(r))
    /\ UNCHANGED <<rows, voice, op, locals, wire>>

\* Bug: a failed lookup is taken for 'already deleted'.
LocateFailsSwallowed(r) ==
    /\ pc[r] = "locating"
    /\ Goto(r, AfterDelete(r))
    /\ UNCHANGED <<rows, voice, op, locals, wire>>

\* The lookup timed out, or the zone has no config.
LocateFails(r) ==
    /\ pc[r] = "locating"
    /\ Goto(r, "failed")
    /\ UNCHANGED <<rows, voice, op, locals, wire>>

SendDelete(r) ==
    /\ pc[r] = "located"
    /\ Send(r)
    /\ UNCHANGED <<rows, voice, op, locals>>

\* The bot answered (its boolean is not looked at).
GotDeleted(r) ==
    /\ pc[r] = "waiting" /\ op[r] \in {"remove", "undo", "removeSub"}
    /\ wire[r] = "ok"
    /\ wire' = [wire EXCEPT ![r] = "none"]
    /\ Goto(r, AfterDelete(r))
    /\ UNCHANGED <<rows, voice, op, locals>>

Delete(r) == rows' = {row \in rows : row.ts # tgt[r]}

\* manager.delete and the commit.
Forget(r) ==
    /\ pc[r] = "forgetting"
    /\ Delete(r)
    /\ Goto(r, "done")
    /\ UNCHANGED <<voice, op, locals, wire>>

ForgetFails(r) ==
    /\ pc[r] = "forgetting"
    /\ rows' = rows \/ (LostAcks /\ Delete(r))
    /\ Goto(r, "failed")
    /\ UNCHANGED <<voice, op, locals, wire>>

-----------------------------------------------------------------------------
(* ChannelsService.createSubChannel, UserChannelService.createUserSubChannel *)

BeginAddSub(r, row, n) ==
    /\ pc[r] = "idle"
    /\ Goto(r, "surveying")
    /\ op'    = [op EXCEPT ![r] = "addSub"]
    /\ tgt'   = [tgt EXCEPT ![r] = row.ts]
    /\ asked' = [asked EXCEPT ![r] = n]
    /\ UNCHANGED <<rows, voice, who, seen, placed, wire>>

\* Promise.all: the count and the zone are read in either order.
CountSubs(r) ==
    /\ pc[r] = "surveying" /\ seen[r] = None
    /\ seen' = [seen EXCEPT ![r] = subs[tgt[r]]]
    /\ UNCHANGED <<rows, voice, op, pc, who, tgt, asked, placed, wire>>

FindZone(r) ==
    /\ pc[r] = "surveying" /\ ~placed[r]
    /\ chan[tgt[r]] = "zoned"
    /\ placed' = [placed EXCEPT ![r] = TRUE]
    /\ UNCHANGED <<rows, voice, op, pc, who, tgt, asked, seen, wire>>

\* Name taken, channel not in a zone, or one of the three lookups failed.
RefuseAddSub(r) ==
    /\ pc[r] = "surveying"
    /\ Goto(r, "refused")
    /\ UNCHANGED <<rows, voice, op, locals, wire>>

\* Bug: the new sub channels are not added to the count.
SendAddSubUncounted(r) ==
    /\ pc[r] = "surveying" /\ seen[r] # None /\ placed[r]
    /\ seen[r] <= Allowed
    /\ Send(r)
    /\ UNCHANGED <<rows, voice, op, locals>>

SendAddSub(r) ==
    /\ pc[r] = "surveying" /\ seen[r] # None /\ placed[r]
    /\ seen[r] + asked[r] <= Allowed
    /\ Send(r)
    /\ UNCHANGED <<rows, voice, op, locals>>

GotSubs(r) ==
    /\ pc[r] = "waiting" /\ op[r] = "addSub" /\ wire[r] = "ok"
    /\ wire' = [wire EXCEPT ![r] = "none"]
    /\ Goto(r, "done")
    /\ UNCHANGED <<rows, voice, op, locals>>

-----------------------------------------------------------------------------
(* TeamspeakBusService.send: an error answer, or none within TS_MSG_TIMEOUT.
   The message may still be under way when its sender gives up.             *)

\* Bug: the timeout of the deletion is ignored.
GiveUpAsDone(r) ==
    /\ pc[r] = "waiting"
    /\ wire' = [wire EXCEPT ![r] = IF @ = "out" THEN "out" ELSE "none"]
    /\ Goto(r, AfterDelete(r))
    /\ UNCHANGED <<rows, voice, op, locals>>

\* Bug: no timeout operator on the reply.
GiveUpOnErrorOnly(r) ==
    /\ pc[r] = "waiting" /\ wire[r] = "error"
    /\ wire' = [wire EXCEPT ![r] = "none"]
    /\ Goto(r, "failed")
    /\ UNCHANGED <<rows, voice, op, locals>>

GiveUp(r) ==
    /\ pc[r] = "waiting"
    /\ wire' = [wire EXCEPT ![r] = IF @ = "out" THEN "out" ELSE "none"]
    /\ Goto(r, "failed")
    /\ UNCHANGED <<rows, voice, op, locals>>

Lose(r) ==
    /\ wire[r] = "out"
    /\ wire' = [wire EXCEPT ![r] = "none"]
    /\ UNCHANGED <<rows, voice, op, pc, locals>>

(* The bot takes a message, in any order and however late.  Nobody reads an
   answer to a call that was given up.                                      *)

Answer(r, a) ==
    wire' = [wire EXCEPT ![r] = IF pc[r] = "waiting" THEN a ELSE "none"]

BotCreates(r, t) ==
    /\ wire[r] = "out" /\ op[r] = "create"
    /\ chan[t] = "unborn"
    /\ chan'  = [chan EXCEPT ![t] = "zoned"]
    /\ subs'  = [subs EXCEPT ![t] = asked[r]]
    /\ maker' = [maker EXCEPT ![t] = r]
    /\ Answer(r, "ok")
    /\ UNCHANGED <<rows, op, pc, locals>>

Kill(t) == /\ chan' = [chan EXCEPT ![t] = "gone"]
           /\ subs' = [subs EXCEPT ![t] = 0]
           /\ UNCHANGED maker

BotDeletes(r) ==
    /\ wire[r] = "out" /\ op[r] \in {"remove", "undo"}
    /\ Kill(tgt[r])
    /\ Answer(r, "ok")
    /\ UNCHANGED <<rows, op, pc, locals>>

BotAddsSubs(r) ==
    /\ wire[r] = "out" /\ op[r] = "addSub"
    /\ Live(tgt[r])
    /\ subs' = [subs EXCEPT ![tgt[r]] = @ + asked[r]]
    /\ Answer(r, "ok")
    /\ UNCHANGED <<rows, chan, maker, op, pc, locals>>

BotRemovesSub(r) ==
    /\ wire[r] = "out" /\ op[r] = "removeSub"
    /\ subs[tgt[r]] > 0
    /\ subs' = [subs EXCEPT ![tgt[r]] = @ - 1]
    /\ Answer(r, "ok")
    /\ UNCHANGED <<rows, chan, maker, op, pc, locals>>

BotFails(r) ==
    /\ wire[r] = "out"
    /\ Answer(r, "error")
    /\ UNCHANGED <<rows, voice, op, pc, locals>>

-----------------------------------------------------------------------------
(* The bot's crawler and the people on the voice server                    *)

OutsiderDeletes(t) ==
    /\ Live(t)
    /\ Kill(t)
    /\ UNCHANGED <<rows, op, pc, locals, wire>>

OutsiderMoves(t) ==
    /\ Live(t)
    /\ chan' = [chan EXCEPT ![t] = IF @ = "zoned" THEN "outside" ELSE "zoned"]
    /\ UNCHANGED <<rows, subs, maker, op, pc, locals, wire>>

\* The process dies: its handlers are gone, its transaction is rolled back,
\* its messages are not.
Crash ==
    /\ \E r \in Requests : Active(r)
    /\ pc' = [r \in Requests |-> IF Active(r) THEN "crashed" ELSE pc[r]]
    /\ wire' = [r \in Requests |-> IF wire[r] = "out" THEN "out" ELSE "none"]
    /\ UNCHANGED <<rows, voice, op, locals>>

AllEnded ==
    /\ \A r \in Requests : pc[r] \in Ended
    /\ UNCHANGED vars

-----------------------------------------------------------------------------
Begin(r) ==
    \/ \E c \in Clients, n \in 0..MaxAsked : BeginCreate(r, c, n)
    \/ \E row \in rows, o \in {"remove", "removeSub"} : BeginRemove(r, row, o)
    \/ \E row \in rows, n \in 1..MaxAsked : BeginAddSub(r, row, n)

\* The steps the event loop takes for a request it has begun.
Handle(r) ==
    \/ CheckHasChannel(r) \/ SendCreate(r) \/ RefuseCreate(r) \/ GotChannel(r)
    \/ Save(r) \/ SaveFails(r) \/ SaveUnacknowledged(r)
    \/ Locate(r) \/ LocateFails(r) \/ SendDelete(r) \/ GotDeleted(r)
    \/ Forget(r) \/ ForgetFails(r)
    \/ CountSubs(r) \/ FindZone(r) \/ RefuseAddSub(r) \/ SendAddSub(r) \/ GotSubs(r)
    \/ GiveUp(r)

Bot(r) ==
    \/ Lose(r) \/ BotFails(r) \/ BotDeletes(r) \/ BotAddsSubs(r) \/ BotRemovesSub(r)
    \/ \E t \in TsIds : BotCreates(r, t)

Outside == \E t \in TsIds : OutsiderDeletes(t) \/ OutsiderMoves(t)

Next ==
    \/ \E r \in Requests : Begin(r) \/ Handle(r) \/ Bot(r)
    \/ Outside
    \/ Crash
    \/ AllEnded

Spec == Init /\ [][Next]_vars

\* Every await of a handler returns: a database call answers or throws, and a
\* bot call is ended by the timeout.  Nothing is assumed of the bot.
FairSpec == Spec /\ \A r \in Requests : WF_vars(Handle(r))

-----------------------------------------------------------------------------
(* Properties *)

\* A client has at most one channel row, however many of its creations run at
\* once: the check in createChannel reads before the bot is asked.
OneChannelPerClient ==
    \A x, y \in rows : x.client = y.client => x = y

\* A row names a channel that a creation for that very client made, and no
\* other row names it: answers and rows are never mixed up between requests.
RowsAreOwnChannels ==
    \A x \in rows :
        /\ maker[x.ts] \in Requests
        /\ who[maker[x.ts]] = x.client
        /\ \A y \in rows : x.ts = y.ts => x = y

\* A live channel without a row is still in the hands of the request that
\* made it, or that request was reported as failed or died with the process:
\* createChannel never ends well, or quietly, leaving an orphan behind.
NoSilentOrphan ==
    \A t \in TsIds : Live(t) /\ ~Recorded(t) =>
        Active(maker[t]) \/ pc[maker[t]] \in {"failed", "crashed"}

\* The compensation of a failed save never works on a channel that is recorded,
\* provided that a database error means the row was not written.
UndoSparesRecorded ==
    \A r \in Requests : op[r] = "undo" => ~Recorded(tgt[r])

\* A finished deletion of a root channel has deleted both the channel and the
\* row, whatever else ran between its lookup, the bot's answer and the commit.
RemovalIsComplete ==
    \A r \in Requests : op[r] = "remove" /\ pc[r] = "done" =>
        chan[tgt[r]] = "gone" /\ ~Recorded(tgt[r])

\* The transaction of deleteChannel: no step takes a row away while its channel
\* is alive, also when bot calls are lost, late or refused.
RowOutlivesChannel ==
    [][\A row \in rows : row \notin rows' => chan[row.ts] = "gone"]_vars

\* The requests whose sub channels were let through for t.
Adders(t) == {r \in Requests : op[r] = "addSub" /\ tgt[r] = t
                               /\ pc[r] \notin {"surveying", "refused"}}

\* It takes two requests to exceed allowedSubChannels: createUserSubChannel
\* alone, counting before it adds, keeps to it even if the bot is late.
OneAdderKeepsLimit ==
    \A t \in TsIds :
        (\A q, r \in Adders(t) : q = r) => subs[t] <= Allowed

\* The limit itself, as the refusal 'Sub-channels count exceed the max allowed'
\* has it: a channel never has more sub channels than its zone allows.
SubChannelsWithinLimit ==
    \A t \in TsIds : subs[t] <= Allowed

\* Every request is answered, and a compensation ends, whatever the bot does.
EveryRequestEnds ==
    \A r \in Requests : pc[r] # "idle" ~> pc[r] \in Ended

-----------------------------------------------------------------------------
\* What the handlers implement: the ledger of channels and rows.
Ledger == INSTANCE ChannelLedger WITH
    madeFor <- [t \in TsIds |-> IF maker[t] = None THEN None ELSE who[maker[t]]],
    gone    <- {t \in TsIds : chan[t] = "gone"}

ImplementsLedger == Ledger!Spec
=============================================================================
