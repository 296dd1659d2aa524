----------------------------- MODULE Messaging -----------------------------
(***************************************************************************)
(* The messages of one match: world and direct messages, group chats, the  *)
(* messages of a command envelope, and the views that show them: inbox,    *)
(* chat, briefing and the payload of the websocket.                        *)
(*                                                                         *)
(* Messages live in memory only: a join, a start or a restart loads the    *)
(* record again without them.  A content is a number, which identifies the *)
(* message for good; a message's own id is its place in its list.  Players *)
(* are the seats of the match; one nobody joined does nothing here.  Each  *)
(* keeps a book of the chats it was told of and polls its briefing with    *)
(* the tick of the last one.                                               *)
(***************************************************************************)
EXTENDS Naturals, Sequences, SequencesExt, FiniteSets

CONSTANTS
    Players, None,
    Envelopes,    \* what a command may carry, see Envelope
    MaxTick, MaxMessages, MaxChats, MaxReloads   \* bounds

\* Nobody is called None.
MessagingAssumption ==
    /\ None \notin Players
    /\ MaxTick \in Nat /\ MaxMessages \in Nat /\ MaxChats \in Nat /\ MaxReloads \in Nat

VARIABLES
    tick,
    messages,  \* the record's world and direct messages
    chats,     \* its group chats
    book,      \* book[p]: the chats p was told of, as [id, members]
    cursor,    \* cursor[p]: the tick of p's last briefing
    seen,      \* seen[p]: the contents p's briefings brought
    log,       \* history: every message answered with 202, and the announcements
    lost,      \* history: the contents a reload threw away
    reloads    \* history: how many there were

vars == <<tick, messages, chats, book, cursor, seen, log, lost, reloads>>

ChatId == 1..MaxChats
Content == 1..MaxMessages

\* A message of a command: [channel, recipient, chat], with None for what is left out.
Request == [channel : {"world", "direct", "group"}, recipient : Players \cup {None, "nobody"},
            chat : ChatId \cup {None}]

\* The messages of a command and what becomes of the treaties and the alliance action after
\* them: "none" that matters, one that is "announced", or one that is "refused".
Envelope == [messages : Seq(Request), rest : {"none", "announced", "refused"}]

-----------------------------------------------------------------------------
(* What is stored.  A store is the messages and the chats of a record.     *)

Store == [messages |-> messages, chats |-> chats]

AppendMessage(store, channel, sender, recipient, t, n) ==
    [store EXCEPT !.messages = Append(@, [channel |-> channel, sender |-> sender,
                                          recipient |-> recipient, tick |-> t, n |-> n])]

ChatsNamed(store, id) == {i \in DOMAIN store.chats : store.chats[i].id = id}

RequireGroupChatMember(store, id, p) ==
    \E i \in ChatsNamed(store, id) : p \in store.chats[i].members

RecordGroupChatMessage(store, id, p, t, n) ==
    LET i == CHOOSE j \in ChatsNamed(store, id) : TRUE
    IN  [store EXCEPT !.chats[i].messages = Append(@, [sender |-> p, tick |-> t, n |-> n])]

NextGroupChatId(store) ==
    CHOOSE k \in 1..(Len(store.chats) + 1) :
        /\ ChatsNamed(store, k) = {}
        /\ \A j \in 1..(k - 1) : ChatsNamed(store, j) # {}

CreateGroupChat(store, p, members) ==
    [store EXCEPT !.chats = Append(@, [id |-> NextGroupChatId(store), members |-> members \cup {p},
                                       messages |-> <<>>])]

ValidCommandMessage(store, r, p) ==
    CASE r.channel = "group" ->
             r.recipient = None /\ r.chat # None /\ RequireGroupChatMember(store, r.chat, p)
      [] r.channel = "world" -> r.recipient = None
      [] r.channel = "direct" -> r.chat = None /\ r.recipient \in Players

-----------------------------------------------------------------------------
(* What is shown, as sets of contents.                                     *)

VisibleMessages(p) ==
    {i \in DOMAIN messages :
        \/ messages[i].channel = "world"
        \/ messages[i].channel = "direct" /\ p \in {messages[i].sender, messages[i].recipient}}

Inbox(p) == {messages[i].n : i \in VisibleMessages(p)}

VisibleGroupChats(p) == {i \in DOMAIN chats : p \in chats[i].members}

VisibleGroupChatMessages(p, since) ==
    UNION {{m.n : m \in {x \in ToSet(chats[i].messages) : x.tick >= since}} :
              i \in VisibleGroupChats(p)}

BriefingMessages(p, since) ==
    {messages[i].n : i \in {j \in VisibleMessages(p) : messages[j].tick >= since}}
    \cup VisibleGroupChatMessages(p, since)

\* GET a chat's messages; a chat p is no member of is answered 403.
GroupChatMessages(p, id) ==
    IF RequireGroupChatMember(Store, id, p)
    THEN {m.n : m \in ToSet(chats[CHOOSE i \in ChatsNamed(Store, id) : TRUE].messages)}
    ELSE {}

\* The payload of a player's websocket.
RealtimeMessages(p) ==
    {messages[i].n : i \in {j \in DOMAIN messages : messages[j].channel = "world"}}
    \cup {messages[i].n : i \in {j \in VisibleMessages(p) : messages[j].channel = "direct"}}
    \cup VisibleGroupChatMessages(p, 0)

\* The payload of a spectator's.
SpectatorMessages ==
    {messages[i].n : i \in DOMAIN messages}
    \cup UNION {{m.n : m \in ToSet(chats[i].messages)} : i \in DOMAIN chats}

-----------------------------------------------------------------------------
(* Actions.                                                                *)

Init ==
    /\ tick = 0
    /\ messages = <<>> /\ chats = <<>>
    /\ book = [p \in Players |-> {}]
    /\ cursor = [p \in Players |-> 0]
    /\ seen = [p \in Players |-> {}]
    /\ log = {} /\ lost = {} /\ reloads = 0

NextContent == Cardinality(log) + 1

\* Whom the sender of a group message believes to be in the chat.
Meant(p, channel, recipient, id) ==
    CASE channel = "world" -> Players
      [] channel = "direct" -> {p, recipient}
      [] channel = "group" -> UNION {c.members : c \in {b \in book[p] : b.id = id}}

Put(store) == messages' = store.messages /\ chats' = store.chats

Logged(n, meant) == log' = log \cup {[n |-> n, meant |-> meant]}

\* Slip: the tick the message carries is not compared with the match's.
CurrentTickAny(t) == TRUE

\* The tick a request carries must be the one the match is at.
CurrentTick(t) == t = tick

\* POST messages, by a player.
PostMessage(p, t, channel, recipient) ==
    /\ Cardinality(log) < MaxMessages
    /\ CurrentTick(t)
    /\ IF channel = "world" THEN recipient = None ELSE recipient \in Players
    /\ Put(AppendMessage(Store, channel, p, recipient, t, NextContent))
    /\ Logged(NextContent, Meant(p, channel, recipient, None))
    /\ UNCHANGED <<tick, book, cursor, seen, lost, reloads>>

\* POST group-chats: the answer tells the creator the id and the members.
PostGroupChat(p, members) ==
    /\ Len(chats) < MaxChats
    /\ members \subseteq Players
    /\ Put(CreateGroupChat(Store, p, members))
    /\ LET new == chats'[Len(chats')]
       IN  book' = [book EXCEPT ![p] = {b \in @ : b.id # new.id}
                                       \cup {[id |-> new.id, members |-> new.members]}]
    /\ UNCHANGED <<tick, cursor, seen, log, lost, reloads>>

\* POST a chat's messages, by a player that was told of it.
PostGroupChatMessage(p, t, id) ==
    /\ Cardinality(log) < MaxMessages
    /\ \E b \in book[p] : b.id = id
    /\ CurrentTick(t)
    /\ RequireGroupChatMember(Store, id, p)
    /\ Put(RecordGroupChatMessage(Store, id, p, t, NextContent))
    /\ Logged(NextContent, Meant(p, "group", None, id))
    /\ UNCHANGED <<tick, book, cursor, seen, lost, reloads>>

\* One message of an envelope on top of those before it: a store, how many are in it, and
\* whether all were valid so far; what comes after an invalid one is not looked at.
ApplyCommandMessage(p, r, acc) ==
    IF ~acc.ok \/ ~ValidCommandMessage(acc.store, r, p) THEN [acc EXCEPT !.ok = FALSE]
    ELSE [acc EXCEPT
            !.n = @ + 1,
            !.store = IF r.channel = "group"
                      THEN RecordGroupChatMessage(@, r.chat, p, tick, acc.n)
                      ELSE AppendMessage(@, r.channel, p, r.recipient, tick, acc.n)]

\* apply_command_envelope_mutations: the messages, then the rest, which may be announced in
\* the world channel or refused.
ApplyEnvelope(p, e) ==
    LET sent == FoldLeft(LAMBDA acc, r : ApplyCommandMessage(p, r, acc),
                         [store |-> Store, n |-> NextContent, ok |-> TRUE], e.messages)
    IN  CASE ~sent.ok -> sent
          [] sent.ok /\ e.rest = "refused" -> [sent EXCEPT !.ok = FALSE]
          [] sent.ok /\ e.rest = "announced" ->
                 [sent EXCEPT !.n = @ + 1,
                              !.store = AppendMessage(@, "world", "system", None, tick, sent.n)]
          [] OTHER -> sent

\* POST command: tried on a copy of the record, and only what is valid as a whole is done.
Command(p, t, e) ==
    /\ CurrentTick(t)
    /\ \A i \in DOMAIN e.messages :
          e.messages[i].chat # None => \E b \in book[p] : b.id = e.messages[i].chat
    /\ LET done == ApplyEnvelope(p, e)
       IN  /\ done.ok
           /\ done.n <= MaxMessages + 1
           /\ Put(done.store)
           /\ log' = log \cup
                 {[n |-> NextContent + i - 1,
                   meant |-> IF i > Len(e.messages) THEN Players
                             ELSE Meant(p, e.messages[i].channel, e.messages[i].recipient,
                                        e.messages[i].chat)] :
                  i \in 1..(done.n - NextContent)}
    /\ UNCHANGED <<tick, book, cursor, seen, lost, reloads>>

\* A treaty route, or a tick that finds one broken, tells the world.
Announce ==
    /\ Cardinality(log) < MaxMessages
    /\ Put(AppendMessage(Store, "world", "system", None, tick, NextContent))
    /\ Logged(NextContent, Players)
    /\ UNCHANGED <<tick, book, cursor, seen, lost, reloads>>

Tick ==
    /\ tick < MaxTick
    /\ tick' = tick + 1
    /\ UNCHANGED <<messages, chats, book, cursor, seen, log, lost, reloads>>

\* GET agent-briefing with since_tick, the tick of the one before; it lists the chats too.
Briefing(p) ==
    /\ seen' = [seen EXCEPT ![p] = @ \cup BriefingMessages(p, cursor[p])]
    /\ cursor' = [cursor EXCEPT ![p] = tick]
    /\ book' = [book EXCEPT ![p] = {[id |-> chats[i].id, members |-> chats[i].members] :
                                        i \in VisibleGroupChats(p)}]
    /\ UNCHANGED <<tick, messages, chats, log, lost, reloads>>

\* A join, a start or a restart: the record comes from the database, which has no messages.
Reload ==
    /\ reloads < MaxReloads
    /\ messages' = <<>> /\ chats' = <<>>
    /\ lost' = lost \cup SpectatorMessages
    /\ reloads' = reloads + 1
    /\ UNCHANGED <<tick, book, cursor, seen, log>>

Next ==
    \/ \E p \in Players, t \in 0..MaxTick :
          \/ \E channel \in {"world", "direct"}, recipient \in Players \cup {None, "nobody"} :
                PostMessage(p, t, channel, recipient)
          \/ \E id \in ChatId : PostGroupChatMessage(p, t, id)
          \/ \E e \in Envelopes : Command(p, t, e)
    \/ \E p \in Players, members \in SUBSET Players : members # {} /\ PostGroupChat(p, members)
    \/ \E p \in Players : Briefing(p)
    \/ Announce
    \/ Tick
    \/ Reload

Spec == Init /\ [][Next]_vars

-----------------------------------------------------------------------------
(* What messaging promises.                                                *)

\* Every variable has the shape of what it stands for.
TypeOK ==
    /\ tick \in 0..MaxTick
    /\ messages \in Seq([channel : {"world", "direct"}, sender : Players \cup {"system"},
                         recipient : Players \cup {None}, tick : 0..MaxTick, n : Content])
    /\ chats \in Seq([id : ChatId, members : SUBSET Players,
                      messages : Seq([sender : Players, tick : 0..MaxTick, n : Content])])
    /\ book \in [Players -> SUBSET [id : ChatId, members : SUBSET Players]]
    /\ cursor \in [Players -> 0..MaxTick]
    /\ seen \in [Players -> SUBSET Content]
    /\ log \subseteq [n : Content, meant : SUBSET Players]
    /\ lost \subseteq Content
    /\ reloads \in 0..MaxReloads

MeantFor(p) == {e.n : e \in {x \in log : p \in x.meant}}

\* A player is shown what was meant for it and nothing else, and by every view alike: the
\* inbox with its chats, the briefing, and the websocket.
ShownToWhomItWasMeant ==
    \A p \in Players :
        LET http == Inbox(p) \cup UNION {GroupChatMessages(p, id) : id \in ChatId}
        IN  /\ http = MeantFor(p) \ lost
            /\ BriefingMessages(p, 0) = http
            /\ RealtimeMessages(p) = http

BriefsOnAll == \A p \in Players : Briefing(p) => MeantFor(p) \ lost \subseteq seen'[p]

\* An agent that asks each time for what came since its last briefing misses nothing, however
\* its requests fall between the ticks and the messages of others.
NothingMissed == [][BriefsOnAll]_vars

\* The record holds what was answered with 202 and was not lost in a reload, each message
\* once: a request that was refused leaves nothing behind, not even the parts before the bad one.
OnlyTheAcknowledged ==
    /\ SpectatorMessages = {e.n : e \in log} \ lost
    /\ Len(messages) + FoldLeft(LAMBDA sum, c : sum + Len(c.messages), 0, chats)
         = Cardinality(SpectatorMessages)
=============================================================================
