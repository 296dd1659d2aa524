----------------------------- MODULE MCRequests -----------------------------
(***************************************************************************)
(* What TLC sends to Requests: the bodies of every route, with each        *)
(* field right, wrong or not there, in every combination that the routes'  *)
(* models tell apart.                                                      *)
(***************************************************************************)
EXTENDS Requests

Match == {"ok", "absent"}
Tick == {"ok", "bad", "absent"}
Extras == {"absent", "ok"}
Name == {"absent", "null", "empty", "ok"}

Lobby == [map : {"britain", "other", "absent"}, tick_interval_seconds : Tick, max_players : Tick,
          victory_city_threshold : {"ok", "bad"}, starting_cities_per_player : {"ok", "absent"},
          extra : Extras]
Join == [match_id : {"ok", "null", "absent"}, extra : Extras]
OrderBodies == [match_id : Match, tick : Tick, orders : {"ok", "empty", "bad", "absent"},
                extra : Extras]
MessageBodies == [match_id : Match, tick : Tick, channel : {"world", "direct", "group", "absent"},
                  recipient_id : {"absent", "null", "ok", "bad"},
                  content : {"ok", "empty", "bad", "absent"}, extra : Extras]
Chats == [match_id : Match, tick : Tick, name : Name, member_ids : Name, extra : Extras]
ChatMessages == [match_id : Match, tick : Tick, content : Name, extra : Extras]
Treaties == [match_id : Match, counterparty_id : {"ok", "bad", "absent"},
             action : {"propose", "withdraw", "other", "absent"},
             treaty_type : {"trade", "other", "absent"}, extra : Extras]
Action == {"create", "join", "leave", "other"}
AllianceBodies == [match_id : Match, action : Action \cup {"absent"},
                   alliance_id : {"absent", "null", "ok"}, name : Name, extra : Extras]

\* The parts of commands.
CommandMessage == [channel : {"world", "group"}, recipient_id : {"absent"},
                   group_chat_id : {"ok"}, content : {"ok", "empty", "absent"}, extra : {"absent"}]
                  \cup [channel : {"other"}, recipient_id : {"bad"}, group_chat_id : {"null"},
                        content : {"ok"}, extra : Extras]
CommandTreaty == [counterparty_id : {"ok"}, action : {"accept", "other"},
                  treaty_type : {"trade", "other", "absent"}, extra : {"absent"}]
CommandAlliance == [action : Action, alliance_id : {"absent", "ok"},
                    name : {"absent", "empty", "ok"}, extra : {"absent"}]

AtMostOne(S) == {<<>>} \cup {<<x>> : x \in S}

\* One part of each kind at most.
Commands == [match_id : {"ok"}, tick : {"ok", "absent"}, orders : {"absent"},
             messages : AtMostOne(CommandMessage), treaties : {<<>>},
             alliance : AtMostOne(CommandAlliance), extra : {"absent"}]
            \cup [match_id : {"ok"}, tick : {"ok"}, orders : {"ok", "bad", "blank", "null"},
                  messages : {<<>>}, treaties : AtMostOne(CommandTreaty),
                  alliance : AtMostOne(CommandAlliance), extra : {"absent"}]

\* Two of a kind, the first of them in order.
Pairs == [match_id : Match, tick : {"ok"}, orders : {"ok"}, extra : Extras,
          messages : {<<m, n>> : m \in {x \in CommandMessage : Errors(AgentCommandMessage, x, <<>>) = <<>>},
                                 n \in CommandMessage},
          treaties : AtMostOne(CommandTreaty), alliance : {<<>>}]

AllBodies ==
    [lobby |-> Lobby, join |-> Join, orders |-> OrderBodies, messages |-> MessageBodies,
     treaties |-> Treaties, alliances |-> AllianceBodies, guidance |-> ChatMessages,
     override |-> OrderBodies, command |-> Commands, commands |-> Pairs] @@
    ("group-chats" :> Chats @@ "group-messages" :> ChatMessages)
=============================================================================
