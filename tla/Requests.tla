------------------------------ MODULE Requests ------------------------------
(***************************************************************************)
(* The bodies of the write routes: what the server's request models let    *)
(* through, the answer a malformed body gets, and the Python SDK's copies  *)
(* of these models.  A caller posts a body, by the SDK or by itself, and   *)
(* mends what the answer names until the body is let through.              *)
(*                                                                         *)
(* A field's value is one of: "absent", "null", "bad" (of another type or  *)
(* out of range), "blank" (of another type, and false in Python: an empty  *)
(* list), "empty", "ok", or the literal it is.  What a handler does with a *)
(* body that is let through is left to the other modules, but for the      *)
(* models it builds from it.  Its names differ from RateLimit's, so that   *)
(* both can be extended together.                                          *)
(***************************************************************************)
EXTENDS Naturals, Sequences, FiniteSets, FiniteSetsExt, SequencesExt

CONSTANT Bodies \* Bodies[r]: the bodies that are sent to route r

WriteRoutes == {"lobby", "join", "orders", "command", "commands", "messages", "group-chats",
           "group-messages", "treaties", "alliances", "guidance", "override"}

ASSUME RequestsAssumption == DOMAIN Bodies \subseteq WriteRoutes

VARIABLES
    route, via,  \* which call it is, and whether the "sdk" makes it or a "raw" caller
    body,
    answer       \* what the caller was told last, or NoAnswer

callVars == <<route, via, body, answer>>

-----------------------------------------------------------------------------
(* Fields, and the errors that pydantic lists for a body, in its order.    *)

Field(name, required, fits, short, other) ==
    [name |-> name, required |-> required, fits |-> fits, short |-> short, other |-> other]

Text(n) == Field(n, TRUE, {"ok", "empty"}, "none", "string_type")
Filled(n) == Field(n, TRUE, {"ok"}, "string_too_short", "string_type")
OptionalText(n) == Field(n, FALSE, {"ok", "empty", "null"}, "none", "string_type")
OptionalFilled(n) == Field(n, FALSE, {"ok", "null"}, "string_too_short", "string_type")
Count(n) == Field(n, TRUE, {"ok"}, "int_parsing", "int_parsing")
OneOf(n, values) == Field(n, TRUE, values, "literal_error", "literal_error")
Members(n) == Field(n, TRUE, {"ok"}, "too_short", "list_type")
Orders(n, required) == Field(n, required, {"ok", "empty"}, "none", "model_type")

Error(loc, type, msg) == [loc |-> loc, type |-> type, msg |-> msg]

NoError == Error(<<>>, "none", "none")

FieldError(f, b, at) ==
    LET v == b[f.name]
    IN  IF v = "absent"
        THEN IF f.required THEN Error(Append(at, f.name), "missing", "none") ELSE NoError
        ELSE IF v \in f.fits THEN NoError
        ELSE Error(Append(at, f.name), IF v = "empty" THEN f.short ELSE f.other, "none")

FieldErrors(fields, b, at) ==
    SelectSeq([i \in DOMAIN fields |-> FieldError(fields[i], b, at)], LAMBDA e : e # NoError)

\* Extra fields are forbidden, and listed last.
Extra(b, at) ==
    IF b["extra"] = "absent" THEN <<>> ELSE << Error(Append(at, "extra"), "extra_forbidden", "none") >>

Errors(fields, b, at) ==
    FieldErrors(fields, b, at) \o Extra(b, at)

Given(v) == v \notin {"absent", "null"}

-----------------------------------------------------------------------------
(* The server's models.                                                    *)

MatchLobbyCreateRequest ==
    << OneOf("map", {"britain"}), Count("tick_interval_seconds"), Count("max_players"),
       Count("victory_city_threshold"), Count("starting_cities_per_player") >>
MatchJoinRequest == << Text("match_id") >>
OrderSubmissionRequest == << Text("match_id"), Count("tick"), Orders("orders", TRUE) >>
MatchMessageCreateRequest ==
    << Text("match_id"), Count("tick"), OneOf("channel", {"world", "direct"}),
       OptionalText("recipient_id"), Filled("content") >>
GroupChatCreateRequest ==
    << Text("match_id"), Count("tick"), Filled("name"), Members("member_ids") >>
GroupChatMessageCreateRequest == << Text("match_id"), Count("tick"), Filled("content") >>
TreatyActionRequest ==
    << Text("match_id"), Text("counterparty_id"),
       OneOf("action", {"propose", "accept", "withdraw"}),
       OneOf("treaty_type", {"non_aggression", "defensive", "trade"}) >>
AllianceActionRequest ==
    << Text("match_id"), OneOf("action", {"create", "join", "leave"}),
       OptionalText("alliance_id"), OptionalFilled("name") >>
GuidanceCreateRequest == << Text("match_id"), Count("tick"), Filled("content") >>
OverrideCreateRequest == << Text("match_id"), Count("tick"), Orders("orders", TRUE) >>

AgentCommandMessage ==
    << OneOf("channel", {"world", "direct", "group"}), OptionalText("recipient_id"),
       OptionalText("group_chat_id"), Filled("content") >>
AgentCommandTreaty ==
    << Text("counterparty_id"), OneOf("action", {"propose", "accept", "withdraw"}),
       OneOf("treaty_type", {"non_aggression", "defensive", "trade"}) >>
AgentCommandAllianceAction ==
    << OneOf("action", {"create", "join", "leave"}),
       OptionalText("alliance_id"), OptionalFilled("name") >>
AgentCommandEnvelopeRequest == << Text("match_id"), Count("tick"), Orders("orders", FALSE) >>

\* Slip: a create is to name an alliance's id, which it must not have.
AllianceFaultInverted(b) ==
    CASE b.action = "create" /\ ~Given(b.alliance_id) -> "create_takes_no_id"
      [] b.action = "create" /\ Given(b.alliance_id) /\ ~Given(b.name) -> "create_needs_name"
      [] b.action = "join" /\ ~Given(b.alliance_id) -> "join_needs_id"
      [] b.action = "join" /\ Given(b.alliance_id) /\ Given(b.name) -> "join_takes_no_name"
      [] b.action = "leave" /\ Given(b.alliance_id) -> "leave_takes_no_id"
      [] b.action = "leave" /\ ~Given(b.alliance_id) /\ Given(b.name) -> "leave_takes_no_name"
      [] OTHER -> "none"

\* validate_action_fields: what a form of the action must and must not have.
AllianceFault(b) ==
    CASE b.action = "create" /\ Given(b.alliance_id) -> "create_takes_no_id"
      [] b.action = "create" /\ ~Given(b.alliance_id) /\ ~Given(b.name) -> "create_needs_name"
      [] b.action = "join" /\ ~Given(b.alliance_id) -> "join_needs_id"
      [] b.action = "join" /\ Given(b.alliance_id) /\ Given(b.name) -> "join_takes_no_name"
      [] b.action = "leave" /\ Given(b.alliance_id) -> "leave_takes_no_id"
      [] b.action = "leave" /\ ~Given(b.alliance_id) /\ Given(b.name) -> "leave_takes_no_name"
      [] OTHER -> "none"

\* It runs only on fields that are right by themselves.
WithFault(errors, fault, at) ==
    IF errors = <<>> /\ fault # "none" THEN << Error(at, "value_error", fault) >> ELSE errors

AllianceErrors(b) ==
    WithFault(Errors(AllianceActionRequest, b, <<>>), AllianceFault(b), <<>>)
CommandAllianceErrors(b) ==
    WithFault(Errors(AgentCommandAllianceAction, b, <<"alliance">>), AllianceFault(b),
              <<"alliance">>)

\* A command's parts are lists of at most two bodies, its alliance a list of at most one.
Each(Check(_), parts) ==
    IF parts = <<>> THEN <<>>
    ELSE Check(parts[1]) \o (IF Len(parts) = 1 THEN <<>> ELSE Check(parts[2]))

CommandErrors(b) ==
    FieldErrors(AgentCommandEnvelopeRequest, b, <<>>)
        \o Each(LAMBDA m : Errors(AgentCommandMessage, m, <<"messages", "item">>), b.messages)
        \o Each(LAMBDA t : Errors(AgentCommandTreaty, t, <<"treaties", "item">>), b.treaties)
        \o Each(CommandAllianceErrors, b.alliance)
        \o Extra(b, <<>>)

ServerFields ==
    [lobby |-> MatchLobbyCreateRequest, join |-> MatchJoinRequest,
     orders |-> OrderSubmissionRequest, messages |-> MatchMessageCreateRequest,
     treaties |-> TreatyActionRequest, guidance |-> GuidanceCreateRequest,
     override |-> OverrideCreateRequest] @@
    ("group-chats" :> GroupChatCreateRequest @@ "group-messages" :> GroupChatMessageCreateRequest)

IsCommand(r) == r \in {"command", "commands"}

ServerErrors(r, b) ==
    IF IsCommand(r) THEN CommandErrors(b)
    ELSE IF r = "alliances" THEN AllianceErrors(b)
    ELSE Errors(ServerFields[r], b, <<>>)

-----------------------------------------------------------------------------
(* The answers.  A handler goes through the errors, and the first that it  *)
(* has a code for decides; each code comes with what its message is about. *)

Answer(code, about) == [code |-> code, about |-> about]
NoAnswer == Answer("none", "none")
Accepted == Answer("accepted", "none")
NotSent == Answer("not_sent", "none")
ServerError == Answer("internal_server_error", "none")

FirstKnown(errors, Rule(_), code) ==
    LET known == SelectInSeq(errors, LAMBDA e : Rule(e) # NoAnswer)
    IN  IF known = 0 THEN Answer(code, "failed") ELSE Rule(errors[known])

MessageRule(e) ==
    CASE e.loc = <<"content">> /\ e.type = "string_too_short"
           -> Answer("invalid_message_content", "content")
      [] e.type = "missing" -> Answer("invalid_message_request", "missing")
      [] OTHER -> NoAnswer

GroupChatRule(e) ==
    CASE e.loc = <<"name">> /\ e.type = "string_too_short"
           -> Answer("invalid_group_chat_name", "name")
      [] e.loc = <<"member_ids">> /\ e.type = "too_short"
           -> Answer("invalid_group_chat_members", "members")
      [] e.loc = <<"content">> /\ e.type = "string_too_short"
           -> Answer("invalid_message_content", "content")
      [] e.type = "missing" -> Answer("invalid_group_chat_request", "missing")
      [] OTHER -> NoAnswer

TreatyRule(e) ==
    CASE e.type = "missing" -> Answer("invalid_treaty_request", "missing")
      [] e.loc = <<"action">> /\ e.type = "literal_error"
           -> Answer("invalid_treaty_action", "action")
      [] e.loc = <<"treaty_type">> /\ e.type = "literal_error"
           -> Answer("invalid_treaty_type", "treaty_type")
      [] OTHER -> NoAnswer

AllianceRule(e) ==
    CASE e.type = "missing" -> Answer("invalid_alliance_request", "missing")
      [] e.loc = <<"action">> /\ e.type = "literal_error"
           -> Answer("invalid_alliance_action", "action")
      [] e.type = "value_error" -> Answer("invalid_alliance_request", e.msg)
      [] OTHER -> NoAnswer

JoinRule(e) ==
    IF e.type = "missing" THEN Answer("invalid_join_request", "missing") ELSE NoAnswer

CreateMatchRule(e) ==
    CASE e.type = "missing" -> Answer("invalid_match_lobby_request", "missing")
      [] e.loc = <<"map">> /\ e.type = "literal_error" -> Answer("invalid_match_map", "map")
      [] OTHER -> NoAnswer

CommandRule(e) ==
    CASE e.loc = <<"messages", "item", "content">> /\ e.type = "string_too_short"
           -> Answer("invalid_message_content", "content")
      [] e.loc = <<"treaties", "item", "action">> /\ e.type = "literal_error"
           -> Answer("invalid_treaty_action", "action")
      [] e.loc = <<"treaties", "item", "treaty_type">> /\ e.type = "literal_error"
           -> Answer("invalid_treaty_type", "treaty_type")
      [] e.type = "missing" -> Answer("invalid_command_request", "missing")
      [] e.type = "value_error" -> Answer("invalid_alliance_request", e.msg)
      [] OTHER -> NoAnswer

\* handle_request_validation_error picks the handler by what the path has in it or
\* ends in; the library's own answer lists every error.
Path ==
    [lobby |-> <<"matches">>, join |-> <<"matches", "m", "join">>,
     orders |-> <<"matches", "m", "orders">>, command |-> <<"matches", "m", "command">>,
     commands |-> <<"matches", "m", "commands">>, messages |-> <<"matches", "m", "messages">>,
     treaties |-> <<"matches", "m", "treaties">>, alliances |-> <<"matches", "m", "alliances">>,
     guidance |-> <<"matches", "m", "agents", "a", "guidance">>,
     override |-> <<"matches", "m", "agents", "a", "override">>] @@
    ("group-chats" :> <<"matches", "m", "group-chats">> @@
     "group-messages" :> <<"matches", "m", "group-chats", "c", "messages">>)

Refusal(r, errors) ==
    LET path == Path[r]
        end == Last(path)
    IN  CASE path = <<"matches">>
               -> FirstKnown(errors, CreateMatchRule, "invalid_match_lobby_request")
          [] end \in {"command", "commands"}
               -> FirstKnown(errors, CommandRule, "invalid_command_request")
          [] "group-chats" \in Range(path)
               -> FirstKnown(errors, GroupChatRule, "invalid_group_chat_request")
          [] end = "messages" /\ "group-chats" \notin Range(path)
               -> FirstKnown(errors, MessageRule, "invalid_message_request")
          [] end = "treaties" -> FirstKnown(errors, TreatyRule, "invalid_treaty_request")
          [] end = "alliances" -> FirstKnown(errors, AllianceRule, "invalid_alliance_request")
          [] end = "join" -> FirstKnown(errors, JoinRule, "invalid_join_request")
          [] OTHER -> Answer("detail", "failed")

-----------------------------------------------------------------------------
(* The SDK.  Its models are copies of the server's; a call builds one from *)
(* its arguments, which raises before anything is sent if it has errors.   *)

SdkMatchLobbyCreateRequest ==
    << OneOf("map", {"britain"}), Count("tick_interval_seconds"), Count("max_players"),
       Count("victory_city_threshold"), Count("starting_cities_per_player") >>
SdkMatchMessageCreateRequest ==
    << Text("match_id"), Count("tick"), OneOf("channel", {"world", "direct"}),
       OptionalText("recipient_id"), Filled("content") >>
SdkGroupChatCreateRequest ==
    << Text("match_id"), Count("tick"), Filled("name"), Members("member_ids") >>
SdkGroupChatMessageCreateRequest == << Text("match_id"), Count("tick"), Filled("content") >>
SdkTreatyActionRequest ==
    << Text("match_id"), Text("counterparty_id"),
       OneOf("action", {"propose", "accept", "withdraw"}),
       OneOf("treaty_type", {"non_aggression", "defensive", "trade"}) >>
SdkAllianceActionRequest ==
    << Text("match_id"), OneOf("action", {"create", "join", "leave"}),
       OptionalText("alliance_id"), OptionalFilled("name") >>
SdkCommandMessage ==
    << OneOf("channel", {"world", "direct", "group"}), OptionalText("recipient_id"),
       OptionalText("group_chat_id"), Filled("content") >>
SdkCommandTreaty ==
    << Text("counterparty_id"), OneOf("action", {"propose", "accept", "withdraw"}),
       OneOf("treaty_type", {"non_aggression", "defensive", "trade"}) >>
SdkCommandAllianceAction ==
    << OneOf("action", {"create", "join", "leave"}),
       OptionalText("alliance_id"), OptionalFilled("name") >>

\* Slip: a leave may have what it likes.
SdkAllianceFaultNoLeave(b) ==
    CASE b.action = "create" /\ Given(b.alliance_id) -> "create_takes_no_id"
      [] b.action = "create" /\ ~Given(b.alliance_id) /\ ~Given(b.name) -> "create_needs_name"
      [] b.action = "join" /\ ~Given(b.alliance_id) -> "join_needs_id"
      [] b.action = "join" /\ Given(b.alliance_id) /\ Given(b.name) -> "join_takes_no_name"
      [] OTHER -> "none"

SdkAllianceFault(b) ==
    CASE b.action = "create" /\ Given(b.alliance_id) -> "create_takes_no_id"
      [] b.action = "create" /\ ~Given(b.alliance_id) /\ ~Given(b.name) -> "create_needs_name"
      [] b.action = "join" /\ ~Given(b.alliance_id) -> "join_needs_id"
      [] b.action = "join" /\ Given(b.alliance_id) /\ Given(b.name) -> "join_takes_no_name"
      [] b.action = "leave" /\ Given(b.alliance_id) -> "leave_takes_no_id"
      [] b.action = "leave" /\ ~Given(b.alliance_id) /\ Given(b.name) -> "leave_takes_no_name"
      [] OTHER -> "none"

SdkOrderBatch == Orders("orders", TRUE)

\* What submit_command makes of its arguments: orders or {}.
SdkCommandBody(b) ==
    [b EXCEPT !.orders = IF @ \in {"absent", "null", "blank"} THEN "empty" ELSE @]

\* submit_command and submit_command_envelope: the orders and the parts are models, the whole
\* is not.
SdkCommandErrors(b) ==
    FieldErrors(<<SdkOrderBatch>>, SdkCommandBody(b), <<>>)
        \o Each(LAMBDA m : Errors(SdkCommandMessage, m, <<"messages", "item">>), b.messages)
        \o Each(LAMBDA t : Errors(SdkCommandTreaty, t, <<"treaties", "item">>), b.treaties)
        \o Each(LAMBDA a : WithFault(Errors(SdkCommandAllianceAction, a, <<"alliance">>),
                                     SdkAllianceFault(a), <<"alliance">>), b.alliance)

\* The calls that check what they send; submit_orders sends what it is given.
CreateMatchLobby(b) == Errors(SdkMatchLobbyCreateRequest, b, <<>>)
SendMessage(b) == Errors(SdkMatchMessageCreateRequest, b, <<>>)
CreateGroupChat(b) == Errors(SdkGroupChatCreateRequest, b, <<>>)
SendGroupChatMessage(b) == Errors(SdkGroupChatMessageCreateRequest, b, <<>>)
ActOnTreaty(b) == Errors(SdkTreatyActionRequest, b, <<>>)
ActOnAlliance(b) ==
    WithFault(Errors(SdkAllianceActionRequest, b, <<>>), SdkAllianceFault(b), <<>>)

SdkRoutes == {"lobby", "command", "messages", "group-chats", "group-messages", "treaties",
              "alliances"}

SdkErrors(r, b) ==
    CASE r = "lobby" -> CreateMatchLobby(b)
      [] r = "command" -> SdkCommandErrors(b)
      [] r = "messages" -> SendMessage(b)
      [] r = "group-chats" -> CreateGroupChat(b)
      [] r = "group-messages" -> SendGroupChatMessage(b)
      [] r = "treaties" -> ActOnTreaty(b)
      [] r = "alliances" -> ActOnAlliance(b)

\* The body that goes out.
Sent(r, b) == IF r = "command" THEN SdkCommandBody(b) ELSE b

-----------------------------------------------------------------------------
(* What a handler builds from a body that was let through.                 *)

\* apply_command_envelope_mutations makes the request of the focused route from
\* each part of a command, with the command's match and tick.
Focused(b, part) == part @@ [match_id |-> b.match_id, tick |-> b.tick]

BuiltErrors(b) ==
    Each(LAMBDA m : IF m.channel = "group"
                    THEN Errors(GroupChatMessageCreateRequest, Focused(b, m), <<>>)
                    ELSE Errors(MatchMessageCreateRequest, Focused(b, m), <<>>), b.messages)
        \o Each(LAMBDA t : Errors(TreatyActionRequest, Focused(b, t), <<>>), b.treaties)
        \o Each(LAMBDA a : AllianceErrors(Focused(b, a)), b.alliance)

AnswerTo(r, b) ==
    LET errors == ServerErrors(r, b)
    IN  IF errors # <<>> THEN Refusal(r, errors)
        ELSE IF IsCommand(r) /\ BuiltErrors(b) # <<>> THEN ServerError
        ELSE Accepted

-----------------------------------------------------------------------------
(* The caller.                                                             *)

\* Whether an answer is about an error.
Names(a, e) ==
    CASE a.about = "missing" -> e.type = "missing"
      [] a.about = "content" -> e.loc # <<>> /\ Last(e.loc) = "content" /\ e.type = "string_too_short"
      [] a.about = "name" -> e.loc = <<"name">> /\ e.type = "string_too_short"
      [] a.about = "members" -> e.loc = <<"member_ids">> /\ e.type = "too_short"
      [] a.about \in {"action", "treaty_type", "map"}
           -> e.loc # <<>> /\ Last(e.loc) = a.about /\ e.type = "literal_error"
      [] a.about = "failed" -> TRUE
      [] OTHER -> e.msg = a.about

Good(f) == IF "ok" \in f.fits THEN "ok" ELSE CHOOSE v \in f.fits : TRUE

\* What the documentation says a faulty form should have been.
WithoutFault(b, fault) ==
    CASE fault \in {"create_takes_no_id", "leave_takes_no_id"} -> [b EXCEPT !.alliance_id = "null"]
      [] fault \in {"join_takes_no_name", "leave_takes_no_name"} -> [b EXCEPT !.name = "null"]
      [] fault = "create_needs_name" -> [b EXCEPT !.name = "ok"]
      [] fault = "join_needs_id" -> [b EXCEPT !.alliance_id = "ok"]
      [] OTHER -> b

\* b with what the answer names put right.
Mended(fields, b, at, a) ==
    LET wrong == {i \in DOMAIN fields : LET e == FieldError(fields[i], b, at)
                                        IN  e # NoError /\ Names(a, e)}
        whole == FoldSet(LAMBDA i, m : [m EXCEPT ![fields[i].name] = Good(fields[i])], b, wrong)
    IN  IF a.about = "failed" THEN [whole EXCEPT !["extra"] = "absent"]
        ELSE IF "alliance_id" \in DOMAIN b THEN WithoutFault(whole, a.about) ELSE whole

MendedBody(r, b, a) ==
    IF IsCommand(r)
    THEN [Mended(AgentCommandEnvelopeRequest, b, <<>>, a) EXCEPT
            !.messages = [i \in DOMAIN @ |->
                            Mended(AgentCommandMessage, @[i], <<"messages", "item">>, a)],
            !.treaties = [i \in DOMAIN @ |->
                            Mended(AgentCommandTreaty, @[i], <<"treaties", "item">>, a)],
            !.alliance = [i \in DOMAIN @ |->
                            Mended(AgentCommandAllianceAction, @[i], <<"alliance">>, a)]]
    ELSE Mended(IF r = "alliances" THEN AllianceActionRequest ELSE ServerFields[r], b, <<>>, a)

\* The SDK's calls take no other arguments than theirs, and its callers pass a match
\* they know and the tick they have read.
AsCalled(b) ==
    /\ b["extra"] = "absent"
    /\ \A n \in {"match_id", "tick"} \cap DOMAIN b : b[n] = "ok"

CallInit ==
    /\ route \in DOMAIN Bodies
    /\ via \in {"raw"} \cup (IF route \in SdkRoutes THEN {"sdk"} ELSE {})
    /\ body \in Bodies[route]
    /\ via = "sdk" => AsCalled(body)
    /\ answer = NoAnswer

Post ==
    /\ answer = NoAnswer
    /\ answer' = CASE via = "raw" -> AnswerTo(route, body)
                   [] via = "sdk" /\ SdkErrors(route, body) # <<>> -> NotSent
                   [] OTHER -> AnswerTo(route, Sent(route, body))
    /\ UNCHANGED <<route, via, body>>

Mend ==
    /\ via = "raw"
    /\ answer \notin {NoAnswer, Accepted, ServerError}
    /\ body' = MendedBody(route, body, answer)
    /\ answer' = NoAnswer
    /\ UNCHANGED <<route, via>>

CallNext == Post \/ Mend

CallSpec == CallInit /\ [][CallNext]_callVars

\* A caller goes on until it is let through.
FairCallSpec == CallSpec /\ WF_callVars(CallNext)

-----------------------------------------------------------------------------
(* Properties.                                                             *)

\* A refusal names something that is wrong with the body, whichever path it came by,
\* and whatever else is wrong with it.
AnswerFits ==
    answer \notin {NoAnswer, Accepted, NotSent, ServerError} =>
        \E i \in DOMAIN ServerErrors(route, body) : Names(answer, ServerErrors(route, body)[i])

\* The SDK refuses to send exactly what the server would refuse to take: its copies of the
\* models, of orders too, and of their validators have not drifted from the server's.
SdkAgrees ==
    via = "sdk" /\ answer # NoAnswer =>
        (answer = NotSent <=> ServerErrors(route, Sent(route, body)) # <<>>)

\* What the envelope lets through, the models that the handler builds from its parts
\* let through: no request fails in the middle of being applied.
NothingBreaksInside == answer # ServerError

\* A caller that puts right what each answer names gets through.
MendingEnds == via = "raw" => <>(answer = Accepted)
=============================================================================
