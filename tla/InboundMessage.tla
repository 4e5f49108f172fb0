--------------------------- MODULE InboundMessage ---------------------------
(***************************************************************************)
(* What one connection makes of one message: the read limit, the envelope, *)
(* the dispatch on the type, and the payload rules of each command.  Text, *)
(* codes and ids are described by what the rules look at.                  *)
(***************************************************************************)
EXTENDS Domain, Integers

CONSTANTS RequestID, MatchID,   \* ids a client may name
          Unsupported,          \* a language code NewLanguage refuses, a type nobody handles
          EnvelopeBytes         \* bytes of a message around its text

Commands == {"find_partner", "cancel_search", "send_message"}

ASSUME InboundValues == /\ EnvelopeBytes \subseteq Nat
                        /\ Unsupported \notin Language \cup Commands
                        /\ None \notin RequestID \cup MatchID \cup Language

VARIABLES message, outcome

vars == <<message, outcome>>

maxInboundMessageBytes == 8192
maxTextLength == 4096

\* loose: blanks around it or, for a language code, capital letters.
Raw(values) == [value : values \cup {None}, loose : BOOLEAN]

\* A text by its bytes, the wire bytes each takes when escaped, and whether all
\* of it is blank.
Text == { t \in [bytes : {0, 1, maxTextLength, maxTextLength + 1},
                 escaped : {1, 2}, blank : BOOLEAN] : t.bytes = 0 => t.blank }

NoText == [bytes |-> 0, escaped |-> 1, blank |-> TRUE]
Missing == [value |-> None, loose |-> FALSE]

\* Absent, or not an object of strings: json.Unmarshal fails.  A payload with
\* other fields, or null, leaves the fields of the command empty.
Undecodable == [decodes |-> FALSE, text |-> NoText]

Payload ==
  {Undecodable}
    \cup [decodes : {TRUE}, native : Raw(Language \cup {Unsupported}),
          learning : Raw(Language \cup {Unsupported}), text : {NoText}, match : {Missing}]
    \cup [decodes : {TRUE}, native : {Missing}, learning : {Missing},
          text : Text, match : Raw(MatchID)]

\* json: "broken" is no JSON, "mistyped" is JSON that is no envelope, with or without
\* a request id that could be read.
Message ==
  [json : {"broken"}, payload : {Undecodable}, envelope : EnvelopeBytes]
    \cup [json : {"mistyped"}, id : RequestID \cup {None}, payload : {Undecodable},
          envelope : EnvelopeBytes]
    \cup [json : {"envelope"}, id : RequestID \cup {None},
          type : Commands \cup {Unsupported, None},
          payload : Payload, envelope : EnvelopeBytes]

Error(code, id) == [is |-> "error", code |-> code, id |-> id]

Init == message = None /\ outcome = None

\* NewLanguage and NewRoomID trim, NewLanguage lowers; what is left decides.
Trimmed(raw) == raw.value
Languages(p) == [native |-> Trimmed(p.native), learning |-> Trimmed(p.learning)]

\* Faulty variant: the codes are compared as they were sent.
NewLanguagePairOfCodes(p) ==
  /\ Trimmed(p.native) \in Language /\ Trimmed(p.learning) \in Language
  /\ p.native # p.learning

NewLanguagePair(p) == Languages(p) \in LanguagePair

\* Faulty variant: the last legal length is refused.
NewMessageTextBelow(t) == ~t.blank /\ t.bytes < maxTextLength

NewMessageText(t) == ~t.blank /\ t.bytes <= maxTextLength

ReadMessage(m) == message = None /\ message' = m /\ UNCHANGED outcome

\* The message is as far as the check named, and not answered yet.
Arrived == /\ message # None /\ outcome = None
           /\ UNCHANGED message

Size == message.envelope + message.payload.text.bytes * message.payload.text.escaped

Readable == Arrived /\ Size <= maxInboundMessageBytes
Parsed == Readable /\ message.json = "envelope"
Validated == Parsed /\ message.id # None /\ message.type # None
Command(type) == Validated /\ message.type = type

\* Over the limit ReadMessage fails and ServeHTTP ends the connection.
Close == Arrived /\ Size > maxInboundMessageBytes /\ outcome' = [is |-> "closed"]

\* Any error of json.Unmarshal: a field of another type is one, and the id is not used.
RejectJSON == /\ Readable /\ message.json # "envelope"
              /\ outcome' = Error("invalid_json", None)

\* validate looks at the request id first; without one the answer has none either.
RejectEnvelope == /\ Parsed /\ (message.id = None \/ message.type = None)
                  /\ outcome' = Error("invalid_payload", message.id)

RejectUnknownType == /\ Command(Unsupported)
                     /\ outcome' = Error("unknown_message_type", message.id)

CancelSearch == /\ Command("cancel_search")
                /\ outcome' = [is |-> "cancel", id |-> message.id]

\* Both codes given, both supported, and two of them.
ValidSearch(p) == /\ p.decodes /\ p.native # Missing /\ p.learning # Missing
                  /\ NewLanguagePair(p)

FindPartner == /\ Command("find_partner") /\ ValidSearch(message.payload)
               /\ outcome' = [is |-> "search", id |-> message.id,
                              pair |-> Languages(message.payload)]

RejectSearch == /\ Command("find_partner") /\ ~ValidSearch(message.payload)
                /\ outcome' = Error("invalid_payload", message.id)

ValidText(p) == p.decodes /\ NewMessageText(p.text)

SendMessage == /\ Command("send_message") /\ ValidText(message.payload)
               /\ Trimmed(message.payload.match) # None
               /\ outcome' = [is |-> "text", id |-> message.id,
                              match |-> Trimmed(message.payload.match)]

\* The text is looked at before the match id.
RejectText == /\ Command("send_message") /\ ~ValidText(message.payload)
              /\ outcome' = Error("invalid_payload", message.id)

RejectMatchID == /\ Command("send_message") /\ ValidText(message.payload)
                 /\ Trimmed(message.payload.match) = None
                 /\ outcome' = Error("invalid_match_id", message.id)

\* continue: the loop goes on to the next message, unless the connection is closed.
Continue == /\ outcome # None /\ outcome.is # "closed"
            /\ message' = None /\ outcome' = None

Closed == outcome # None /\ outcome.is = "closed" /\ UNCHANGED vars

Next == \/ \E m \in Message : ReadMessage(m)
        \/ Close \/ RejectJSON \/ RejectEnvelope \/ RejectUnknownType
        \/ FindPartner \/ RejectSearch \/ CancelSearch
        \/ SendMessage \/ RejectText \/ RejectMatchID
        \/ Continue \/ Closed

Spec == Init /\ [][Next]_vars

-----------------------------------------------------------------------------
\* The rules of docs/api/websocket.md, each on its own: everything a message does wrong.
WrongEnvelope(m) == \/ m.json = "mistyped"
                    \/ m.json = "envelope" /\ None \in {m.id, m.type}
WrongType(m) == m.json = "envelope" /\ m.type = Unsupported

WrongSearch(m) ==
  /\ m.json = "envelope" /\ m.type = "find_partner"
  /\ m.payload.decodes =>
       \/ {m.payload.native.value, m.payload.learning.value} \cap {None, Unsupported} # {}
       \/ m.payload.native.value = m.payload.learning.value

IllegalText(t) == t.blank \/ t.bytes \notin 1 .. 4096

WrongText(m) == /\ m.json = "envelope" /\ m.type = "send_message"
                /\ m.payload.decodes => IllegalText(m.payload.text)

WrongMatchID(m) ==
  /\ m.json = "envelope" /\ m.type = "send_message"
  /\ m.payload.decodes /\ m.payload.match.value = None

Faults(m) ==
  { code \in {"invalid_json", "unknown_message_type", "invalid_payload", "invalid_match_id"} :
      \/ code = "invalid_json" /\ m.json = "broken"
      \/ code = "unknown_message_type" /\ WrongType(m)
      \/ code = "invalid_payload" /\ (WrongEnvelope(m) \/ WrongSearch(m) \/ WrongText(m))
      \/ code = "invalid_match_id" /\ WrongMatchID(m) }

(* In whatever order the code looks: exactly the messages with something wrong are
   refused, the error names something that is wrong with the message, and the answer
   carries its request id.  Of JSON that is no envelope only the refusal is stated:
   there the code answers another error than the document, without the id. *)
AnswerFitsMessage ==
  outcome # None /\ outcome.is # "closed" =>
    /\ outcome.is = "error" <=> Faults(message) # {}
    /\ outcome.is = "error" /\ message.json # "mistyped" => outcome.code \in Faults(message)
    /\ message.json = "envelope" => outcome.id = message.id

(* docs/api/websocket.md:187 of invalid_json: the incoming message is not valid JSON.
   The code answers it for every error of json.Unmarshal, and a message that is JSON
   with a field of another type is one. *)
InvalidJSONMeansNoJSON ==
  outcome # None /\ outcome.is = "error" /\ outcome.code = "invalid_json" =>
    message.json = "broken"
=============================================================================
