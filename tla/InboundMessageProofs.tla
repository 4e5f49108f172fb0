-------------------------- MODULE InboundMessageProofs --------------------------
(***************************************************************************)
(* The answer to a message, for any languages, ids and envelope sizes.     *)
(***************************************************************************)
EXTENDS InboundMessage, TLAPS

(* A message has a fault of a code when it breaks a rule of that code. *)
LEMMA FaultsMeaning ==
  ASSUME NEW m
  PROVE  /\ "invalid_json" \in Faults(m) <=> m.json = "broken"
         /\ "unknown_message_type" \in Faults(m) <=> WrongType(m)
         /\ "invalid_payload" \in Faults(m) <=>
              WrongEnvelope(m) \/ WrongSearch(m) \/ WrongText(m)
         /\ "invalid_match_id" \in Faults(m) <=> WrongMatchID(m)
         /\ \A code \in Faults(m) :
              code \in {"invalid_json", "unknown_message_type", "invalid_payload",
                        "invalid_match_id"}
BY DEF Faults

(* What a payload of strings holds. *)
LEMMA PayloadFields ==
  ASSUME NEW p \in Payload, p.decodes
  PROVE  /\ p.native.value \in Language \cup {Unsupported, None}
         /\ p.learning.value \in Language \cup {Unsupported, None}
         /\ p.text \in Text \cup {NoText}
<1>1. Undecodable.decodes = FALSE
  BY DEF Undecodable
<1>2. Missing.value = None
  BY DEF Missing
<1>3. \A values : \A raw \in Raw(values) : raw.value \in values \cup {None}
  BY DEF Raw
<1>4. CASE p \in [decodes : {TRUE}, native : Raw(Language \cup {Unsupported}),
                    learning : Raw(Language \cup {Unsupported}), text : {NoText},
                    match : {Missing}]
  <2>1. /\ p.native \in Raw(Language \cup {Unsupported})
        /\ p.learning \in Raw(Language \cup {Unsupported}) /\ p.text = NoText
    BY <1>4
  <2>2. QED
    BY <1>3, <2>1
<1>5. CASE p \in [decodes : {TRUE}, native : {Missing}, learning : {Missing},
                    text : Text, match : Raw(MatchID)]
  <2>1. p.native = Missing /\ p.learning = Missing /\ p.text \in Text
    BY <1>5
  <2>2. QED
    BY <1>2, <2>1
<1>6. p # Undecodable
  BY <1>1
<1>7. QED
  BY <1>4, <1>5, <1>6 DEF Payload

(* A search is refused exactly when a rule is broken: the supported languages are
   what is left of all codes without the missing and the unsupported ones. *)
LEMMA SearchRules ==
  ASSUME NEW m, m.json = "envelope", m.type = "find_partner", m.payload \in Payload
  PROVE  ValidSearch(m.payload) <=> ~WrongSearch(m)
<1> DEFINE p == m.payload
           n == p.native.value
           l == p.learning.value
<1>1. None \notin Language /\ Unsupported \notin Language
  BY InboundValues
<1>2. Missing.value = None
  BY DEF Missing
<1>3. NewLanguagePair(p) <=> n \in Language /\ l \in Language /\ n # l
  BY DEF NewLanguagePair, Languages, Trimmed, LanguagePair
<1>4. CASE p.decodes
  <2>1. n \in Language \cup {Unsupported, None} /\ l \in Language \cup {Unsupported, None}
    BY <1>4, PayloadFields
  <2>2. {n, l} \cap {None, Unsupported} = {} <=> n \in Language /\ l \in Language
    BY <1>1, <2>1
  <2>3. n \in Language /\ l \in Language => p.native # Missing /\ p.learning # Missing
    BY <1>1, <1>2
  <2>4. QED
    BY <1>3, <1>4, <2>2, <2>3 DEF ValidSearch, WrongSearch
<1>5. CASE ~p.decodes
  BY <1>5 DEF ValidSearch, WrongSearch
<1>6. QED
  BY <1>4, <1>5

(* A text is legal when it is not all blank and not too long: an empty text is all
   blank, so the code need not compare the length with zero. *)
LEMMA LegalTexts ==
  ASSUME NEW t \in Text \cup {NoText}
  PROVE  NewMessageText(t) <=> ~IllegalText(t)
<1>1. t.bytes \in {0, 1, 4096, 4097} /\ (t.bytes = 0 => t.blank)
  <2>1. NoText.bytes = 0 /\ NoText.blank = TRUE
    BY DEF NoText
  <2>2. \A x \in Text : x.bytes \in {0, 1, 4096, 4097} /\ (x.bytes = 0 => x.blank)
    BY DEF Text, maxTextLength
  <2>3. QED
    BY <2>1, <2>2
<1>2. CASE t.bytes = 0
  BY <1>1, <1>2 DEF NewMessageText, IllegalText
<1>3. CASE t.bytes # 0
  <2> DEFINE n == t.bytes
  <2>1. n \in {1, 4096, 4097}
    BY <1>1, <1>3
  <2> HIDE DEF n
  <2>2. n <= 4096 <=> n \in 1 .. 4096
    BY <2>1
  <2>3. QED
    BY <2>2 DEF n, NewMessageText, IllegalText, maxTextLength
<1>4. QED
  BY <1>2, <1>3

(* A text is refused exactly when a rule is broken. *)
LEMMA TextRules ==
  ASSUME NEW m, m.json = "envelope", m.type = "send_message", m.payload \in Payload
  PROVE  ValidText(m.payload) <=> ~WrongText(m)
BY PayloadFields, LegalTexts DEF ValidText, WrongText

(* What an envelope holds. *)
LEMMA EnvelopeFields ==
  ASSUME NEW m \in Message, m.json = "envelope"
  PROVE  m.type \in Commands \cup {Unsupported, None} /\ m.payload \in Payload
BY DEF Message

-----------------------------------------------------------------------------
\* An answer belongs to a message that has arrived, and fits it.
InboundInv == /\ message # None => message \in Message
              /\ outcome # None => message # None
              /\ AnswerFitsMessage

(* The message that a step answers with an error, or carries out. *)
LEMMA ErrorFits ==
  ASSUME InboundInv, Arrived, NEW code, NEW id, Faults(message) # {},
         message.json # "mistyped" => code \in Faults(message),
         message.json = "envelope" => id = message.id,
         outcome' = Error(code, id)
  PROVE  InboundInv'
<1>1. outcome'.is = "error" /\ outcome'.code = code /\ outcome'.id = id
  BY DEF Error
<1>2. message' = message /\ message # None /\ message \in Message
  BY DEF Arrived, InboundInv
<1>3. QED
  BY <1>1, <1>2 DEF InboundInv, AnswerFitsMessage, Faults

LEMMA CarriedOutFits ==
  ASSUME InboundInv, Arrived, Faults(message) = {},
         outcome'.is \notin {"error", "closed"}, outcome'.id = message.id
  PROVE  InboundInv'
<1>1. message' = message /\ message # None /\ message \in Message
  BY DEF Arrived, InboundInv
<1>2. QED
  BY <1>1 DEF InboundInv, AnswerFitsMessage, Faults

(* A message over the limit, one without an envelope, and one without an id or type. *)
LEMMA UnreadInv ==
  ASSUME InboundInv, Close \/ RejectJSON \/ RejectEnvelope \/ RejectUnknownType
  PROVE  InboundInv'
<1>1. CASE Close
  <2>1. message' = message /\ message # None /\ outcome'.is = "closed"
    BY <1>1 DEF Close, Arrived
  <2>2. QED
    BY <2>1 DEF InboundInv, AnswerFitsMessage
<1>2. CASE RejectJSON
  <2>1. Arrived /\ message.json # "envelope" /\ outcome' = Error("invalid_json", None)
    BY <1>2 DEF RejectJSON, Readable
  <2>2. message.json \in {"broken", "mistyped"}
    BY <2>1 DEF Arrived, InboundInv, Message
  <2>3. CASE message.json = "broken"
    BY <2>1, <2>3, FaultsMeaning, ErrorFits
  <2>4. CASE message.json = "mistyped"
    <3>1. "invalid_payload" \in Faults(message)
      BY <2>4, FaultsMeaning DEF WrongEnvelope
    <3>2. QED
      BY <2>1, <2>4, <3>1, ErrorFits
  <2>5. QED
    BY <2>2, <2>3, <2>4
<1>3. CASE RejectEnvelope
  <2>1. Arrived /\ WrongEnvelope(message) /\ outcome' = Error("invalid_payload", message.id)
    BY <1>3 DEF RejectEnvelope, Parsed, Readable, WrongEnvelope
  <2>2. QED
    BY <2>1, FaultsMeaning, ErrorFits
<1>4. CASE RejectUnknownType
  <2>1. Arrived /\ WrongType(message) /\ outcome' = Error("unknown_message_type", message.id)
    BY <1>4 DEF RejectUnknownType, Command, Validated, Parsed, Readable, WrongType
  <2>2. QED
    BY <2>1, FaultsMeaning, ErrorFits
<1>5. QED
  BY <1>1, <1>2, <1>3, <1>4

(* A command that is looked at has an envelope, an id and one type. *)
LEMMA CommandFacts ==
  ASSUME InboundInv, NEW type \in Commands, Command(type)
  PROVE  /\ Arrived /\ message.json = "envelope" /\ message.type = type
         /\ message.payload \in Payload
         /\ ~WrongEnvelope(message) /\ ~WrongType(message)
<1>1. /\ Arrived /\ message.json = "envelope" /\ message.type = type
      /\ message.id # None /\ message.type # None
  BY DEF Command, Validated, Parsed, Readable
<1>2. message \in Message
  BY <1>1 DEF Arrived, InboundInv
<1>3. message.type # Unsupported
  BY <1>1, InboundValues
<1>4. QED
  BY <1>1, <1>2, <1>3, EnvelopeFields DEF WrongEnvelope, WrongType

(* A search, carried out or refused, and a cancellation, which has no rules. *)
LEMMA SearchInv ==
  ASSUME InboundInv, FindPartner \/ RejectSearch \/ CancelSearch
  PROVE  InboundInv'
<1>1. CASE FindPartner
  <2>1. Command("find_partner") /\ ValidSearch(message.payload)
    BY <1>1 DEF FindPartner
  <2>2. outcome'.is = "search" /\ outcome'.id = message.id
    BY <1>1 DEF FindPartner
  <2>3. /\ Arrived /\ message.json = "envelope" /\ message.type = "find_partner"
        /\ message.payload \in Payload /\ ~WrongEnvelope(message) /\ ~WrongType(message)
    BY <2>1, CommandFacts DEF Commands
  <2>4. ~WrongSearch(message) /\ ~WrongText(message) /\ ~WrongMatchID(message)
    BY <2>1, <2>3, SearchRules DEF WrongText, WrongMatchID
  <2>5. Faults(message) = {}
    BY <2>3, <2>4, FaultsMeaning
  <2>6. QED
    BY <2>2, <2>3, <2>5, CarriedOutFits
<1>2. CASE RejectSearch
  <2>1. /\ Command("find_partner") /\ ~ValidSearch(message.payload)
        /\ outcome' = Error("invalid_payload", message.id)
    BY <1>2 DEF RejectSearch
  <2>2. /\ Arrived /\ message.json = "envelope" /\ message.type = "find_partner"
        /\ message.payload \in Payload
    BY <2>1, CommandFacts DEF Commands
  <2>3. "invalid_payload" \in Faults(message)
    BY <2>1, <2>2, SearchRules, FaultsMeaning
  <2>4. QED
    BY <2>1, <2>2, <2>3, ErrorFits
<1>3. CASE CancelSearch
  <2>1. /\ Command("cancel_search")
        /\ outcome'.is = "cancel" /\ outcome'.id = message.id
    BY <1>3 DEF CancelSearch
  <2>2. /\ Arrived /\ message.json = "envelope" /\ message.type = "cancel_search"
        /\ ~WrongEnvelope(message) /\ ~WrongType(message)
    BY <2>1, CommandFacts DEF Commands
  <2>3. ~WrongSearch(message) /\ ~WrongText(message) /\ ~WrongMatchID(message)
    BY <2>2 DEF WrongSearch, WrongText, WrongMatchID
  <2>4. Faults(message) = {}
    BY <2>2, <2>3, FaultsMeaning
  <2>5. QED
    BY <2>1, <2>2, <2>4, CarriedOutFits
<1>4. QED
  BY <1>1, <1>2, <1>3

(* A text, carried out or refused for itself or for its match id. *)
LEMMA TextInv ==
  ASSUME InboundInv, SendMessage \/ RejectText \/ RejectMatchID
  PROVE  InboundInv'
<1>1. Command("send_message")
  BY DEF SendMessage, RejectText, RejectMatchID
<1>2. /\ Arrived /\ message.json = "envelope" /\ message.type = "send_message"
      /\ message.payload \in Payload /\ ~WrongEnvelope(message) /\ ~WrongType(message)
  BY <1>1, CommandFacts DEF Commands
<1>3. CASE SendMessage
  <2>1. /\ ValidText(message.payload) /\ Trimmed(message.payload.match) # None
        /\ outcome'.is = "text" /\ outcome'.id = message.id
    BY <1>3 DEF SendMessage
  <2>2. ~WrongSearch(message) /\ ~WrongText(message) /\ ~WrongMatchID(message)
    BY <1>2, <2>1, TextRules DEF WrongSearch, WrongMatchID, Trimmed
  <2>3. Faults(message) = {}
    BY <1>2, <2>2, FaultsMeaning
  <2>4. QED
    BY <1>2, <2>1, <2>3, CarriedOutFits
<1>4. CASE RejectText
  <2>1. ~ValidText(message.payload) /\ outcome' = Error("invalid_payload", message.id)
    BY <1>4 DEF RejectText
  <2>2. "invalid_payload" \in Faults(message)
    BY <1>2, <2>1, TextRules, FaultsMeaning
  <2>3. QED
    BY <1>2, <2>1, <2>2, ErrorFits
<1>5. CASE RejectMatchID
  <2>1. /\ ValidText(message.payload) /\ Trimmed(message.payload.match) = None
        /\ outcome' = Error("invalid_match_id", message.id)
    BY <1>5 DEF RejectMatchID
  <2>2. "invalid_match_id" \in Faults(message)
    BY <1>2, <2>1, FaultsMeaning DEF WrongMatchID, ValidText, Trimmed
  <2>3. QED
    BY <1>2, <2>1, <2>2, ErrorFits
<1>6. QED
  BY <1>3, <1>4, <1>5

(* Every step of the read loop keeps the invariant. *)
LEMMA InboundNextInv == InboundInv /\ [Next]_vars => InboundInv'
<1> SUFFICES ASSUME InboundInv, [Next]_vars PROVE InboundInv'
  OBVIOUS
<1>1. ASSUME NEW m \in Message, ReadMessage(m)
      PROVE  InboundInv'
  <2>1. message' = m /\ outcome' = outcome /\ outcome = None
    BY <1>1 DEF ReadMessage, InboundInv
  <2>2. QED
    BY <2>1 DEF InboundInv, AnswerFitsMessage
<1>2. CASE Continue
  BY <1>2 DEF Continue, InboundInv, AnswerFitsMessage
<1>3. CASE Closed \/ UNCHANGED vars
  BY <1>3 DEF Closed, vars, InboundInv, AnswerFitsMessage, Faults
<1>4. QED
  BY <1>1, <1>2, <1>3, UnreadInv, SearchInv, TextInv DEF Next

THEOREM InboundSpecInv == Spec => []InboundInv
<1>1. Init => InboundInv
  BY DEF Init, InboundInv, AnswerFitsMessage
<1>2. QED
  BY <1>1, InboundNextInv, PTL DEF Spec

(* Exactly the messages with something wrong are refused, an error names something
   that is wrong with the message (but for JSON that is no envelope), and the answer
   carries the message's request id. *)
THEOREM AnswerFitsMessageAlways == Spec => []AnswerFitsMessage
<1>1. InboundInv => AnswerFitsMessage
  BY DEF InboundInv
<1>2. QED
  BY <1>1, InboundSpecInv, PTL
=============================================================================
