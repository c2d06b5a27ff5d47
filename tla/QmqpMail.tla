------------------------------ MODULE QmqpMail ------------------------------
(***************************************************************************)
(* The way of a mail through qrelay: QmqpMail::Parse() takes the request   *)
(* apart, the script inserts headers and changes the sender, BasicRelay    *)
(* puts the request for the next hop together, from pieces and from the    *)
(* part of the old one that is still good.                                 *)
(*                                                                         *)
(* Here the bytes matter, and inputs are sequences of characters.          *)
(***************************************************************************)
EXTENDS Netstring

CONSTANTS
  Characters,     \* the bytes of payloads, among them those that the code looks for
  Inputs,         \* the payloads that clients send
  Addresses,      \* what VerifyEmailAddress() (libcommon) accepts
  HeaderLines,    \* the lines insert_header() builds, with their "\r\n"
  ReceivedLine,   \* the Received header that names the client's PID and UID
  MaxRecipients,  \* QmqpMail::MAX_RECIPIENTS
  MaxHeaders      \* IncomingMail::MAX_HEADERS

ASSUME CharactersAssumption ==
  /\ Range(DigitChars) \cup {":", ",", " "} \subseteq Characters
  /\ Inputs \cup HeaderLines \cup {ReceivedLine} \subseteq Seq(Characters)

(* An address has at least one character.                                  *)
ASSUME AddressesAssumption == Addresses \subseteq Seq(Characters) \ {<< >>}

ASSUME LimitsAssumption == MaxRecipients \in Nat \ {0} /\ MaxHeaders \in Nat

VARIABLES
  payload,   \* MutableMail::buffer, which the fields below point into
  input,     \* what Parse() has not consumed yet
  state,     \* the field Parse() expects next, or its result
  message, sender, tail, recipients,
  headers,   \* MutableMail::headers
  request    \* BasicRelay::request, or empty

vars == <<payload, input, state, message, sender, tail, recipients, headers, request>>

Failures == {"MALFORMED", "BAD_ADDRESS", "TOO_MANY_RECIPIENTS"}

Init ==
  /\ payload \in Inputs
  /\ input = payload
  /\ state = "message"
  /\ message = << >> /\ sender = << >> /\ tail = << >> /\ recipients = << >>
  /\ headers = << >>
  /\ request = << >>

-----------------------------------------------------------------------------
(* QmqpMail::Parse(), one netstring at a time.                             *)

ParseMessage ==
  /\ state = "message"
  /\ \/ /\ ParseNetstring(input) = {}
        /\ state' = "MALFORMED"
        /\ UNCHANGED <<input, message>>
     \/ \E netstring \in ParseNetstring(input) :
          /\ message' = netstring.value
          /\ input' = netstring.rest
          /\ state' = "sender"
  /\ UNCHANGED <<payload, sender, tail, recipients, headers, request>>

(* The tail starts one character before the rest of the payload.           *)
TailFrom(rest) == SubSeq(payload, Len(payload) - Len(rest), Len(payload))

ParseSender ==
  /\ state = "sender"
  /\ \/ /\ ParseNetstring(input) = {}
        /\ state' = "MALFORMED"
        /\ UNCHANGED <<input, sender, tail>>
     \/ \E netstring \in ParseNetstring(input) :
          /\ input' = netstring.rest
          /\ \/ /\ netstring.value \notin Addresses
                /\ state' = "BAD_ADDRESS"
                /\ UNCHANGED <<sender, tail>>
             \/ /\ netstring.value \in Addresses
                /\ sender' = netstring.value
                /\ tail' = TailFrom(netstring.rest)
                /\ state' = "recipients"
  /\ UNCHANGED <<payload, message, recipients, headers, request>>

(* The index of the first character that StripLeft() leaves alone.         *)
Stripped(text) == SelectInSeq(text, LAMBDA c : c # " ")

StripLeft(text) ==
  IF Stripped(text) = 0 THEN << >> ELSE SubSeq(text, Stripped(text), Len(text))

(* Mutant: one recipient more fits.                                        *)
FullTooLate == Len(recipients) > MaxRecipients

Full == Len(recipients) >= MaxRecipients

(* After the last one, OnRequest() strips the message.                     *)
ParseRecipient ==
  /\ state = "recipients"
  /\ \/ /\ ParseNetstring(input) = {}
        /\ state' = "MALFORMED"
        /\ UNCHANGED <<input, recipients, message>>
     \/ \E netstring \in ParseNetstring(input) :
          /\ input' = netstring.rest
          /\ \/ /\ netstring.value \notin Addresses
                /\ state' = "BAD_ADDRESS"
                /\ UNCHANGED <<recipients, message>>
             \/ /\ netstring.value \in Addresses /\ Full
                /\ state' = "TOO_MANY_RECIPIENTS"
                /\ UNCHANGED <<recipients, message>>
             \/ /\ netstring.value \in Addresses /\ ~Full
                /\ recipients' = Append(recipients, netstring.value)
                /\ IF input' = << >>
                   THEN state' = "SUCCESS" /\ message' = StripLeft(message)
                   ELSE UNCHANGED <<state, message>>
  /\ UNCHANGED <<payload, sender, tail, headers, request>>

-----------------------------------------------------------------------------
(* The script.                                                             *)

Editable == state = "SUCCESS" /\ request = << >>

(* mail:insert_header(name, value), within the limit; others raise errors. *)
InsertHeader ==
  /\ Editable
  /\ Len(headers) < MaxHeaders
  /\ \E line \in HeaderLines : headers' = <<line>> \o headers
  /\ UNCHANGED <<payload, input, state, message, sender, tail, recipients, request>>

(* mail.sender = address                                                   *)
SetSender ==
  /\ Editable
  /\ sender' \in Addresses
  /\ UNCHANGED <<payload, input, state, message, tail, recipients, headers, request>>

-----------------------------------------------------------------------------
(* The relay.                                                              *)

(* The Received header comes last, if the client's credentials are known.  *)
AssembleHeaders(credentials) ==
  headers \o (IF credentials THEN <<ReceivedLine>> ELSE << >>)

(* Mutant: the length is that of the message the client sent.              *)
BasicRelayStaleLength(additional_headers) ==
  <<Decimal[Len(message)] \o <<":">> >> \o additional_headers
    \o <<message, <<",">>, Decimal[Len(sender)] \o <<":">>, sender, tail>>

(* The buffers that BasicRelay collects: the first netstring's header is   *)
(* NetstringGenerator's (libcommon), the sender's is made by hand, and its *)
(* comma is the first character of the tail.                               *)
BasicRelay(additional_headers) ==
  LET text == Append(additional_headers, message)
  IN  <<Decimal[Len(FlattenSeq(text))] \o <<":">> >> \o text
        \o << <<",">>, Decimal[Len(sender)] \o <<":">>, sender, tail>>

Relay ==
  /\ Editable
  /\ \E credentials \in BOOLEAN : request' = BasicRelay(AssembleHeaders(credentials))
  /\ UNCHANGED <<payload, input, state, message, sender, tail, recipients, headers>>

Next ==
  ParseMessage \/ ParseSender \/ ParseRecipient \/ InsertHeader \/ SetSender \/ Relay

Spec == Init /\ [][Next]_vars

-----------------------------------------------------------------------------
(* Correctness.                                                            *)

(* The encoding of a mail, by the definition of QMQP.                      *)
Encoding(text, from, to) ==
  Netstring(text) \o Netstring(from)
    \o FlattenSeq([i \in DOMAIN to |-> Netstring(to[i])])

(* The first recipient that Parse() cannot take decides what it says of a  *)
(* well-formed mail.                                                       *)
Verdict(from, to) ==
  LET refused == {i \in DOMAIN to : i > MaxRecipients \/ to[i] \notin Addresses}
      first == CHOOSE i \in refused : \A j \in refused : i <= j
  IN  IF from \notin Addresses THEN "BAD_ADDRESS"
      ELSE IF to = << >> THEN "MALFORMED"
      ELSE IF refused = {} THEN "SUCCESS"
      ELSE IF to[first] \notin Addresses THEN "BAD_ADDRESS"
      ELSE "TOO_MANY_RECIPIENTS"

(* Parse() takes every well-formed mail (of a given set) apart into what   *)
(* it was made of, or refuses it for the right reason.                     *)
Understands(mails) ==
  \A mail \in mails :
    payload = Encoding(mail.text, mail.from, mail.to) =>
      /\ state = "recipients" => message = mail.text /\ sender = mail.from
      /\ state \in {"SUCCESS"} \cup Failures => state = Verdict(mail.from, mail.to)
      /\ state = "SUCCESS" => recipients = mail.to /\ message = StripLeft(mail.text)

(* Is the payload the encoding of the mail that Parse() found in it, if    *)
(* the length of the text may have this many zeroes too many?              *)
Encodes(zeroes) ==
  \E i \in 1..Len(payload), j \in 0..Len(payload), from \in Addresses :
    LET text == SubSeq(payload, i, j)
    IN  /\ message = StripLeft(text)
        /\ zeroes > 0 => text = << >>
        /\ payload = [n \in 1..zeroes |-> "0"] \o Encoding(text, from, recipients)

(* Parse() accepts nothing but mails, except that it admits an empty text  *)
(* whose length is written with several zeroes.                            *)
AcceptedIsMail ==
  state = "SUCCESS" => \E zeroes \in 0..Len(payload) : Encodes(zeroes)

(* djb/NetstringParser.cxx: "reject leading zeroes".                       *)
LeadingZeroesRejected == state = "SUCCESS" => Encodes(0)

(* The next hop gets a well-formed mail: the text with the new headers at  *)
(* its top, the sender the script has left, and all recipients.            *)
RelayedMail ==
  request # << >> =>
    \E received \in {<< >>, ReceivedLine} :
      FlattenSeq(request) =
        Encoding(FlattenSeq(headers) \o received \o message, sender, recipients)
=============================================================================
