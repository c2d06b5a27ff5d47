----------------------------- MODULE MCQmqpMail -----------------------------
(* Small instances of QmqpMail for TLC.                                    *)
EXTENDS QmqpMail

MCCharacters ==
  Range(DigitChars) \cup {":", ",", " ", ";", "x", "y", "z", "g", "h", "R"}

MCAddresses == {<<"x">>, <<"y", "y">>}

MCHeaderLines == {<<"g", ";">>, <<"h", "h", ";">>}

MCReceivedLine == <<"R", ";">>

(* Netstrings, with and without leading spaces, commas and colons in them, *)
(* and inputs that are none: leading zeroes, a wrong length, no length, no *)
(* colon, no comma.                                                        *)
Segments ==
  {<<"0", ":", ",">>, <<"1", ":", "x", ",">>, <<"2", ":", "y", "y", ",">>,
   <<"1", ":", " ", ",">>, <<"2", ":", " ", "x", ",">>, <<"2", ":", ":", ",", ",">>,
   <<"0", "0", ":", ",">>, <<"0", "1", ":", "x", ",">>, <<":", ",">>,
   <<"3", ":", "x", ",">>, <<"x">>, <<"1", ":", "x">>}

AddressSegments == {<<"1", ":", "x", ",">>, <<"2", ":", "y", "y", ",">>, <<"1", ":", "z", ",">>}

(* Up to three of any, and mails with up to three recipients.              *)
MCInputs ==
  {FlattenSeq(s) : s \in UNION {[1..n -> Segments] : n \in 0..3}}
    \cup {FlattenSeq(<<<<"1", ":", " ", ",">>>> \o s) :
            s \in UNION {[1..n -> AddressSegments] : n \in 1..4}}

(* Two recipients are accepted, a third is one too many.                   *)
MCMaxRecipients == 2

MCMaxHeaders == 2

Mails ==
  [text : {<< >>, <<"x">>, <<" ">>, <<" ", "x">>, <<":", ",">>},
   from : MCAddresses \cup {<<"z">>, << >>},
   to : UNION {[1..n -> MCAddresses \cup {<<"z">>}] : n \in 0..3}]

(* Each of these mails, should it be the payload, is understood.           *)
MailsUnderstood == Understands(Mails)
=============================================================================
