------------------------------ MODULE Framing ------------------------------
(***************************************************************************)
(* The R60V frame (protocol.py) and the front-end's reading of it off a     *)
(* stream (tcp_frontend.py, _read_request and _handle_client; the emulator  *)
(* reads the same way).  A frame is a sequence of ASCII codes:              *)
(*   command, 4 hex digits of address, 4 of length, the payload, 2 of sum   *)
(* The frame of a request does not carry its own size: the length field is  *)
(* the size of the payload of a write and of the reply to a read.           *)
(***************************************************************************)
EXTENDS Integers, Sequences, SequencesExt

CONSTANTS
  Address, Value,   \* what requests are about: addresses and bytes
  MaxLength,        \* bound of the model: bytes asked for or written
  MaxRequests,      \* bound of the model: requests on a connection
  Garble            \* the characters a damaged one turns into

Char == 0..127
Byte == 0..255
MaxWord == 65535
Word == 0..MaxWord

\* White space, signs and "_", which Python's int() takes between digits: a
\* damaged character is none of them.  Of a 0x or 0X prefix, which int(..., 16)
\* takes too, the model knows nothing: there the code reads on and the sum has the
\* last word, as with any damaged digit; here the field is refused at once.
IntForgives == 9..13 \cup 28..32 \cup {43, 45, 95}

ASSUME FramingAssumption ==
  /\ Address \subseteq Word /\ Value \subseteq Byte
  /\ MaxLength \in Word /\ MaxRequests \in Nat
  /\ Garble \subseteq Char \ IntForgives

VARIABLES
  sent,     \* the requests a LAN client has put on the connection
  stream,   \* their characters, less those already read
  clean,    \* no character was damaged on the way
  got,      \* the requests the front-end has dispatched
  open      \* the connection is up

vars == <<sent, stream, clean, got, open>>

READ  == 114
WRITE == 119
ACK   == <<79, 75>>

Digit(d) == IF d < 10 THEN 48 + d ELSE 55 + d
Hex2(n)  == <<Digit(n \div 16), Digit(n % 16)>>
Hex4(n)  == Hex2(n \div 256) \o Hex2(n % 256)

IsDigit(c) == c \in 48..57 \/ c \in 65..70 \/ c \in 97..102
DigitOf(c) == IF c < 58 THEN c - 48 ELSE IF c < 71 THEN c - 55 ELSE c - 87
AllDigits(s) == \A i \in DOMAIN s : IsDigit(s[i])
Number2(s) == 16 * DigitOf(s[1]) + DigitOf(s[2])
Number4(s) == 256 * Number2(SubSeq(s, 1, 2)) + Number2(SubSeq(s, 3, 4))
Upper(s)  == [i \in DOMAIN s |-> IF s[i] \in 97..122 THEN s[i] - 32 ELSE s[i]]

Checksum_LastOnly(m) ==  \* mutant: only the last character counts
  Hex2(m[Len(m)])

Sum(m) ==
  LET upTo[i \in 0..Len(m)] == IF i = 0 THEN 0 ELSE upTo[i - 1] + m[i] IN upTo[Len(m)]

Checksum(m) == Hex2(Sum(m) % 256)
WithSum(m)  == m \o Checksum(m)

EncodeData(data) ==
  [j \in 1..(2 * Len(data)) |-> Hex2(data[(j + 1) \div 2])[2 - (j % 2)]]

DecodeData(s) == [i \in 1..(Len(s) \div 2) |-> Number2(SubSeq(s, 2 * i - 1, 2 * i))]

Envelope(command, address, length) == <<command>> \o Hex4(address) \o Hex4(length)

BuildFrame(command, address, length, data) ==
  WithSum(Envelope(command, address, length) \o EncodeData(data))

BuildRead(address, length)  == BuildFrame(READ, address, length, <<>>)
BuildWrite(address, data)   == BuildFrame(WRITE, address, Len(data), data)
BuildAck(command, address, length) == WithSum(Envelope(command, address, length) \o ACK)

ExpectedResponseLen(request) ==
  IF request[1] = READ THEN 9 + 2 * Number4(SubSeq(request, 6, 9)) + 2
                       ELSE 9 + Len(ACK) + 2

NoFrame == [command |-> 0, address |-> 0, length |-> 0, data |-> <<>>]

\* The conditions parse_frame raises ProtocolError without.
Payload(raw) == SubSeq(raw, 10, Len(raw) - 2)

WellFormed(raw) ==
  /\ Len(raw) >= 11 /\ raw[1] \in {READ, WRITE}
  /\ AllDigits(SubSeq(raw, 2, 9))
  /\ Payload(raw) = ACK \/ (Len(Payload(raw)) % 2 = 0 /\ AllDigits(Payload(raw)))
  /\ Checksum(SubSeq(raw, 1, Len(raw) - 2)) = Upper(SubSeq(raw, Len(raw) - 1, Len(raw)))

ParseFrame(raw) ==
  IF ~WellFormed(raw) THEN NoFrame
  ELSE [command |-> raw[1], address |-> Number4(SubSeq(raw, 2, 5)),
        length |-> Number4(SubSeq(raw, 6, 9)),
        data |-> IF Payload(raw) = ACK THEN <<>> ELSE DecodeData(Payload(raw))]

-----------------------------------------------------------------------------
Requests ==
  {[command |-> READ, address |-> a, length |-> n, data |-> <<>>] :
     a \in Address, n \in 1..MaxLength}
  \cup
  {[command |-> WRITE, address |-> a, length |-> Len(d), data |-> d] :
     a \in Address, d \in UNION {[1..n -> Value] : n \in 1..MaxLength}}

Raw(r) == IF r.command = READ THEN BuildRead(r.address, r.length)
                              ELSE BuildWrite(r.address, r.data)

Reply(r) == IF r.command = READ
            THEN BuildFrame(READ, r.address, r.length, [i \in 1..r.length |-> 255])
            ELSE BuildAck(WRITE, r.address, r.length)

\* What follows an envelope: the data of a write and the sum, or the sum.
RestLen_Counted(e) ==  \* mutant: every length field announces a payload
  IF AllDigits(SubSeq(e, 6, 9)) THEN 2 * Number4(SubSeq(e, 6, 9)) + 2 ELSE 2

RestLen(e) ==
  IF e[1] = WRITE /\ AllDigits(SubSeq(e, 6, 9))
  THEN 2 * Number4(SubSeq(e, 6, 9)) + 2 ELSE 2

HasRequest == Len(stream) >= 9 /\ Len(stream) >= 9 + RestLen(SubSeq(stream, 1, 9))

SendRequest(r) ==
  /\ open /\ Len(sent) < MaxRequests
  /\ sent' = Append(sent, r) /\ stream' = stream \o Raw(r)
  /\ UNCHANGED <<clean, got, open>>

\* One character of what is on the way is damaged.
Damage(i, c) ==
  /\ open /\ clean /\ i \in DOMAIN stream /\ stream[i] # c
  /\ stream' = [stream EXCEPT ![i] = c] /\ clean' = FALSE
  /\ UNCHANGED <<sent, got, open>>

\* A request is read whole and dispatched, or the client is dropped.
HandleRequest ==
  /\ open /\ HasRequest
  /\ LET n     == 9 + RestLen(SubSeq(stream, 1, 9))
         frame == ParseFrame(SubSeq(stream, 1, n))
     IN  /\ stream' = SubSeq(stream, n + 1, Len(stream))
         /\ open' = (frame # NoFrame)
         /\ got' = IF frame # NoFrame THEN Append(got, frame) ELSE got
  /\ UNCHANGED <<sent, clean>>

\* The client hangs up, or is dropped because the machine cannot be reached.
ConnectionEnds ==
  /\ open /\ open' = FALSE
  /\ UNCHANGED <<sent, stream, clean, got>>

Init == sent = <<>> /\ stream = <<>> /\ clean = TRUE /\ got = <<>> /\ open = TRUE

Next ==
  \/ HandleRequest \/ ConnectionEnds
  \/ \E r \in Requests : SendRequest(r)
  \/ \E i \in 1..Len(stream), c \in Garble : Damage(i, c)

Spec == Init /\ [][Next]_vars

-----------------------------------------------------------------------------
Frames == [command : {READ, WRITE}, address : Word, length : Word, data : Seq(Byte)]

TypeOK ==
  /\ sent \in Seq(Requests) /\ Len(sent) <= MaxRequests
  /\ stream \in Seq(Char) /\ {clean, open} \subseteq BOOLEAN
  /\ got \in Seq(Frames)

\* A write whose damaged command letter or length announces less than it holds
\* is read as a shorter request, with two digits of its own data for a sum.
CutShort(f, r) ==
  /\ r.command = WRITE /\ f.address = r.address
  /\ \/ f.command = READ /\ f.length = r.length /\ f.data = <<>>
     \/ f.command = WRITE /\ f.length < r.length /\ f.data = SubSeq(r.data, 1, f.length)

(* Requests in a row on one connection are told apart and understood, each   *)
(* exactly once and in order.  With one character damaged none is dispatched *)
(* that was not sent, unless a write is cut short where its data happens to  *)
(* be the sum: that is the last request dispatched, for what is left of the *)
(* write costs the client its connection (tcp_frontend.py, _handle_client). *)
OnlySentDispatched ==
  \/ IsPrefix(got, sent)
  \/ /\ ~clean /\ Len(got) \in 1..Len(sent)
     /\ IsPrefix(Front(got), sent) /\ CutShort(Last(got), sent[Len(got)])

(* An undamaged connection is dropped by its client only, what is read of it *)
(* ends where a request ends, and each request's reply is well-formed and of *)
(* the size its client waits for (client.py, _expected_response_len).        *)
CleanStaysAligned ==
  clean => \E k \in 0..Len(sent) :
             /\ got = SubSeq(sent, 1, k)
             /\ stream = FlattenSeq([i \in 1..(Len(sent) - k) |-> Raw(sent[k + i])])
             /\ \A i \in 1..k :
                  /\ WellFormed(Reply(got[i]))
                  /\ Len(Reply(got[i])) = ExpectedResponseLen(Raw(got[i]))

=============================================================================
