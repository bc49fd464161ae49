---------------------------- MODULE ControlChannel ----------------------------
(***************************************************************************)
(* The switch control channel: ControlClient (control_client.py) on one    *)
(* end of a TCP connection, a server built on TcpConnection (tcp.cpp) and  *)
(* ControlMessage (control_protocol.cpp) on the other.                     *)
(*                                                                         *)
(* A frame is a length and a body; both take several units of the byte     *)
(* stream, so a read may stop in the middle of either.  Each unit carries  *)
(* the number of the request it belongs to (history), its request id and   *)
(* its position in the frame.  Units read as a length although they are    *)
(* something else give any of GarbageLengths.  Other fields of a message   *)
(* are left out: what goes wrong here is which bytes are read as what.     *)
(* The type is among them: this server sends nothing but RESPONSEs, so the *)
(* client's test of the type never fails where the message decodes.        *)
(***************************************************************************)
EXTENDS Naturals, Sequences

CONSTANTS
    MaxRequestId,    \* 0xFFFFFFFF
    LengthUnits,     \* units of the length in front of a frame
    BodyUnits,       \* units of a message
    MaximumFrame,    \* the longest frame both ends accept
    GarbageLengths,  \* lengths that misread units may stand for
    MaxRequests      \* bound: requests made

ASSUME ControlAssumption ==
    /\ {MaxRequestId, LengthUnits, BodyUnits} \subseteq Nat \ {0}
    /\ MaximumFrame \in Nat /\ BodyUnits <= MaximumFrame
    /\ GarbageLengths \subseteq Nat /\ MaxRequests \in Nat

VARIABLES
    conn,          \* the connection: "none", "up", or "eof" once the server
                   \* has closed it
    nextRequestId, \* _next_request_id
    request,       \* the request the client is in, and what it has read
    up, down,      \* the two directions of the stream
    sending,       \* what the server has still to send of its response
    requests,      \* requests made so far (history)
    returned,      \* what the last request returned (history)
    disturbed      \* on this connection a send or recv failed or was
                   \* interrupted (history)

controlVars == <<conn, nextRequestId, request, up, down, sending, requests,
                 returned, disturbed>>

-----------------------------------------------------------------------------
(* Frames *)

FrameUnits == LengthUnits + BodyUnits

Frame(n, id) == [p \in 1..FrameUnits |-> [number |-> n, id |-> id, pos |-> p]]

\* units are the positions from..from + Len(units) - 1 of one frame.
RunFrom(units, from) ==
    \A i \in DOMAIN units : /\ units[i].number = units[1].number
                            /\ units[i].pos = from + i - 1

\* The length a receiver takes the units it has read for
LengthsOf(units) == IF RunFrom(units, 1) THEN {BodyUnits} ELSE GarbageLengths

\* ControlMessage.decode and ControlMessage::parse: magic, version and the
\* message's own length only fit a whole message.
Decodes(units) == Len(units) = BodyUnits /\ RunFrom(units, LengthUnits + 1)

-----------------------------------------------------------------------------
(* ControlClient *)

NoRequest == [phase |-> "idle", number |-> 0, id |-> 0, want |-> 0,
              chunks |-> <<>>]
Nothing   == [asked |-> 0, answered |-> 0, error |-> "none"]

Raise(error) == /\ request' = NoRequest
                /\ returned' = [Nothing EXCEPT !.error = error]

\* connect: does nothing if there is a socket.
Connect ==
    /\ request.phase = "idle" /\ conn = "none"
    /\ conn' = "up" /\ up' = <<>> /\ down' = <<>> /\ sending' = <<>>
    /\ disturbed' = FALSE
    /\ returned' = Nothing
    /\ UNCHANGED <<nextRequestId, request, requests>>

CloseConnection ==
    /\ request.phase = "idle" /\ conn # "none"
    /\ conn' = "none" /\ up' = <<>> /\ down' = <<>> /\ sending' = <<>>
    /\ returned' = Nothing /\ disturbed' = FALSE
    /\ UNCHANGED <<nextRequestId, request, requests>>

FollowingId(id) == IF id = MaxRequestId THEN 1 ELSE id + 1

\* request, up to its first recv: sendall sends the frame, or raises after a
\* part of it; the socket stays open, the identifier is used up either way.
Request(sent) ==
    LET n     == requests + 1
        frame == Frame(n, nextRequestId)
        whole == sent = FrameUnits
    IN
    /\ request.phase = "idle" /\ conn # "none" /\ requests < MaxRequests
    /\ requests' = n
    /\ nextRequestId' = FollowingId(nextRequestId)
    /\ up' = IF conn = "eof" THEN up ELSE up \o SubSeq(frame, 1, sent)
    /\ IF whole
       THEN /\ request' = [phase |-> "length", number |-> n,
                           id |-> nextRequestId, want |-> LengthUnits,
                           chunks |-> <<>>]
            /\ returned' = Nothing
       ELSE Raise("send")
    /\ disturbed' = (disturbed \/ ~whole)
    /\ UNCHANGED <<conn, down, sending>>

\* encode refuses a payload that is too large: the identifier is used up.
RequestTooLarge ==
    /\ request.phase = "idle" /\ conn # "none" /\ requests < MaxRequests
    /\ requests' = requests + 1
    /\ nextRequestId' = FollowingId(nextRequestId)
    /\ Raise("encode")
    /\ UNCHANGED <<conn, up, down, sending, disturbed>>

\* Mutant: the identifier of the response is not compared.
Matches_Any(unit) == TRUE

Matches(unit) == unit.id = request.id

\* _receive_exact(want) is done: the length has been read, or the message.
ReadDone(units) ==
    IF request.phase = "length"
    THEN \E length \in LengthsOf(units) :
            IF length > MaximumFrame THEN Raise("too large")
            ELSE IF length = 0 THEN Raise("decode")
            ELSE /\ request' = [request EXCEPT !.phase = "body",
                                    !.want = length, !.chunks = <<>>]
                 /\ UNCHANGED returned
    ELSE IF ~Decodes(units) THEN Raise("decode")
    ELSE IF ~Matches(units[1]) THEN Raise("mismatch")
    ELSE /\ request' = NoRequest
         /\ returned' = [asked |-> request.number, error |-> "none",
                         answered |-> units[1].number]

\* Mutant: every recv of _receive_exact asks for the full size.
Asked_FullSize == request.want

\* What a recv of _receive_exact asks for
Asked == request.want - Len(request.chunks)

\* One recv: some of the units that have arrived, up to what is asked for.
Recv(k) ==
    LET units == request.chunks \o SubSeq(down, 1, k) IN
    /\ request.phase \in {"length", "body"}
    /\ k <= Asked /\ k <= Len(down)
    /\ down' = SubSeq(down, k + 1, Len(down))
    /\ IF Len(units) < request.want
       THEN request' = [request EXCEPT !.chunks = units] /\ UNCHANGED returned
       ELSE ReadDone(units)
    /\ UNCHANGED <<conn, up, sending, nextRequestId, requests, disturbed>>

\* Nothing arrives in time, or the server has closed the connection: what
\* was read of the frame is thrown away, the socket stays open.
RecvFails ==
    /\ request.phase \in {"length", "body"} /\ down = <<>>
    /\ Raise(IF conn = "eof" THEN "closed" ELSE "timeout")
    /\ disturbed' = TRUE
    /\ UNCHANGED <<conn, up, down, sending, nextRequestId, requests>>

\* KeyboardInterrupt while the request waits, whatever has arrived.  (In
\* sendall it leaves what a send that fails leaves.)
RequestInterrupted ==
    /\ request.phase \in {"length", "body"}
    /\ Raise("interrupted")
    /\ disturbed' = TRUE
    /\ UNCHANGED <<conn, up, down, sending, nextRequestId, requests>>

-----------------------------------------------------------------------------
(* The server: receive_frame, parse, send_frame, in a loop.  What it does    *)
(* with a frame it cannot read is not the library's affair; here it hangs   *)
(* up.                                                                      *)

HangUp == /\ conn' = "eof" /\ up' = <<>> /\ sending' = <<>>
          /\ UNCHANGED <<request, down, nextRequestId, requests, returned,
                         disturbed>>

\* receive_exact blocks until everything it asked for is there.
ReceiveFrame ==
    /\ conn = "up" /\ sending = <<>> /\ Len(up) >= LengthUnits
    /\ \E length \in LengthsOf(SubSeq(up, 1, LengthUnits)) :
         LET body == SubSeq(up, LengthUnits + 1, LengthUnits + length) IN
         \/ length > MaximumFrame /\ HangUp
         \/ /\ length <= MaximumFrame /\ Len(up) >= LengthUnits + length
            /\ IF Decodes(body)
               THEN /\ sending' = Frame(body[1].number, body[1].id)
                    /\ up' = SubSeq(up, LengthUnits + length + 1, Len(up))
                    /\ UNCHANGED <<conn, request, down, nextRequestId,
                                   requests, returned, disturbed>>
               ELSE HangUp

\* One send of send_all: part of the length, or of the body.
Send(k) ==
    /\ conn = "up" /\ k <= Len(sending)
    /\ down' = down \o SubSeq(sending, 1, k)
    /\ sending' = SubSeq(sending, k + 1, Len(sending))
    /\ UNCHANGED <<conn, request, up, nextRequestId, requests, returned,
                   disturbed>>

-----------------------------------------------------------------------------
ControlInit ==
    /\ conn = "none" /\ nextRequestId = 1 /\ request = NoRequest
    /\ up = <<>> /\ down = <<>> /\ sending = <<>>
    /\ requests = 0 /\ returned = Nothing /\ disturbed = FALSE

\* The steps of a request that has been sent; each ends in a bounded time.
RequestStep == RecvFails \/ \E k \in 1..FrameUnits : Recv(k)

\* The response a request returns answers that request, whatever timed out,
\* was torn or arrived late before it.  The only other response it can take
\* is one that is a whole round of identifiers old.
AnswerIsOwn ==
    returned.answered # returned.asked =>
        returned.asked >= returned.answered + MaxRequestId

\* As long as no send or recv has failed on the connection, or was interrupted,
\* both ends agree where frames begin: between requests nothing is left in the
\* stream and none has been refused; during one, either its whole frame still
\* waits for the server, or what was read and what is on its way is exactly
\* the response to it (its beginning, if the server is gone).
FramingInStep ==
    ~disturbed /\ conn # "none" =>
        IF request.phase = "idle"
        THEN /\ up \o down \o sending = <<>>
             /\ returned.error \in {"none", "encode"}
        ELSE LET own   == Frame(request.number, request.id)
                 rest  == IF request.phase = "length" THEN own
                          ELSE SubSeq(own, LengthUnits + 1, FrameUnits)
                 sofar == request.chunks \o down \o sending
             IN  \/ up = own /\ sofar = <<>> /\ rest = own
                 \/ up = <<>> /\ sofar = rest
                 \/ conn = "eof" /\ \E k \in 0..FrameUnits :
                                       sofar = SubSeq(rest, 1, k)
=============================================================================
