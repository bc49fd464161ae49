------------------------------ MODULE Ipv4Header ------------------------------
(***************************************************************************)
(* The IPv4 header on the wire (network/ipv4_packet.cpp) and its checksum  *)
(* (network/internet_checksum.cpp).  A header is a sequence of words of    *)
(* WordBits bits, 16 in the code; version, length, identification, flags,  *)
(* time to live, checksum, source and destination take one word each; the  *)
(* services byte, which has to be zero, belongs to the version's word.  The *)
(* protocol, which is copied, is left out.                                 *)
(***************************************************************************)
EXTENDS Naturals, Sequences, PowersOfTwo

CONSTANT WordBits

ASSUME HeaderAssumption == WordBits \in Nat /\ WordBits >= 4

WordPower   == PowersUpTo(WordBits)
WordLimit   == WordPower[WordBits]
HeaderWords == 8
Version     == 4
DontFragmentFlag   == WordPower[WordBits - 2]
MaximumPayloadSize == WordLimit - 1 - HeaderWords

TtlWord == 5
ChecksumWord == 6

-----------------------------------------------------------------------------
FoldCarry(value) == (value % WordLimit) + (value \div WordLimit)

\* compute_internet_checksum: the one's-complement sum, complemented.
Checksum(words) ==
    LET sum[i \in 0 .. Len(words)] ==
            IF i = 0 THEN 0 ELSE FoldCarry(sum[i - 1] + words[i])
    IN  WordLimit - 1 - FoldCarry(sum[Len(words)])

\* Mutant: the checksum is not looked at.
HasValidChecksum_Unchecked(words) == TRUE

HasValidChecksum(words) == words # <<>> /\ Checksum(words) = 0

-----------------------------------------------------------------------------
\* What create refuses, and what stands for nullopt.
ValidPacket(p) == p.size <= MaximumPayloadSize /\ p.ttl # 0

NoPacket == [source |-> 0, destination |-> 0, identification |-> 0,
             ttl |-> 0, dontFragment |-> FALSE, size |-> 0]

\* serialize: the checksum is that of the header with a zero in its place.
Serialize(p) ==
    LET words == <<Version, HeaderWords + p.size, p.identification,
                   IF p.dontFragment THEN DontFragmentFlag ELSE 0,
                   p.ttl, 0, p.source, p.destination>>
    IN  [words EXCEPT ![ChecksumWord] = Checksum(words)]

\* parse, of a header in front of size units of payload
Parse(words, size) ==
    IF /\ words[1] = Version
       /\ words[2] = HeaderWords + size
       /\ words[4] \in {0, DontFragmentFlag}
       /\ words[TtlWord] # 0
       /\ HasValidChecksum(words)
    THEN [source |-> words[7], destination |-> words[8],
          identification |-> words[3], ttl |-> words[TtlWord],
          dontFragment |-> words[4] = DontFragmentFlag, size |-> size]
    ELSE NoPacket

\* Mutant: a packet is dropped only when nothing is left to decrement.
DecrementTtl_ToZero(p) ==
    IF p.ttl = 0 THEN NoPacket ELSE [p EXCEPT !.ttl = @ - 1]

\* decrement_ipv4_ttl; NoPacket is time_to_live_expired.
DecrementTtl(p) == IF p.ttl <= 1 THEN NoPacket ELSE [p EXCEPT !.ttl = @ - 1]

-----------------------------------------------------------------------------
\* The header with one bit inverted on the way
Flip(words, place) ==
    LET bit == WordPower[place[2]]
        word == words[place[1]]
    IN  [words EXCEPT ![place[1]] =
            IF (word \div bit) % 2 = 1 THEN word - bit ELSE word + bit]
=============================================================================
