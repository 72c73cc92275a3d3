------------------------------ MODULE SpfCidr ------------------------------
(***************************************************************************)
(* The containment test of SpfEvaluator: does the checked address lie in   *)
(* the network that an ip4 or ip6 mechanism, or a resolved host with a     *)
(* prefix length, spans?  The code compares whole bytes and then masks one *)
(* more, because the candidate may have bits set past its prefix.          *)
(***************************************************************************)
EXTENDS Integers, Sequences

CONSTANTS
  ByteBits,  \* bits of a byte, 8 in the code
  Ip4Bytes,  \* bytes of an IPv4 address, 4 in the code
  Ip6Bytes,  \* bytes of an IPv6 address, 16 in the code
  Checked,   \* checkedIp, the sequence of its bytes
  Junk,      \* the text of a prefix that int.TryParse does not accept
  None       \* no prefix, no address or no domain

\* The length of an address is its family.
Width(address) == ByteBits * Len(address)

Clamp(value, low, high) ==
  IF value < low THEN low ELSE IF value > high THEN high ELSE value

\* Variant with a mistake: the mask keeps the low bits of the byte.
HighBits_Low(byte, bits) == byte % (2 ^ bits)

\* byte & (0xFF << (8 - bits)), in a byte.
HighBits(byte, bits) == byte - (byte % (2 ^ (ByteBits - bits)))

IsInCidr(candidate, length) ==
  LET bits == Clamp(length, 0, Width(candidate))
      fullBytes == bits \div ByteBits
      remainingBits == bits % ByteBits
  IN /\ Len(candidate) = Len(Checked)
     /\ \A i \in 1 .. fullBytes : candidate[i] = Checked[i]
     /\ remainingBits # 0 =>
          HighBits(candidate[fullBytes + 1], remainingBits) =
            HighBits(Checked[fullBytes + 1], remainingBits)

\* The prefix of a mechanism without one, by the name of the mechanism.
DefaultPrefix(mechanism) ==
  ByteBits * (IF mechanism = "ip6" THEN Ip6Bytes ELSE Ip4Bytes)

\* Nothing keeps the network of an ip4 mechanism from being an IPv6 address, or the
\* other way round.  With a prefix that is no number it matches nothing ...
MatchesIpMechanism(mechanism, network, prefix) ==
  /\ network # None
  /\ prefix # Junk
  /\ IsInCidr(network, IF prefix = None THEN DefaultPrefix(mechanism) ELSE prefix)

\* ... where a and mx take the whole address then.
MatchesHost(addresses, prefix) ==
  \E address \in addresses :
    IsInCidr(address, IF prefix \in {None, Junk} THEN Width(address) ELSE prefix)
=============================================================================
