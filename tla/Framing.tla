------------------------------ MODULE Framing ------------------------------
(***************************************************************************)
(* The body of a publish request: freighter-client frames the metadata and  *)
(* the tarball with their lengths in front, freighter-server takes the      *)
(* frame apart again.                                                       *)
(***************************************************************************)
EXTENDS Naturals, Sequences

Bytes == 0 .. 255

\* u32::try_from of a length that does not panic.
Fits(n) == n \div 16777216 < 256

\* Mistake: network byte order.
to_le_bytes_Big(n) ==
  <<n \div 16777216, (n \div 65536) % 256, (n \div 256) % 256, n % 256>>

to_le_bytes(n) ==
  <<n % 256, (n \div 256) % 256, (n \div 65536) % 256, n \div 16777216>>

from_le_bytes(b) == b[1] + 256 * b[2] + 65536 * b[3] + 16777216 * b[4]

\* Client::publish
Frame(json, tarball) ==
  to_le_bytes(Len(json)) \o (json \o (to_le_bytes(Len(tarball)) \o tarball))

\* Bytes::split_to: what is split off, and what is left.
Front(s, n) == SubSeq(s, 1, n)
Rest(s, n) == SubSeq(s, n + 1, Len(s))

Refused == [ok |-> FALSE, json |-> <<>>, tarball |-> <<>>]

\* The server: refused as truncated, or taken apart.  What follows the tarball
\* is ignored, and a request without a tarball is refused.
Parse(body) ==
  LET jsonLen  == from_le_bytes(Front(body, 4))
      afterLen == Rest(body, 4)
      after    == Rest(afterLen, jsonLen)
      crateLen == from_le_bytes(Front(after, 4))
      data     == Rest(after, 4)
  IN IF \/ Len(body) <= 4
        \/ Len(afterLen) < jsonLen
        \/ Len(after) <= 4
        \/ Len(data) < crateLen
     THEN Refused
     ELSE [ok |-> TRUE, json |-> Front(afterLen, jsonLen),
           tarball |-> Front(data, crateLen)]
=============================================================================
