---------------------------- MODULE CallerIdentity ----------------------------
(***************************************************************************)
(* Whom a request is counted against.  The parts of X-Forwarded-For are a  *)
(* sequence: what the client sent, then the hop the load balancer appends. *)
(* An address is its family, its /64 prefix (all of an IPv4 address) and   *)
(* the rest.                                                               *)
(***************************************************************************)
EXTENDS Integers, Sequences

CONSTANTS
  Prefixes,  \* what is before the last 64 bits of an address
  Hosts,     \* what is in them
  Blank,     \* a part with nothing in it
  Missing    \* the identity that requests without a header share

Address == [v6 : BOOLEAN, prefix : Prefixes, host : Hosts]

ASSUME IdentityAssumption == Blank \notin Address

\* foldIpv6Prefix: an IPv6 address stands for its /64.
FoldIpv6Prefix(address) ==
  IF address.v6 THEN [v6 |-> TRUE, prefix |-> address.prefix] ELSE address

NonBlank(parts) == {n \in DOMAIN parts : parts[n] # Blank}

\* Mutant: the left-most entry, the one the client may have written.
RightMost_First(parts) == parts[CHOOSE n \in NonBlank(parts) : \A m \in NonBlank(parts) : n <= m]

\* lastNonEmptyPart
RightMost(parts) == parts[CHOOSE n \in NonBlank(parts) : \A m \in NonBlank(parts) : m <= n]

DeriveClientAddressIdentity(parts) ==
  IF NonBlank(parts) = {} THEN Missing ELSE FoldIpv6Prefix(RightMost(parts))

=============================================================================
