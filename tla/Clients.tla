------------------------------ MODULE Clients ------------------------------
(***************************************************************************)
(* Whose bucket a request is charged to: ClientIP and bucketKey of         *)
(* serve/ratelimit, at the end of a request's way through proxies.  A      *)
(* sender writes what it likes into X-Forwarded-For; a trusted proxy adds  *)
(* the address it was called from, to the last line or as a line of its    *)
(* own, and calls the next proxy or the server.                            *)
(*                                                                         *)
(* An address is a record [net, host, v6, mapped, zone]: its upper and     *)
(* lower half, and whether it is written as IPv6, as an IPv4 address in an *)
(* IPv6 one, and with a zone.  An entry of a header is such an address, or *)
(* Blank, or Junk.                                                         *)
(***************************************************************************)
EXTENDS Integers, SequencesExt

CONSTANTS
    Peers,          \* the addresses on the way
    Headers,        \* the lines a sender may come up with
    ProxyConfigs,   \* lists of trusted proxies: entries [cidr, of], Blank and Junk
    MaxHops         \* bound: the proxies on the way

Address == [net : Nat, host : Nat, v6 : BOOLEAN, mapped : BOOLEAN, zone : BOOLEAN]

Blank == [blank |-> TRUE]
Junk  == [blank |-> FALSE]

Entry == Address \cup {Blank, Junk}

ASSUME ClientsAssumption ==
    /\ Peers \subseteq Address
    /\ Headers \subseteq Seq(Seq(Entry))
    /\ MaxHops \in Nat

VARIABLES trusted, parcel

clientVars == <<trusted, parcel>>

IsAddress(entry) == "net" \in DOMAIN entry

\* net.ParseIP takes no zone; netip.ParseAddr does.
Parses(entry) == IsAddress(entry) /\ ~entry.zone

V4(address) == ~address.v6 \/ address.mapped

\* parseProxies: entries that are neither a network nor an address are skipped.
ParseProxies(specs) == {s \in ToSet(specs) : "cidr" \in DOMAIN s}

Covers(proxy, address) ==
    /\ V4(proxy.of) = V4(address) /\ proxy.of.net = address.net
    /\ proxy.cidr \/ proxy.of.host = address.host

IpTrusted(address) == \E n \in trusted : Covers(n, address)

TrustsPeer(host) == trusted # {} /\ Parses(host) /\ IpTrusted(host)

\* A mutant of Forwarded: the first line alone, as Header.Get has it.
ForwardedGet(lines) == IF lines = <<>> THEN <<>> ELSE lines[1]

Forwarded(lines) == FlattenSeq(lines)

\* The walk from the right stops at an entry that is not an address, or not trusted.
ClientIP(host, lines) ==
    LET hops  == Forwarded(lines)
        stops == {i \in DOMAIN hops : hops[i] # Blank /\ ~(Parses(hops[i]) /\ IpTrusted(hops[i]))}
        stop  == CHOOSE i \in stops : \A j \in stops : j <= i
    IN IF TrustsPeer(host) /\ stops # {} /\ Parses(hops[stop]) THEN hops[stop] ELSE host

BucketKey(key) ==
    IF ~IsAddress(key) THEN <<"verbatim", key>>
    ELSE IF V4(key) THEN <<"/32", key.net, key.host>> ELSE <<"/64", key.net>>

-----------------------------------------------------------------------------
ClientsInit ==
    /\ \E specs \in ProxyConfigs : trusted = ParseProxies(specs)
    /\ parcel = [at |-> "start"]

\* Somebody the operator does not trust sends a request, or forwards one as it likes.
Send ==
    /\ parcel.at = "start"
    /\ \E p \in Peers, lines \in Headers :
         /\ ~TrustsPeer(p)
         /\ parcel' = [at |-> "wire", from |-> p, sender |-> p, lines |-> lines, hops |-> 0]
    /\ UNCHANGED trusted

\* A trusted proxy adds who called it.
Forward ==
    /\ parcel.at = "wire" /\ parcel.hops < MaxHops
    /\ \E p \in Peers :
         /\ TrustsPeer(p)
         /\ \E lines \in
              {Append(parcel.lines, <<parcel.from>>), Append(parcel.lines, <<parcel.from, Blank>>)}
              \cup IF parcel.lines = <<>> THEN {}
                   ELSE {[parcel.lines EXCEPT ![Len(parcel.lines)] = Append(@, parcel.from)]} :
              parcel' = [parcel EXCEPT !.from = p, !.lines = lines, !.hops = @ + 1]
    /\ UNCHANGED trusted

\* Middleware: Allow(ClientIP(r)), which charges the bucket of its key.
Charge ==
    /\ parcel.at = "wire"
    /\ parcel' = [at |-> "charged", from |-> parcel.from, sender |-> parcel.sender,
                  key |-> BucketKey(ClientIP(parcel.from, parcel.lines))]
    /\ UNCHANGED trusted

ClientsNext == Send \/ Forward \/ Charge

-----------------------------------------------------------------------------
(* Property.                                                                *)

\* The bucket charged is that of the address the outermost trusted proxy was called
\* from, or of the caller when there is no proxy, whatever lines it came with; one
\* whose address has a zone is charged to the innermost proxy instead.  Senders with a
\* common IPv6 /64, or one IPv4 address in two spellings, share a bucket.
ChargedToTheSender ==
    parcel.at = "charged" =>
      LET whom == IF parcel.from # parcel.sender /\ parcel.sender.zone
                  THEN parcel.from ELSE parcel.sender
      IN /\ parcel.key = BucketKey(whom)
         /\ \A p \in Peers : BucketKey(p) = parcel.key <=>
              /\ V4(p) = V4(whom) /\ p.net = whom.net
              /\ V4(p) => p.host = whom.host
=============================================================================
