------------------------------- MODULE RrDns -------------------------------
(***************************************************************************)
(* A reverse lookup of rpcd's rrdns plugin (rrdns.c): a list of addresses  *)
(* is asked for over a datagram socket, a few at a time, and the request   *)
(* is replied to when nothing is outstanding any more or time is up.  An   *)
(* answer may be lost, late, repeated, out of order or malformed.          *)
(***************************************************************************)
EXTENDS Integers, Sequences, FiniteSets

CONSTANTS
  Addrs,      \* the addresses that can be asked for
  BadAddr,    \* something in the list that is not an address
  Ids,        \* the identifiers a query may get (16 bits)
  MaxLimit,   \* RRDNS_MAX_LIMIT
  MaxAddrs    \* bound: the length of a list

ASSUME DnsAssumption ==
  /\ BadAddr \notin Addrs
  /\ IsFiniteSet(Ids)
  /\ MaxLimit \in Nat \ {0} /\ MaxAddrs \in Nat

VARIABLES
  life,       \* the lookup: "none", "asking" (in rpc_rrdns_lookup), "open", "closed"
  limit, left,  \* the limit of the request, and the queries the loop has yet to make
  list,       \* addr_cur and addr_rem: the addresses not looked at
  byId,       \* request_ids: the address every outstanding identifier asks for
  byAddr,     \* request_addrs: the addresses asked for
  wire,       \* history: the queries sent, each with its identifier
  names,      \* the blob: <<a, b>> gives the name of b as that of a
  failed      \* history: a query was not made, or not filed under its identifier

dnsVars == <<life, limit, left, list, byId, byAddr, wire, names, failed>>

-----------------------------------------------------------------------------
(* rrdns_next_query, with ids the requests outstanding.  Whatever goes     *)
(* wrong, the address is used up.                                          *)

NoMore(ids) ==
  /\ list = <<>>
  /\ byId' = ids
  /\ UNCHANGED <<list, byAddr, wire, failed>>

(* Not an address, asked for already, or refused by send.                  *)
Unsent(ids) ==
  /\ list # <<>>
  /\ list' = Tail(list)
  /\ byId' = ids
  /\ failed' = TRUE
  /\ UNCHANGED <<byAddr, wire>>

Fresh == list # <<>> /\ Head(list) \in Addrs \ byAddr

(* Sent, but there is no memory for the request.                           *)
Unfiled(ids) == \E id \in Ids :
  /\ Fresh
  /\ list' = Tail(list)
  /\ wire' = wire \cup {<<id, Head(list)>>}
  /\ byId' = ids
  /\ failed' = TRUE
  /\ UNCHANGED byAddr

(* Sent and filed; avl_insert does not replace an outstanding identifier.  *)
Filed(ids) == \E id \in Ids :
  /\ Fresh
  /\ list' = Tail(list)
  /\ wire' = wire \cup {<<id, Head(list)>>}
  /\ byAddr' = byAddr \cup {Head(list)}
  /\ byId' = IF id \in DOMAIN ids THEN ids
             ELSE [i \in DOMAIN ids \cup {id} |-> IF i = id THEN Head(list) ELSE ids[i]]
  /\ failed' = (failed \/ id \in DOMAIN ids)

NextQuery(ids) == NoMore(ids) \/ Unsent(ids) \/ Unfiled(ids) \/ Filed(ids)

-----------------------------------------------------------------------------
(* rpc_rrdns_lookup.                                                       *)

Lookup == \E n \in 1..MaxLimit, k \in 0..MaxAddrs :
  /\ life = "none"
  /\ list' \in [1..k -> Addrs \cup {BadAddr}]
  /\ limit' = n /\ left' = n
  /\ life' = "asking"
  /\ UNCHANGED <<byId, byAddr, wire, names, failed>>

\* Mutant of Ask: the limit is not tested.
AskOnceMore ==
  /\ life = "asking"
  /\ NextQuery(byId)
  /\ left' = left - 1
  /\ UNCHANGED <<life, limit, names>>

(* while (limit--) rrdns_next_query; the results are not looked at.        *)
Ask ==
  /\ life = "asking" /\ left > 0
  /\ NextQuery(byId)
  /\ left' = left - 1
  /\ UNCHANGED <<life, limit, names>>

Defer ==
  /\ life = "asking" /\ left = 0
  /\ life' = "open"
  /\ UNCHANGED <<limit, left, list, byId, byAddr, wire, names, failed>>

-----------------------------------------------------------------------------
\* Mutant of ShutIfDone: done with one request still outstanding.
ShutOneEarly == life' = IF Cardinality(DOMAIN byId') <= 1 THEN "closed" ELSE "open"

(* rrdns_handle_response: rdns_shutdown when no identifier is outstanding. *)
ShutIfDone == life' = IF DOMAIN byId' = {} THEN "closed" ELSE "open"

Without(id) == [i \in DOMAIN byId \ {id} |-> byId[i]]

\* Mutant of Asked: any outstanding request.
AskedAny(id) == byId[CHOOSE i \in DOMAIN byId : TRUE]

(* The address an answer is taken to be about.                             *)
Asked(id) == byId[id]

(* An answer to a query that was sent, for the first time or again; good   *)
(* answers name what was asked for, others cannot be parsed.               *)
Answer == \E q \in wire, good \in BOOLEAN :
  /\ life = "open" /\ q[1] \in DOMAIN byId
  /\ names' = IF good THEN names \cup {<<Asked(q[1]), q[2]>>} ELSE names
  /\ NextQuery(Without(q[1]))
  /\ ShutIfDone
  /\ UNCHANGED <<limit, left>>

\* Mutant of Stray: it lets the next query out.
StrayAsks ==
  /\ life = "open"
  /\ NextQuery(byId)
  /\ ShutIfDone
  /\ UNCHANGED <<limit, left, names>>

(* No data, or an identifier that is not outstanding: no new query.        *)
Stray ==
  /\ life = "open"
  /\ UNCHANGED byId
  /\ ShutIfDone
  /\ UNCHANGED <<limit, left, list, byAddr, wire, names, failed>>

\* Mutant of Timeout: armed by the first query only.
TimeoutIfAsked ==
  /\ life = "open" /\ DOMAIN byId # {}
  /\ life' = "closed"
  /\ failed' = TRUE
  /\ UNCHANGED <<limit, left, list, byId, byAddr, wire, names>>

(* rrdns_handle_timeout.                                                   *)
Timeout ==
  /\ life = "open"
  /\ life' = "closed"
  /\ failed' = (failed \/ DOMAIN byId # {})
  /\ UNCHANGED <<limit, left, list, byId, byAddr, wire, names>>

-----------------------------------------------------------------------------
DnsInit ==
  /\ life = "none"
  /\ limit = 0 /\ left = 0
  /\ list = <<>>
  /\ byId = <<>> /\ byAddr = {}
  /\ wire = {} /\ names = {}
  /\ failed = FALSE

DnsNext == Lookup \/ Ask \/ Defer \/ Answer \/ Stray \/ Timeout

DnsSpec == DnsInit /\ [][DnsNext]_dnsVars

(* The loop of the lookup ends, uloop runs the timer.                      *)
DnsFairness == WF_dnsVars(Ask \/ Defer) /\ WF_dnsVars(Timeout)

DnsFairSpec == DnsSpec /\ DnsFairness

-----------------------------------------------------------------------------
(* The type invariant.                                                     *)
DnsTypeOK ==
  /\ life \in {"none", "asking", "open", "closed"}
  /\ limit \in 0..MaxLimit /\ left \in 0..limit
  /\ list \in Seq(Addrs \cup {BadAddr})
  /\ DOMAIN byId \subseteq Ids /\ \A i \in DOMAIN byId : byId[i] \in byAddr
  /\ byAddr \subseteq Addrs
  /\ wire \subseteq Ids \X Addrs
  /\ names \subseteq Addrs \X Addrs
  /\ failed \in BOOLEAN

(* The limit of the request bounds the queries outstanding for good:       *)
(* repeated, stray and malformed answers let no further query out.         *)
Window == Cardinality(DOMAIN byId) <= limit - left

(* A lookup that was closed by its last answer, with every query made and  *)
(* filed, has asked for every address and heard of each of them.           *)
Complete == life = "closed" /\ ~failed => list = <<>> /\ DOMAIN byId = {}

(* A name is given to another address than the one it was asked for only   *)
(* if two of the queries sent had the same identifier.                     *)
Unmixed ==
  (\A q, r \in wire : q[1] = r[1] => q = r) => \A n \in names : n[1] = n[2]

(* Every lookup is replied to, if nobody answers and if nothing could be   *)
(* asked.                                                                  *)
Replied == life = "asking" ~> life = "closed"
=============================================================================
