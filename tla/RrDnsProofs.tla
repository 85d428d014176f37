---------------------------- MODULE RrDnsProofs ----------------------------
(***************************************************************************)
(* What holds of a reverse lookup for any addresses, identifiers and       *)
(* limits: how many queries are outstanding, when it may end, and which    *)
(* address an answer is credited to.                                       *)
(***************************************************************************)
EXTENDS RrDns, FiniteSetTheorems, TLAPS

-----------------------------------------------------------------------------
(* The inductive invariant.                                                *)

\* Where the loop of the request stands.
Asking ==
  /\ life = "none" => DOMAIN byId = {} /\ limit = 0
  /\ life = "asking" => limit > 0
  /\ life \in {"open", "closed"} => limit > 0 /\ left = 0

\* What is outstanding was sent under that identifier, and a name was given
\* to the two addresses of two queries with one identifier.
Sent ==
  /\ \A i \in DOMAIN byId : <<i, byId[i]>> \in wire
  /\ \A n \in names : \E i \in Ids : <<i, n[1]>> \in wire /\ <<i, n[2]>> \in wire

\* While addresses are left the window is full.
FullWindow ==
  life \in {"asking", "open"} /\ ~failed /\ list # <<>> =>
    Cardinality(DOMAIN byId) = limit - left

DnsInv == DnsTypeOK /\ Window /\ Asking /\ Sent /\ FullWindow /\ Complete

-----------------------------------------------------------------------------
\* The outstanding identifiers are a finite set.
LEMMA FewIds ==
  ASSUME NEW S \in SUBSET Ids
  PROVE  IsFiniteSet(S) /\ Cardinality(S) \in Nat
BY DnsAssumption, FS_Subset, FS_CardinalityType

\* A query keeps the types; it makes at most one more request outstanding,
\* and exactly one more when addresses were left and nothing went wrong.
LEMMA QueryFacts ==
  ASSUME DnsTypeOK, Sent,
         NEW ids, DOMAIN ids \subseteq Ids,
         \A i \in DOMAIN ids : ids[i] \in byAddr /\ <<i, ids[i]>> \in wire,
         NextQuery(ids)
  PROVE  /\ list' \in Seq(Addrs \cup {BadAddr})
         /\ DOMAIN byId' \subseteq Ids
         /\ \A i \in DOMAIN byId' : byId'[i] \in byAddr' /\ <<i, byId'[i]>> \in wire'
         /\ byAddr' \subseteq Addrs /\ wire' \subseteq Ids \X Addrs
         /\ wire \subseteq wire' /\ failed' \in BOOLEAN
         /\ Cardinality(DOMAIN byId') <= Cardinality(DOMAIN ids) + 1
         /\ ~failed' => ~failed
         /\ ~failed' /\ list # <<>> => Cardinality(DOMAIN byId') = Cardinality(DOMAIN ids) + 1
         /\ list = <<>> => list' = <<>>
<1>1. CASE NoMore(ids)
  BY <1>1, FewIds DEF NoMore, DnsTypeOK
<1>2. CASE Unsent(ids)
  BY <1>2, FewIds DEF Unsent, DnsTypeOK
<1>3. CASE Unfiled(ids)
  BY <1>3, FewIds DEF Unfiled, Fresh, DnsTypeOK
<1>4. CASE Filed(ids)
  <2>1. PICK id \in Ids :
          /\ Fresh
          /\ list' = Tail(list)
          /\ wire' = wire \cup {<<id, Head(list)>>}
          /\ byAddr' = byAddr \cup {Head(list)}
          /\ byId' = IF id \in DOMAIN ids THEN ids
                     ELSE [i \in DOMAIN ids \cup {id} |-> IF i = id THEN Head(list) ELSE ids[i]]
          /\ failed' = (failed \/ id \in DOMAIN ids)
    BY <1>4 DEF Filed
  <2>2. list # <<>> /\ Head(list) \in Addrs /\ list' \in Seq(Addrs \cup {BadAddr})
    BY <2>1 DEF Fresh, DnsTypeOK
  <2>3. failed' \in BOOLEAN
    BY <2>1 DEF DnsTypeOK
  <2>4. IsFiniteSet(DOMAIN ids) /\ Cardinality(DOMAIN ids) \in Nat
    BY FewIds
  <2>5. CASE id \in DOMAIN ids
    <3>1. byId' = ids /\ failed' = TRUE
      BY <2>1, <2>5
    <3>2. \A i \in DOMAIN byId' : byId'[i] \in byAddr' /\ <<i, byId'[i]>> \in wire'
      BY <2>1, <3>1
    <3>3. QED
      BY <2>1, <2>2, <2>4, <3>1, <3>2 DEF DnsTypeOK
  <2>6. CASE id \notin DOMAIN ids
    <3>1. DOMAIN byId' = DOMAIN ids \cup {id}
      BY <2>1, <2>6
    <3>2. Cardinality(DOMAIN byId') = Cardinality(DOMAIN ids) + 1
      BY <2>4, <2>6, <3>1, FS_AddElement
    <3>3. \A i \in DOMAIN byId' : byId'[i] \in byAddr' /\ <<i, byId'[i]>> \in wire'
      BY <2>1, <2>6, <3>1
    <3>4. QED
      BY <2>1, <2>2, <2>3, <2>4, <2>6, <3>1, <3>2, <3>3 DEF DnsTypeOK
  <2>7. QED
    BY <2>5, <2>6
<1>5. QED
  BY <1>1, <1>2, <1>3, <1>4 DEF NextQuery

\* The invariant holds initially.
LEMMA InitInv == DnsInit => DnsInv
<1> SUFFICES ASSUME DnsInit PROVE DnsInv
  OBVIOUS
<1>1. DOMAIN byId = {} /\ Cardinality({}) = 0
  BY FS_EmptySet DEF DnsInit
<1>2. list \in Seq(Addrs \cup {BadAddr}) /\ list = <<>>
  BY DEF DnsInit
<1>3. DnsTypeOK
  <2>1. limit \in 0..MaxLimit /\ left \in 0..limit
    BY DnsAssumption DEF DnsInit
  <2>2. DOMAIN byId \subseteq Ids /\ \A i \in DOMAIN byId : byId[i] \in byAddr
    BY <1>1
  <2>3. byAddr \subseteq Addrs /\ wire \subseteq Ids \X Addrs /\ names \subseteq Addrs \X Addrs
    BY DEF DnsInit
  <2>4. life \in {"none", "asking", "open", "closed"} /\ failed \in BOOLEAN
    BY DEF DnsInit
  <2>5. QED
    BY <1>2, <2>1, <2>2, <2>3, <2>4 DEF DnsTypeOK
<1>4. Cardinality(DOMAIN byId) = 0 /\ limit = 0 /\ left = 0
  BY <1>1 DEF DnsInit
<1>5. Window
  BY <1>4 DEF Window
<1>6. Asking /\ Sent /\ FullWindow /\ Complete
  BY <1>1 DEF DnsInit, Asking, Sent, FullWindow, Complete
<1>7. QED
  BY <1>3, <1>5, <1>6 DEF DnsInv

\* A lookup begins with its list of addresses.
LEMMA LookupInv == DnsInv /\ Lookup => DnsInv'
<1> SUFFICES ASSUME DnsInv, Lookup PROVE DnsInv'
  OBVIOUS
<1>1. PICK n \in 1..MaxLimit, k \in 0..MaxAddrs :
        /\ life = "none"
        /\ list' \in [1..k -> Addrs \cup {BadAddr}]
        /\ limit' = n /\ left' = n
        /\ life' = "asking"
        /\ UNCHANGED <<byId, byAddr, wire, names, failed>>
  BY DEF Lookup
<1>2. n \in Nat /\ n > 0 /\ n <= MaxLimit /\ k \in Nat
  BY DnsAssumption
<1>3. list' \in Seq(Addrs \cup {BadAddr})
  BY <1>1, <1>2
<1>4. DOMAIN byId' = {} /\ Cardinality({}) = 0
  BY <1>1, FS_EmptySet DEF DnsInv, Asking
<1>5. DnsTypeOK'
  <2>1. limit' \in 0..MaxLimit /\ left' \in 0..limit'
    BY <1>1, <1>2, DnsAssumption
  <2>2. DOMAIN byId' \subseteq Ids /\ \A i \in DOMAIN byId' : byId'[i] \in byAddr'
    BY <1>1 DEF DnsInv, DnsTypeOK
  <2>3. QED
    BY <1>1, <1>3, <2>1, <2>2 DEF DnsInv, DnsTypeOK
<1>6. Window' /\ FullWindow'
  BY <1>1, <1>2, <1>4 DEF Window, FullWindow
<1>7. Asking' /\ Sent' /\ Complete'
  BY <1>1, <1>2 DEF DnsInv, Asking, Sent, Complete
<1>8. QED
  BY <1>5, <1>6, <1>7 DEF DnsInv

\* It sends its next query.
LEMMA AskInv == DnsInv /\ Ask => DnsInv'
<1> SUFFICES ASSUME DnsInv, Ask PROVE DnsInv'
  OBVIOUS
<1>1. DnsTypeOK /\ Window /\ Asking /\ Sent /\ FullWindow
  BY DEF DnsInv
<1>2. /\ life = "asking" /\ life' = "asking" /\ left > 0 /\ left' = left - 1
      /\ limit' = limit /\ names' = names /\ NextQuery(byId)
  BY DEF Ask
<1>3. limit \in Nat /\ left \in Nat /\ left <= limit /\ limit <= MaxLimit
  BY <1>1, DnsAssumption DEF DnsTypeOK
<1>4. \A i \in DOMAIN byId : byId[i] \in byAddr /\ <<i, byId[i]>> \in wire
  BY <1>1 DEF DnsTypeOK, Sent
<1>5. /\ list' \in Seq(Addrs \cup {BadAddr})
      /\ DOMAIN byId' \subseteq Ids
      /\ \A i \in DOMAIN byId' : byId'[i] \in byAddr' /\ <<i, byId'[i]>> \in wire'
      /\ byAddr' \subseteq Addrs /\ wire' \subseteq Ids \X Addrs
      /\ wire \subseteq wire' /\ failed' \in BOOLEAN
      /\ Cardinality(DOMAIN byId') <= Cardinality(DOMAIN byId) + 1
      /\ ~failed' => ~failed
      /\ ~failed' /\ list # <<>> => Cardinality(DOMAIN byId') = Cardinality(DOMAIN byId) + 1
      /\ list = <<>> => list' = <<>>
  <2>1. DOMAIN byId \subseteq Ids
    BY <1>1 DEF DnsTypeOK
  <2>2. QED
    BY <1>1, <1>2, <1>4, <2>1, QueryFacts
<1>6. Cardinality(DOMAIN byId) \in Nat /\ Cardinality(DOMAIN byId') \in Nat
  BY <1>1, <1>5, FewIds DEF DnsTypeOK
<1>7. DnsTypeOK'
  <2>1. limit' \in 0..MaxLimit /\ left' \in 0..limit'
    BY <1>2, <1>3, DnsAssumption
  <2>2. QED
    BY <1>1, <1>2, <1>5, <2>1 DEF DnsTypeOK
<1>8. Window' /\ FullWindow'
  BY <1>1, <1>2, <1>3, <1>5, <1>6 DEF Window, FullWindow
<1>9. Asking' /\ Sent' /\ Complete'
  BY <1>1, <1>2, <1>3, <1>5 DEF Asking, Sent, Complete
<1>10. QED
  BY <1>7, <1>8, <1>9 DEF DnsInv

\* An answer settles the query it belongs to, and lets the next one out.
LEMMA AnswerInv == DnsInv /\ Answer => DnsInv'
<1> SUFFICES ASSUME DnsInv, Answer PROVE DnsInv'
  OBVIOUS
<1>1. DnsTypeOK /\ Window /\ Asking /\ Sent /\ FullWindow
  BY DEF DnsInv
<1>2. PICK q \in wire, good \in BOOLEAN :
        /\ life = "open" /\ q[1] \in DOMAIN byId
        /\ names' = IF good THEN names \cup {<<Asked(q[1]), q[2]>>} ELSE names
        /\ NextQuery(Without(q[1]))
        /\ ShutIfDone
        /\ UNCHANGED <<limit, left>>
  BY DEF Answer
<1> DEFINE id == q[1]
           ids == Without(id)
<1>3. limit \in Nat /\ left = 0 /\ limit > 0 /\ limit <= MaxLimit
  BY <1>1, <1>2, DnsAssumption DEF DnsTypeOK, Asking
<1>4. id \in Ids /\ q[2] \in Addrs /\ q = <<id, q[2]>>
  BY <1>1, <1>2 DEF DnsTypeOK
<1>5. DOMAIN ids = DOMAIN byId \ {id} /\ \A i \in DOMAIN ids : ids[i] = byId[i]
  BY DEF Without
<1>6. DOMAIN ids \subseteq Ids
  BY <1>1, <1>5 DEF DnsTypeOK
<1>7. \A i \in DOMAIN ids : ids[i] \in byAddr /\ <<i, ids[i]>> \in wire
  BY <1>1, <1>5 DEF DnsTypeOK, Sent
<1>8. /\ list' \in Seq(Addrs \cup {BadAddr})
      /\ DOMAIN byId' \subseteq Ids
      /\ \A i \in DOMAIN byId' : byId'[i] \in byAddr' /\ <<i, byId'[i]>> \in wire'
      /\ byAddr' \subseteq Addrs /\ wire' \subseteq Ids \X Addrs
      /\ wire \subseteq wire' /\ failed' \in BOOLEAN
      /\ Cardinality(DOMAIN byId') <= Cardinality(DOMAIN ids) + 1
      /\ ~failed' => ~failed
      /\ ~failed' /\ list # <<>> => Cardinality(DOMAIN byId') = Cardinality(DOMAIN ids) + 1
      /\ list = <<>> => list' = <<>>
  <2> HIDE DEF ids
  <2>1. NextQuery(ids)
    BY <1>2 DEF ids
  <2>2. QED
    BY <1>1, <1>6, <1>7, <2>1, QueryFacts
<1>9. /\ Cardinality(DOMAIN ids) = Cardinality(DOMAIN byId) - 1
      /\ Cardinality(DOMAIN byId) \in Nat
  BY <1>1, <1>2, <1>5, FewIds, FS_RemoveElement DEF DnsTypeOK
<1>10. Cardinality(DOMAIN byId') \in Nat
  BY <1>8, FewIds
<1>11. life' \in {"open", "closed"} /\ (life' = "closed" <=> DOMAIN byId' = {})
  BY <1>2 DEF ShutIfDone
<1>12. Asked(id) \in Addrs /\ <<id, Asked(id)>> \in wire
  BY <1>1, <1>2 DEF Asked, Sent, DnsTypeOK
<1>13. names' \subseteq Addrs \X Addrs
  BY <1>1, <1>2, <1>4, <1>12 DEF DnsTypeOK
<1>14. DnsTypeOK'
  BY <1>1, <1>2, <1>3, <1>8, <1>11, <1>13 DEF DnsTypeOK
<1>15. Window'
  BY <1>1, <1>2, <1>3, <1>8, <1>9, <1>10 DEF Window
<1>16. FullWindow'
  BY <1>1, <1>2, <1>3, <1>8, <1>9, <1>10, <1>11 DEF FullWindow
<1>17. Asking'
  BY <1>2, <1>3, <1>11 DEF Asking
<1>18. Sent'
  <2>1. \A n \in names : \E i \in Ids : <<i, n[1]>> \in wire' /\ <<i, n[2]>> \in wire'
    BY <1>1, <1>8 DEF Sent
  <2>2. \E i \in Ids : <<i, Asked(id)>> \in wire' /\ <<i, q[2]>> \in wire'
    BY <1>4, <1>8, <1>12
  <2>3. \A n \in names' : n \in names \/ n = <<Asked(id), q[2]>>
    BY <1>2
  <2>4. \A n \in names' : \E i \in Ids : <<i, n[1]>> \in wire' /\ <<i, n[2]>> \in wire'
    BY <2>1, <2>2, <2>3
  <2>5. QED
    BY <1>8, <2>4 DEF Sent
<1>19. Complete'
  <2>1. SUFFICES ASSUME DOMAIN byId' = {}, ~failed', list' # <<>>
                 PROVE  FALSE
    BY <1>11 DEF Complete
  <2>2. Cardinality(DOMAIN byId') = 0
    BY <2>1, FS_EmptySet
  <2>3. list # <<>> /\ ~failed
    BY <1>8, <2>1
  <2>4. Cardinality(DOMAIN byId) = limit /\ Cardinality(DOMAIN byId') = Cardinality(DOMAIN byId)
    BY <1>1, <1>2, <1>3, <1>8, <1>9, <2>1, <2>3 DEF FullWindow
  <2>5. QED
    BY <1>3, <2>2, <2>4
<1>20. QED
  BY <1>14, <1>15, <1>16, <1>17, <1>18, <1>19 DEF DnsInv

\* An answer that belongs to none does not.
LEMMA StrayInv == DnsInv /\ Stray => DnsInv'
<1> SUFFICES ASSUME DnsInv, Stray PROVE DnsInv'
  OBVIOUS
<1>1. limit \in Nat /\ limit > 0 /\ left = 0
  BY DnsAssumption DEF DnsInv, DnsTypeOK, Asking, Stray
<1>2. Complete'
  <2>1. SUFFICES ASSUME DOMAIN byId = {}, ~failed, list # <<>>
                 PROVE  FALSE
    BY DEF Complete, Stray, ShutIfDone
  <2>2. Cardinality(DOMAIN byId) = 0
    BY <2>1, FS_EmptySet
  <2>3. QED
    BY <1>1, <2>1, <2>2 DEF DnsInv, FullWindow, Stray
<1>3. QED
  BY <1>1, <1>2
  DEF DnsInv, DnsTypeOK, Window, Asking, Sent, FullWindow, Stray, ShutIfDone

\* The timeout ends a lookup.
LEMMA TimeoutInv == DnsInv /\ Timeout => DnsInv'
<1> SUFFICES ASSUME DnsInv, Timeout PROVE DnsInv'
  OBVIOUS
<1>1. limit \in Nat /\ limit > 0 /\ left = 0
  BY DnsAssumption DEF DnsInv, DnsTypeOK, Asking, Timeout
<1>2. Complete'
  <2>1. SUFFICES ASSUME DOMAIN byId = {}, ~failed, list # <<>>
                 PROVE  FALSE
    BY DEF Complete, Timeout
  <2>2. Cardinality(DOMAIN byId) = 0
    BY <2>1, FS_EmptySet
  <2>3. QED
    BY <1>1, <2>1, <2>2 DEF DnsInv, FullWindow, Timeout
<1>3. QED
  BY <1>1, <1>2
  DEF DnsInv, DnsTypeOK, Window, Asking, Sent, FullWindow, Timeout

\* Every step keeps the invariant.
LEMMA StepInv == DnsInv /\ [DnsNext]_dnsVars => DnsInv'
<1> SUFFICES ASSUME DnsInv, [DnsNext]_dnsVars PROVE DnsInv'
  OBVIOUS
<1>1. CASE Defer
  BY <1>1, DnsAssumption
  DEF Defer, DnsInv, DnsTypeOK, Window, Asking, Sent, FullWindow, Complete
<1>2. CASE UNCHANGED dnsVars
  BY <1>2 DEF dnsVars, DnsInv, DnsTypeOK, Window, Asking, Sent, FullWindow, Complete
<1>3. QED
  BY <1>1, <1>2, LookupInv, AskInv, AnswerInv, StrayInv, TimeoutInv DEF DnsNext

-----------------------------------------------------------------------------
(* The inductive invariant holds in every reachable state.                 *)
THEOREM DnsInvariance == DnsSpec => []DnsInv
BY InitInv, StepInv, PTL DEF DnsSpec

(* Every variable of a lookup keeps its type.                              *)
THEOREM DnsTypeCorrect == DnsSpec => []DnsTypeOK
<1>1. DnsInv => DnsTypeOK
  BY DEF DnsInv
<1>2. QED
  BY <1>1, DnsInvariance, PTL

(* Never more queries outstanding than the request allows, whatever comes  *)
(* in over the socket.                                                     *)
THEOREM WindowKept == DnsSpec => []Window
<1>1. DnsInv => Window
  BY DEF DnsInv
<1>2. QED
  BY <1>1, DnsInvariance, PTL

(* A lookup that nothing went wrong with does not end before every address *)
(* was asked for and heard of.                                             *)
THEOREM EndsComplete == DnsSpec => []Complete
<1>1. DnsInv => Complete
  BY DEF DnsInv
<1>2. QED
  BY <1>1, DnsInvariance, PTL

(* Without a collision of identifiers no answer names another address.     *)
THEOREM NamesUnmixed == DnsSpec => []Unmixed
<1>1. DnsInv => Unmixed
  <2> SUFFICES ASSUME DnsInv, \A q, r \in wire : q[1] = r[1] => q = r, NEW n \in names
               PROVE  n[1] = n[2]
    BY DEF Unmixed
  <2>1. PICK i \in Ids : <<i, n[1]>> \in wire /\ <<i, n[2]>> \in wire
    BY DEF DnsInv, Sent
  <2>2. <<i, n[1]>> = <<i, n[2]>>
    BY <2>1
  <2>3. QED
    BY <2>2
<1>2. QED
  BY <1>1, DnsInvariance, PTL
=============================================================================
