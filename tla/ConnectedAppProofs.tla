------------------------- MODULE ConnectedAppProofs -------------------------
(***************************************************************************)
(* Machine-checked proofs about ConnectedApp, for every set of replicas    *)
(* and concurrent calls, every TTL, lifetime and retention, and every      *)
(* bound on time, tokens and faults.                                       *)
(***************************************************************************)
EXTENDS ConnectedApp, TLAPS

\* The row no longer grants anything, and never will again: it is revoked, or it
\* was authorized once and is pruned.
Dead == row.hash # 0 /\ (row.revoked \/ ~row.stored)

\* The call holds the one right to a pair that its refresh token stands for.
HoldsPair(c) == call[c].pc \in {"recheck", "issue"}

\* What a call knows about the row.
CallInv(c) ==
    /\ At(c, "rotate") => call[c].token # 0
    /\ HoldsPair(c) => /\ call[c].token \in 1..MaxTokens /\ call[c].token < row.hash
                       /\ issued[call[c].token] = 0 /\ call[c].next # 0
    /\ At(c, "revoke") => row.hash # 0
    /\ At(c, "mark") => Dead
    /\ At(c, "remember") /\ call[c].live => call[c].now <= since
    /\ At(c, "accepted") => call[c].now < since + TTL
    /\ call[c].after => Dead /\ (At(c, "read") \/ (At(c, "remember") /\ ~call[c].live))

\* No two calls hold the pair of one refresh token.
PairInv(c, d) == HoldsPair(c) /\ HoldsPair(d) /\ c # d => call[c].token # call[d].token

\* A token that minted its pair is not the row's any more.
TokenInv(t) == issued[t] <= 1 /\ (issued[t] = 1 => t < row.hash)

\* A cached "live" was asked for before the revocation.  A sealed replica has none,
\* and no read that could bring one back unless a cached revocation outranks it.
ReplicaInv(x) ==
    /\ cache[x].decision = "live" => cache[x].at <= since
    /\ sealed[x] => /\ Dead /\ cache[x].decision # "live"
                    /\ cache[x].decision = "revoked"
                         \/ \A c \in Calls : ~(At(c, "remember") /\ call[c].replica = x /\ call[c].live)

IndInv ==
    /\ TypeOK
    /\ row.stored \/ row.revoked => row.hash # 0
    /\ \A c \in Calls : CallInv(c)
    /\ \A c, d \in Calls : PairInv(c, d)
    /\ \A t \in 1..MaxTokens : TokenInv(t)
    /\ \A x \in Replicas : ReplicaInv(x)

-----------------------------------------------------------------------------
\* What the types say of every field.
LEMMA Fields ==
    ASSUME TypeOK
    PROVE  /\ clock \in Nat /\ clock <= MaxTime /\ Never \in Nat /\ since \in Nat
           /\ row.hash \in Nat /\ row.expires \in Nat
           /\ \A c \in Calls : /\ call[c] \in CallStates /\ call[c].now \in Nat
                               /\ call[c].next \in Nat /\ call[c].token \in Nat
           /\ \A x \in Replicas : cache[x] \in Entries /\ cache[x].at \in Nat
<1>1. clock \in Nat /\ clock <= MaxTime /\ Never \in Nat /\ since \in Nat
  BY BoundsAssumption DEF TypeOK, Never
<1>2. row.hash \in Nat /\ row.expires \in Nat
  BY DEF TypeOK, Rows
<1>3. ASSUME NEW c \in Calls
      PROVE  /\ call[c] \in CallStates /\ call[c].now \in Nat
             /\ call[c].next \in Nat /\ call[c].token \in 0..MaxTokens
  BY Zenon DEF TypeOK, CallStates
<1>4. ASSUME NEW x \in Replicas PROVE cache[x] \in Entries /\ cache[x].at \in Nat
  BY DEF TypeOK, Entries
<1>5. \A c \in Calls : call[c].token \in 0..MaxTokens => call[c].token \in Nat
  BY BoundsAssumption
<1> QED
  BY <1>1, <1>2, <1>3, <1>4, <1>5

\* The same of the next state.
LEMMA FieldsNext ==
    ASSUME TypeOK' PROVE since' \in Nat /\ row'.hash \in Nat
BY BoundsAssumption DEF TypeOK, Never, Rows

\* A call that ends is well-formed, and so is a call after each write to its record.
LEMMA CallRecords ==
    /\ NoCall \in CallStates
    /\ \A r \in CallStates, pc \in Pcs : [r EXCEPT !.pc = pc] \in CallStates
    /\ \A r \in CallStates, n \in Nat : [r EXCEPT !.pc = "recheck", !.next = n] \in CallStates
    /\ \A r \in CallStates : [r EXCEPT !.pc = "revoke", !.marks = TRUE, !.token = 0] \in CallStates
    /\ \A r \in CallStates, live \in BOOLEAN :
         [r EXCEPT !.pc = "remember", !.live = live] \in CallStates
<1>1. 0 \in Nat /\ 0 \in 0..MaxTokens
  BY BoundsAssumption
<1> QED
  BY <1>1, Zenon DEF NoCall, CallStates, Pcs

\* The record of a call that begins.
Fresh(r, x, pc) ==
    /\ r \in CallStates /\ r.pc = pc /\ r.replica = x /\ r.now = clock /\ r.next = 0
    /\ r.live = FALSE

LEMMA BeginRefreshRecord ==
    ASSUME TypeOK, NEW c \in Calls, NEW x \in Replicas, NEW t \in 0..MaxTokens,
           NEW r, r = [Begin(c, x, "rotate") EXCEPT !.token = t]
    PROVE  Fresh(r, x, "rotate") /\ r.token = t /\ r.after = FALSE
<1>1. 0 \in Nat /\ 0 \in 0..MaxTokens /\ clock \in Nat
  BY Fields, BoundsAssumption
<1> QED BY <1>1, Zenon DEF Begin, NoCall, CallStates, Fresh, Pcs

LEMMA BeginRevokeRecord ==
    ASSUME TypeOK, NEW c \in Calls, NEW x \in Replicas, NEW m \in BOOLEAN,
           NEW r, r = [Begin(c, x, "revoke") EXCEPT !.marks = m]
    PROVE  Fresh(r, x, "revoke") /\ r.after = FALSE
<1>1. 0 \in Nat /\ 0 \in 0..MaxTokens /\ clock \in Nat
  BY Fields, BoundsAssumption
<1> QED BY <1>1, Zenon DEF Begin, NoCall, CallStates, Fresh, Pcs

LEMMA BeginRequestRecord ==
    ASSUME TypeOK, NEW c \in Calls, NEW x \in Replicas, NEW a \in BOOLEAN,
           NEW pc \in {"accepted", "read"}, NEW r, r = [Begin(c, x, pc) EXCEPT !.after = a]
    PROVE  Fresh(r, x, pc) /\ r.after = a
<1>1. 0 \in Nat /\ 0 \in 0..MaxTokens /\ clock \in Nat /\ pc \in Pcs
  BY Fields, BoundsAssumption DEF Pcs
<1> QED BY <1>1, Zenon DEF Begin, NoCall, CallStates, Fresh

\* A write to the record of one call leaves the others alone and the table typed.
CallsOK ==
    /\ call \in [Calls -> CallStates]
    /\ \A d \in Calls : call[d].now <= clock /\ call[d].next <= row.hash

LEMMA CallWritten ==
    ASSUME TypeOK, NEW c \in Calls, NEW r \in CallStates, r.now <= clock, r.next <= row'.hash,
           row.hash <= row'.hash, row'.hash \in Nat, clock' = clock,
           call' = [call EXCEPT ![c] = r]
    PROVE  CallsOK'
<1>1. call' \in [Calls -> CallStates]
  BY DEF TypeOK
<1>2. ASSUME NEW d \in Calls PROVE call'[d].now <= clock' /\ call'[d].next <= row'.hash
  <2>1. CASE d = c
    BY <2>1 DEF TypeOK
  <2>2. CASE d # c
    <3>1. call'[d] = call[d]
      BY <2>2 DEF TypeOK
    <3> QED BY <3>1, Fields DEF TypeOK
  <2> QED BY <2>1, <2>2
<1> QED BY <1>1, <1>2 DEF CallsOK

\* The same for the writes that leave the row's token alone: the call ends, moves
\* on, or takes a decision with it.
LEMMA CallMoved ==
    ASSUME TypeOK, NEW c \in Calls, clock' = clock, row'.hash = row.hash,
           \/ End(c)
           \/ \E pc \in Pcs : Goto(c, pc)
           \/ call' = [call EXCEPT ![c].pc = "revoke", ![c].marks = TRUE, ![c].token = 0]
           \/ \E live \in BOOLEAN : call' = [call EXCEPT ![c].pc = "remember", ![c].live = live]
           \/ \E x \in Replicas, pc \in Pcs : \E r : Fresh(r, x, pc) /\ call' = [call EXCEPT ![c] = r]
    PROVE  CallsOK'
<1>1. ASSUME NEW r \in CallStates, r.now <= clock, r.next <= row.hash,
             call' = [call EXCEPT ![c] = r]
      PROVE  CallsOK'
  <2>1. r.next <= row'.hash /\ row.hash <= row'.hash /\ row'.hash \in Nat
    BY <1>1, Fields
  <2> QED BY <1>1, <2>1, CallWritten, Zenon
<1>2. call[c] \in CallStates /\ call[c].now <= clock /\ call[c].next <= row.hash
  BY Fields DEF TypeOK
<1>3. CASE End(c)
  <2>1. NoCall.now <= clock /\ NoCall.next <= row.hash
    BY Fields DEF NoCall
  <2> QED BY <1>1, <1>3, <2>1, CallRecords DEF End
<1>4. ASSUME NEW pc \in Pcs, Goto(c, pc) PROVE CallsOK'
  <2> DEFINE r == [call[c] EXCEPT !.pc = pc]
  <2>1. r \in CallStates /\ r.now = call[c].now /\ r.next = call[c].next
    BY <1>2, CallRecords, Zenon DEF CallStates
  <2>2. call' = [call EXCEPT ![c] = r]
    BY <1>4 DEF Goto, TypeOK
  <2> QED BY <1>1, <1>2, <2>1, <2>2
<1>5. CASE call' = [call EXCEPT ![c].pc = "revoke", ![c].marks = TRUE, ![c].token = 0]
  <2> DEFINE r == [call[c] EXCEPT !.pc = "revoke", !.marks = TRUE, !.token = 0]
  <2>1. r \in CallStates /\ r.now = call[c].now /\ r.next = call[c].next
    BY <1>2, CallRecords, Zenon DEF CallStates
  <2>2. call' = [call EXCEPT ![c] = r]
    BY <1>5 DEF TypeOK
  <2> QED BY <1>1, <1>2, <2>1, <2>2
<1>6. ASSUME NEW live \in BOOLEAN, call' = [call EXCEPT ![c].pc = "remember", ![c].live = live]
      PROVE  CallsOK'
  <2> DEFINE r == [call[c] EXCEPT !.pc = "remember", !.live = live]
  <2>1. r \in CallStates /\ r.now = call[c].now /\ r.next = call[c].next
    BY <1>2, CallRecords, Zenon DEF CallStates
  <2>2. call' = [call EXCEPT ![c] = r]
    BY <1>6 DEF TypeOK
  <2> QED BY <1>1, <1>2, <2>1, <2>2
<1>7. ASSUME NEW x \in Replicas, NEW pc \in Pcs, NEW r, Fresh(r, x, pc),
             call' = [call EXCEPT ![c] = r]
      PROVE  CallsOK'
  <2>1. r \in CallStates /\ r.now <= clock /\ r.next <= row.hash
    BY <1>7, Fields DEF Fresh
  <2> QED BY <1>1, <1>7, <2>1
<1> QED BY <1>3, <1>4, <1>5, <1>6, <1>7

\* Every statement, cache operation, fault and tick keeps the types.
LEMMA TypeStep == IndInv /\ [Next]_vars => TypeOK'
<1> SUFFICES ASSUME TypeOK, \A c \in Calls : CallInv(c), [Next]_vars PROVE TypeOK'
  BY DEF IndInv
<1> USE PositiveAssumption, BoundsAssumption, Fields
<1>1. CASE Authorize
  <2>1. 1 \in Nat /\ clock + RefreshTTL \in Nat
    OBVIOUS
  <2>2. /\ row' \in Rows /\ row'.expires = clock + RefreshTTL
        /\ row'.hash = 1 /\ row'.revoked = row.revoked
    BY <1>1, <2>1, Zenon DEF TypeOK, Authorize, Rows
  <2> QED BY <1>1, <2>2, SMTT(30) DEF TypeOK, Authorize, Never
<1>2. CASE DeleteExpiredOAuthGrants
  <2>1. /\ row' \in Rows /\ row'.expires = row.expires
        /\ row'.hash = row.hash /\ row'.revoked = row.revoked
    BY <1>2, Zenon DEF TypeOK, DeleteExpiredOAuthGrants, Rows
  <2> QED BY <1>2, <2>1 DEF TypeOK, DeleteExpiredOAuthGrants
<1>3. CASE Tick
  BY <1>3, SMTT(30) DEF Tick, TypeOK, Never
<1>4. ASSUME NEW x \in Replicas, Evict(x) PROVE TypeOK'
  <2>1. NoEntry \in Entries /\ NoEntry.at = 0
    BY DEF NoEntry, Entries
  <2> QED BY <1>4, <2>1 DEF Evict, Fault, TypeOK
<1>5. ASSUME NEW x \in Replicas, Restart(x) PROVE TypeOK'
  <2>1. NoEntry \in Entries /\ NoEntry.at = 0
    BY DEF NoEntry, Entries
  <2>2. NoCall.now = 0 /\ NoCall.next = 0
    BY DEF NoCall
  <2>3. sealed' \in [Replicas -> BOOLEAN]
    BY <1>5, Zenon DEF Restart, TypeOK, Rows
  <2>4. call' \in [Calls -> CallStates]
    BY <1>5, CallRecords DEF Restart, TypeOK
  <2>5. \A d \in Calls : call'[d] \in {NoCall, call[d]}
    BY <1>5 DEF Restart
  <2>6. CallsOK'
    BY <1>5, <2>2, <2>4, <2>5 DEF Restart, TypeOK, CallsOK
  <2>7. cache' \in [Replicas -> Entries] /\ \A y \in Replicas : cache'[y].at <= clock
    BY <1>5, <2>1 DEF Restart, TypeOK
  <2>8. faults' \in 0..MaxFaults /\ UNCHANGED <<clock, row, known, issued, since>>
    BY <1>5 DEF Restart, Fault, TypeOK
  <2> QED BY <2>3, <2>6, <2>7, <2>8 DEF TypeOK, CallsOK
<1>6. ASSUME NEW c \in Calls, RotateOAuthGrant(c) PROVE TypeOK'
  <2>1. CASE End(c) /\ UNCHANGED row
    <3>1. CallsOK'
      BY <1>6, <2>1, CallMoved DEF RotateOAuthGrant
    <3>2. faults' \in 0..MaxFaults
      BY <1>6 DEF RotateOAuthGrant, Fault, TypeOK
    <3> QED BY <1>6, <2>1, <3>1, <3>2 DEF RotateOAuthGrant, TypeOK, CallsOK
  <2>2. CASE /\ row' = [row EXCEPT !.hash = @ + 1, !.expires = call[c].now + RefreshTTL]
             /\ call' = [call EXCEPT ![c].pc = "recheck", ![c].next = row.hash + 1]
             /\ UNCHANGED faults
    <3>0. /\ clock \in Nat /\ row.hash \in Nat /\ call[c].now \in Nat /\ call[c].now <= clock
          /\ clock <= MaxTime /\ known \subseteq 1..row.hash
      <4>1. call[c].now <= clock /\ known \subseteq 1..row.hash
        BY Zenon DEF TypeOK
      <4> QED BY <4>1, Fields
    <3>1. row.hash + 1 \in Nat /\ call[c].now + RefreshTTL \in Nat
      BY <3>0, PositiveAssumption
    <3>2. /\ row' \in Rows /\ row'.expires = call[c].now + RefreshTTL
          /\ row'.hash = row.hash + 1 /\ row'.revoked = row.revoked
      BY <2>2, <3>1, Zenon DEF TypeOK, Rows
    <3> DEFINE r == [call[c] EXCEPT !.pc = "recheck", !.next = row.hash + 1]
    <3>3. r \in CallStates /\ r.now = call[c].now /\ r.next = row.hash + 1
      BY <3>1, CallRecords, ZenonT(60) DEF CallStates
    <3>4. call' = [call EXCEPT ![c] = r]
      BY <2>2 DEF TypeOK
    <3> HIDE DEF r
    <3>5. CallsOK'
      <4>1. r.now <= clock /\ r.next <= row'.hash /\ row.hash <= row'.hash /\ row'.hash \in Nat
        BY <3>0, <3>2, <3>3
      <4> QED BY <1>6, <3>3, <3>4, <4>1, CallWritten, Zenon DEF RotateOAuthGrant
    <3>6. row'.expires <= MaxTime + RefreshTTL /\ known \subseteq 1..row'.hash
      BY <3>0, <3>2, PositiveAssumption, BoundsAssumption
    <3>7. UNCHANGED <<clock, cache, known, issued, since, sealed, faults>>
      BY <1>6, <2>2 DEF RotateOAuthGrant
    <3> QED BY <3>2, <3>5, <3>6, <3>7 DEF TypeOK, CallsOK, Never
  <2> QED BY <1>6, <2>1, <2>2 DEF RotateOAuthGrant
<1>7. ASSUME NEW c \in Calls, RecheckPrincipal(c) PROVE TypeOK'
  <2>1. CallsOK'
    BY <1>7, CallMoved, Zenon DEF RecheckPrincipal, Pcs
  <2>2. faults' \in 0..MaxFaults
    BY <1>7 DEF RecheckPrincipal, Fault, TypeOK
  <2>3. UNCHANGED <<clock, row, cache, known, issued, since, sealed>>
    BY <1>7 DEF RecheckPrincipal
  <2> QED BY <2>1, <2>2, <2>3 DEF TypeOK, CallsOK
<1>8. ASSUME NEW c \in Calls, Issue(c) PROVE TypeOK'
  <2>1. CallsOK'
    BY <1>8, CallMoved DEF Issue
  <2>2. faults' \in 0..MaxFaults
    BY <1>8 DEF Issue, Fault, TypeOK
  <2>3. known' \subseteq 1..row.hash'
    <3>1. known' \subseteq known \cup {call[c].next}
      BY <1>8, Zenon DEF Issue
    <3>2. call[c].next # 0
      BY <1>8 DEF Issue, CallInv, HoldsPair, At
    <3>3. call[c].next \in 1..row.hash /\ row' = row
      BY <1>8, <3>2 DEF Issue, TypeOK
    <3> QED BY <3>1, <3>3 DEF TypeOK
  <2>4. issued' \in [1..MaxTokens -> Nat]
    <3>1. call[c].token \in 1..MaxTokens
      BY <1>8 DEF Issue, CallInv, HoldsPair, At
    <3>2. issued[call[c].token] + 1 \in Nat
      BY <3>1 DEF TypeOK
    <3> QED BY <1>8, <3>2 DEF Issue, TypeOK
  <2> QED BY <1>8, <2>1, <2>2, <2>3, <2>4 DEF Issue, TypeOK, CallsOK
<1>9. ASSUME NEW c \in Calls, RevokeOAuthGrant(c) PROVE TypeOK'
  <2>1. faults' \in 0..MaxFaults
    BY <1>9 DEF RevokeOAuthGrant, Fault, TypeOK
  <2>2. CASE UNCHANGED <<row, since>>
    <3>1. CallsOK'
      BY <1>9, <2>2, CallMoved, Zenon DEF RevokeOAuthGrant, Pcs
    <3> QED BY <1>9, <2>1, <2>2, <3>1 DEF RevokeOAuthGrant, TypeOK, CallsOK
  <2>3. CASE /\ row' = [row EXCEPT !.revoked = TRUE,
                             !.by = IF call[c].next = 0 THEN "user" ELSE "system"]
             /\ since' = clock /\ Goto(c, "mark")
    <3>1. /\ row' \in Rows /\ row'.expires = row.expires
          /\ row'.hash = row.hash /\ row'.revoked = TRUE
      BY <2>3, Zenon DEF TypeOK, Rows
    <3>2. CallsOK'
      BY <1>9, <2>3, <3>1, CallMoved, Zenon DEF RevokeOAuthGrant, Pcs
    <3>5. since' \in 0..clock /\ since' # Never
      BY <2>3 DEF TypeOK, Never
    <3>3. since' \in 0..clock \cup {Never} /\ row'.revoked = (since' # Never)
      BY <3>1, <3>5
    <3>4. UNCHANGED <<clock, cache, known, issued, sealed>>
      BY <1>9 DEF RevokeOAuthGrant
    <3> QED BY <2>1, <3>1, <3>2, <3>3, <3>4 DEF TypeOK, CallsOK, Never
  <2> QED BY <1>9, <2>2, <2>3 DEF RevokeOAuthGrant
<1>10. ASSUME NEW c \in Calls, MarkRevoked(c) PROVE TypeOK'
  <2>1. CallsOK'
    BY <1>10, CallMoved DEF MarkRevoked
  <2>2. [decision |-> "revoked", at |-> call[c].now] \in Entries
    BY DEF Entries
  <2>3. cache' \in [Replicas -> Entries] /\ \A x \in Replicas : cache'[x].at <= clock
    BY <1>10, <2>2 DEF MarkRevoked, Revoke, TypeOK
  <2>4. sealed' \in [Replicas -> BOOLEAN]
    BY <1>10 DEF MarkRevoked, TypeOK
  <2> QED BY <1>10, <2>1, <2>3, <2>4 DEF MarkRevoked, TypeOK, CallsOK
<1>11. ASSUME NEW c \in Calls, ReadGrant(c) PROVE TypeOK'
  <2>1. CallsOK'
    BY <1>11, CallMoved, Zenon DEF ReadGrant, TypeOK, Rows
  <2>2. faults' \in 0..MaxFaults
    BY <1>11 DEF ReadGrant, Fault, TypeOK
  <2>3. UNCHANGED <<clock, row, cache, known, issued, since, sealed>>
    BY <1>11 DEF ReadGrant
  <2> QED BY <2>1, <2>2, <2>3 DEF TypeOK, CallsOK
<1>12. ASSUME NEW c \in Calls, RememberDecision(c) PROVE TypeOK'
  <2>1. CallsOK'
    BY <1>12, CallMoved DEF RememberDecision, Pcs
  <2>2. \A d \in {"live", "revoked"} : [decision |-> d, at |-> call[c].now] \in Entries
    BY DEF Entries
  <2>3. cache' \in [Replicas -> Entries] /\ \A x \in Replicas : cache'[x].at <= clock
    <3> DEFINE e == [decision |-> IF call[c].live THEN "live" ELSE "revoked", at |-> call[c].now]
    <3>1. e \in Entries /\ e.at = call[c].now
      BY <2>2
    <3>2. cache' = cache \/ cache' = [cache EXCEPT ![call[c].replica] = e]
      BY <1>12 DEF RememberDecision, Remember
    <3> HIDE DEF e
    <3> QED BY <3>1, <3>2 DEF TypeOK
  <2> QED BY <1>12, <2>1, <2>3 DEF RememberDecision, TypeOK, CallsOK
<1>13. ASSUME NEW c \in Calls, EndRequest(c) PROVE TypeOK'
  <2>1. CallsOK'
    BY <1>13, CallMoved DEF EndRequest
  <2> QED BY <1>13, <2>1 DEF EndRequest, TypeOK, CallsOK
<1>14. ASSUME NEW c \in Calls, NEW x \in Replicas, BeginRevoke(c, x) PROVE TypeOK'
  <2>1. CallsOK'
    <3>1. PICK m \in BOOLEAN : call' = [call EXCEPT ![c] = [Begin(c, x, "revoke") EXCEPT !.marks = m]]
      BY <1>14 DEF BeginRevoke
    <3>2. Fresh([Begin(c, x, "revoke") EXCEPT !.marks = m], x, "revoke") /\ "revoke" \in Pcs
      BY BeginRevokeRecord DEF Pcs
    <3> QED BY <1>14, <3>1, <3>2, CallMoved, Zenon DEF BeginRevoke
  <2> QED BY <1>14, <2>1 DEF BeginRevoke, TypeOK, CallsOK
<1>15. ASSUME NEW c \in Calls, NEW x \in Replicas, BeginRequest(c, x) PROVE TypeOK'
  <2>1. CallsOK'
    <3> DEFINE pc == IF Lookup(x, clock) = "live" THEN "accepted" ELSE "read"
               r == [Begin(c, x, pc) EXCEPT !.after = sealed[x]]
    <3>1. pc \in {"accepted", "read"} /\ pc \in Pcs /\ sealed[x] \in BOOLEAN
      BY DEF Pcs, TypeOK
    <3>2. Fresh(r, x, pc)
      BY <3>1, BeginRequestRecord, Zenon
    <3>3. call' = [call EXCEPT ![c] = r] /\ UNCHANGED <<clock, row>>
      BY <1>15 DEF BeginRequest
    <3> HIDE DEF r, pc
    <3> QED BY <3>1, <3>2, <3>3, CallMoved, Zenon
  <2> QED BY <1>15, <2>1 DEF BeginRequest, TypeOK, CallsOK
<1>16. ASSUME NEW c \in Calls, NEW x \in Replicas, NEW t \in known, BeginRefresh(c, x, t)
       PROVE TypeOK'
  <2>1. t \in 0..MaxTokens
    BY <1>16 DEF BeginRefresh, TypeOK
  <2>2. CallsOK'
    BY <1>16, <2>1, CallMoved, BeginRefreshRecord, Zenon DEF BeginRefresh, Pcs
  <2> QED BY <1>16, <2>2 DEF BeginRefresh, TypeOK, CallsOK
<1>17. CASE UNCHANGED vars
  BY <1>17 DEF vars, TypeOK
<1> QED
  BY <1>1, <1>2, <1>3, <1>4, <1>5, <1>6, <1>7, <1>8, <1>9, <1>10, <1>11, <1>12, <1>13,
     <1>14, <1>15, <1>16, <1>17 DEF Next

-----------------------------------------------------------------------------
\* What never goes back, whatever the step: the row's token, the clock, a dead row,
\* and the instant of the revocation once there is one.
Forward ==
    /\ row.hash <= row'.hash /\ clock <= clock' /\ (Dead => Dead')
    /\ since' = since \/ since' = clock
    /\ row'.stored \/ row'.revoked => row'.hash # 0

LEMMA StepsForward == IndInv /\ [Next]_vars => Forward
<1> SUFFICES ASSUME TypeOK, row.stored \/ row.revoked => row.hash # 0, [Next]_vars PROVE Forward
  BY DEF IndInv
<1> USE Fields
<1>1. CASE Authorize
  <2>1. row'.hash = 1 /\ row.hash = 0
    BY <1>1 DEF Authorize, TypeOK, Rows
  <2> QED BY <1>1, <2>1 DEF Authorize, Forward, Dead
<1>2. CASE DeleteExpiredOAuthGrants
  <2>1. row'.hash = row.hash /\ row'.stored = FALSE /\ row.stored
    BY <1>2, Zenon DEF DeleteExpiredOAuthGrants, TypeOK, Rows
  <2> QED BY <1>2, <2>1 DEF DeleteExpiredOAuthGrants, Forward, Dead
<1>3. ASSUME NEW c \in Calls, RotateOAuthGrant(c) PROVE Forward
  <2>1. CASE UNCHANGED row
    BY <1>3, <2>1 DEF RotateOAuthGrant, Forward, Dead
  <2>2. CASE row' = [row EXCEPT !.hash = @ + 1, !.expires = call[c].now + RefreshTTL]
    <3>1. row'.hash = row.hash + 1 /\ row'.stored = row.stored /\ row'.revoked = row.revoked
      BY <2>2, Zenon DEF TypeOK, Rows
    <3> QED BY <1>3, <3>1 DEF RotateOAuthGrant, Forward, Dead
  <2> QED BY <1>3, <2>1, <2>2 DEF RotateOAuthGrant
<1>4. ASSUME NEW c \in Calls, RevokeOAuthGrant(c) PROVE Forward
  <2>1. CASE UNCHANGED <<row, since>>
    BY <1>4, <2>1 DEF RevokeOAuthGrant, Forward, Dead
  <2>2. CASE /\ row' = [row EXCEPT !.revoked = TRUE,
                             !.by = IF call[c].next = 0 THEN "user" ELSE "system"]
             /\ since' = clock /\ row.stored
    <3>1. row'.hash = row.hash /\ row'.stored = row.stored /\ row'.revoked = TRUE
      BY <2>2, Zenon DEF TypeOK, Rows
    <3> QED BY <1>4, <2>2, <3>1 DEF RevokeOAuthGrant, Forward, Dead
  <2> QED BY <1>4, <2>1, <2>2 DEF RevokeOAuthGrant
<1>5. CASE UNCHANGED <<row, since>> /\ clock' \in {clock, clock + 1}
  BY <1>5 DEF Forward, Dead
<1> QED
  BY <1>1, <1>2, <1>3, <1>4, <1>5
     DEF Next, vars, Tick, Evict, Restart, RecheckPrincipal, Issue, MarkRevoked, ReadGrant,
         RememberDecision, EndRequest, BeginRevoke, BeginRequest, BeginRefresh

\* A step of a call leaves the other calls alone.
CallAction(c) ==
    \/ RotateOAuthGrant(c) \/ RecheckPrincipal(c) \/ RevokeOAuthGrant(c) \/ Issue(c)
    \/ MarkRevoked(c) \/ EndRequest(c) \/ ReadGrant(c) \/ RememberDecision(c)
    \/ \E x \in Replicas : \/ BeginRevoke(c, x) \/ BeginRequest(c, x)
                           \/ \E t \in known : BeginRefresh(c, x, t)

LEMMA OthersUntouched ==
    ASSUME TypeOK, NEW c \in Calls, CallAction(c), NEW d \in Calls, d # c
    PROVE  call'[d] = call[d]
BY DEF CallAction, RotateOAuthGrant, RecheckPrincipal, RevokeOAuthGrant, Issue, MarkRevoked,
       EndRequest, ReadGrant, RememberDecision, BeginRevoke, BeginRequest, BeginRefresh,
       End, Goto, TypeOK

\* A call that is left alone keeps what it knows, unless its token mints its pair.
LEMMA CallUntouched ==
    ASSUME IndInv, TypeOK', Forward, NEW d \in Calls, call'[d] = call[d],
           HoldsPair(d) => issued'[call[d].token] = issued[call[d].token]
    PROVE  CallInv(d)'
<1>1. CallInv(d) /\ TypeOK
  BY DEF IndInv
<1>2. /\ call[d].now <= clock /\ call[d].now \in Nat /\ since \in Nat /\ since' \in Nat
      /\ clock \in Nat /\ row.hash \in Nat /\ row'.hash \in Nat /\ call[d].token \in Nat
  BY <1>1, Fields, FieldsNext DEF TypeOK
<1> QED
  BY <1>1, <1>2, PositiveAssumption DEF CallInv, At, HoldsPair, Forward, Dead

\* A call that ended knows nothing.
LEMMA CallEnded ==
    ASSUME NEW d \in Calls, call'[d] = NoCall
    PROVE  CallInv(d)'
BY DEF CallInv, HoldsPair, At, NoCall

\* Every step keeps what the calls know.  A rotation hands out the right to the
\* pair of the token it replaced, a read of a live row is older than any
\* revocation, and a call that began on a sealed replica can only read a dead row.
LEMMA CallStep ==
    ASSUME IndInv, TypeOK', Forward, Next, NEW d \in Calls
    PROVE  CallInv(d)'
<1>0. TypeOK /\ CallInv(d)
  BY DEF IndInv
<1> USE <1>0, Fields
<1>1. CASE Authorize \/ DeleteExpiredOAuthGrants \/ Tick
  BY <1>1, CallUntouched DEF Authorize, DeleteExpiredOAuthGrants, Tick
<1>2. ASSUME NEW x \in Replicas, Evict(x) PROVE CallInv(d)'
  BY <1>2, CallUntouched DEF Evict
<1>3. ASSUME NEW x \in Replicas, Restart(x) PROVE CallInv(d)'
  <2>1. call'[d] = call[d] \/ call'[d] = NoCall
    BY <1>3 DEF Restart
  <2> QED BY <1>3, <2>1, CallUntouched, CallEnded DEF Restart
<1>5. ASSUME RotateOAuthGrant(d) PROVE CallInv(d)'
  <2>1. CASE End(d)
    BY <2>1, CallEnded DEF End, TypeOK
  <2>2. CASE /\ Refreshable(call[d].token, call[d].now)
             /\ row' = [row EXCEPT !.hash = @ + 1, !.expires = call[d].now + RefreshTTL]
             /\ call' = [call EXCEPT ![d].pc = "recheck", ![d].next = row.hash + 1]
    <3>1. row'.hash = row.hash + 1
      BY <2>2 DEF TypeOK, Rows
    <3>2. call'[d] = [call[d] EXCEPT !.pc = "recheck", !.next = row.hash + 1]
      BY <2>2 DEF TypeOK
    <3>3. /\ call'[d].pc = "recheck" /\ call'[d].next = row.hash + 1
          /\ call'[d].token = call[d].token /\ call'[d].after = call[d].after
      BY <3>2, Zenon DEF CallStates
    <3>4. call[d].token = row.hash /\ call[d].token # 0 /\ ~call[d].after
      BY <1>5, <2>2 DEF RotateOAuthGrant, Refreshable, CallInv, At
    <3>5. call[d].token \in 1..MaxTokens
      <4>1. call[d].token \in 0..MaxTokens
        BY Zenon DEF CallStates
      <4> QED BY <3>4, <4>1, BoundsAssumption
    <3>6. issued'[call[d].token] = 0
      BY <1>5, <3>4, <3>5 DEF IndInv, TokenInv, RotateOAuthGrant, TypeOK
    <3> QED BY <3>1, <3>3, <3>4, <3>5, <3>6 DEF CallInv, HoldsPair, At
  <2> QED BY <1>5, <2>1, <2>2 DEF RotateOAuthGrant
<1>6. ASSUME RecheckPrincipal(d) PROVE CallInv(d)'
  <2>1. /\ At(d, "recheck") /\ row.hash # 0 /\ ~call[d].after
        /\ UNCHANGED <<row, issued, since>>
    BY <1>6 DEF RecheckPrincipal, CallInv, HoldsPair, At
  <2>2. CASE End(d)
    BY <2>2, CallEnded DEF End, TypeOK
  <2>3. CASE Goto(d, "issue")
    <3>1. /\ call'[d].pc = "issue" /\ call'[d].next = call[d].next
          /\ call'[d].token = call[d].token /\ call'[d].after = call[d].after
      BY <2>3, ZenonT(60) DEF Goto, CallStates, TypeOK
    <3> QED BY <2>1, <3>1 DEF CallInv, HoldsPair, At
  <2>4. CASE call' = [call EXCEPT ![d].pc = "revoke", ![d].marks = TRUE, ![d].token = 0]
    <3>1. call'[d].pc = "revoke" /\ call'[d].after = call[d].after
      BY <2>4, Zenon DEF Goto, CallStates, TypeOK
    <3> QED BY <2>1, <3>1 DEF CallInv, HoldsPair, At
  <2> QED BY <1>6, <2>2, <2>3, <2>4 DEF RecheckPrincipal
<1>7. ASSUME NEW c \in Calls, Issue(c) PROVE CallInv(d)'
  <2>1. CASE d = c
    BY <1>7, <2>1, CallEnded DEF Issue, End, TypeOK
  <2>2. CASE d # c
    <3>1. call'[d] = call[d]
      BY <1>7, <2>2 DEF Issue, End, TypeOK
    <3>2. HoldsPair(d) => call[d].token # call[c].token
      BY <1>7, <2>2 DEF Issue, At, IndInv, PairInv, HoldsPair
    <3>3. HoldsPair(d) => issued'[call[d].token] = issued[call[d].token]
      BY <1>7, <3>2 DEF Issue, TypeOK
    <3> QED BY <3>1, <3>3, CallUntouched
  <2> QED BY <2>1, <2>2
<1>8. ASSUME RevokeOAuthGrant(d) PROVE CallInv(d)'
  <2>1. CASE End(d)
    BY <2>1, CallEnded DEF End, TypeOK
  <2>2. ASSUME Goto(d, "mark"), Dead' PROVE CallInv(d)'
    <3>1. call'[d].pc = "mark" /\ call'[d].after = call[d].after
      BY <2>2, ZenonT(60) DEF Goto, CallStates, TypeOK
    <3>2. ~call[d].after
      BY <1>8 DEF RevokeOAuthGrant, CallInv, At
    <3> QED BY <2>2, <3>1, <3>2 DEF CallInv, At, HoldsPair
  <2>3. row.hash # 0
    BY <1>8 DEF RevokeOAuthGrant, CallInv, At
  <2>4. CASE /\ row' = [row EXCEPT !.revoked = TRUE,
                             !.by = IF call[d].next = 0 THEN "user" ELSE "system"]
             /\ Goto(d, "mark")
    <3>1. row'.hash = row.hash /\ row'.revoked = TRUE
      BY <2>4, Zenon DEF TypeOK, Rows
    <3> QED BY <2>2, <2>3, <2>4, <3>1 DEF Dead
  <2>5. CASE ~(row.stored /\ ~row.revoked) /\ Goto(d, "mark") /\ UNCHANGED row
    BY <2>2, <2>3, <2>5 DEF Dead
  <2> QED BY <1>8, <2>1, <2>4, <2>5 DEF RevokeOAuthGrant
<1>9. ASSUME MarkRevoked(d) \/ EndRequest(d) PROVE CallInv(d)'
  BY <1>9, CallEnded DEF MarkRevoked, EndRequest, End, TypeOK
<1>10. ASSUME ReadGrant(d) PROVE CallInv(d)'
  <2>1. CASE End(d)
    BY <2>1, CallEnded DEF End, TypeOK
  <2>2. CASE call' = [call EXCEPT ![d].pc = "remember",
                        ![d].live = row.stored /\ ~row.revoked /\ row.expires > clock]
    <3> DEFINE live == row.stored /\ ~row.revoked /\ row.expires > clock
    <3>5. call' = [call EXCEPT ![d].pc = "remember", ![d].live = live]
      BY <2>2
    <3> HIDE DEF live
    <3>1. /\ call'[d].pc = "remember" /\ call'[d].after = call[d].after
          /\ call'[d].live = live /\ call'[d].now = call[d].now
      <4>1. call'[d] = [call[d] EXCEPT !.pc = "remember", !.live = live]
        BY <3>5 DEF TypeOK
      <4> QED BY <4>1, Zenon DEF CallStates
    <3>2. UNCHANGED <<row, since>> /\ (call[d].after => Dead)
      BY <1>10 DEF ReadGrant, CallInv
    <3>3. ~row.revoked => call[d].now <= since
      <4>1. ~row.revoked => since = Never
        BY Zenon DEF TypeOK
      <4>2. call[d].now <= clock
        BY DEF TypeOK
      <4> QED BY <4>1, <4>2, BoundsAssumption DEF Never
    <3>4. /\ call'[d].live => call'[d].now <= since'
          /\ call'[d].after => Dead' /\ ~call'[d].live
      BY <3>1, <3>2, <3>3 DEF Dead, live
    <3> QED BY <3>1, <3>4 DEF CallInv, At, HoldsPair
  <2> QED BY <1>10, <2>1, <2>2 DEF ReadGrant
<1>11. ASSUME RememberDecision(d) PROVE CallInv(d)'
  <2>1. CASE ~call[d].live
    BY <1>11, <2>1, CallEnded DEF RememberDecision, End, TypeOK
  <2>2. CASE call[d].live
    <3>1. Goto(d, "accepted") /\ since' = since /\ call[d].now <= since /\ ~call[d].after
      BY <1>11, <2>2 DEF RememberDecision, CallInv, At
    <3>2. /\ call'[d].pc = "accepted" /\ call'[d].after = call[d].after
          /\ call'[d].now = call[d].now
      BY <3>1, Zenon DEF Goto, CallStates, TypeOK
    <3>3. call'[d].now < since' + TTL
      BY <3>1, <3>2, PositiveAssumption
    <3> QED BY <3>1, <3>2, <3>3 DEF CallInv, At, HoldsPair
  <2> QED BY <2>1, <2>2
<1>12. ASSUME NEW x \in Replicas, BeginRevoke(d, x) PROVE CallInv(d)'
  <2>1. PICK m \in BOOLEAN : call' = [call EXCEPT ![d] = [Begin(d, x, "revoke") EXCEPT !.marks = m]]
    BY <1>12 DEF BeginRevoke
  <2>4. call'[d] = [Begin(d, x, "revoke") EXCEPT !.marks = m]
    BY <2>1 DEF TypeOK
  <2>2. call'[d].pc = "revoke" /\ call'[d].after = FALSE
    BY <2>4, Zenon DEF Begin, NoCall
  <2>3. row'.hash # 0
    BY <1>12 DEF BeginRevoke, IndInv
  <2> QED BY <2>2, <2>3 DEF CallInv, At, HoldsPair
<1>13. ASSUME NEW x \in Replicas, NEW t \in known, BeginRefresh(d, x, t) PROVE CallInv(d)'
  <2>1. t \in 0..MaxTokens /\ t # 0
    BY <1>13, BoundsAssumption DEF BeginRefresh, TypeOK
  <2>3. call'[d] = [Begin(d, x, "rotate") EXCEPT !.token = t]
    BY <1>13 DEF BeginRefresh, TypeOK
  <2>2. call'[d].pc = "rotate" /\ call'[d].after = FALSE /\ call'[d].token = t
    BY <2>3, Zenon DEF Begin, NoCall
  <2> QED BY <2>1, <2>2 DEF CallInv, At, HoldsPair
<1>14. ASSUME NEW x \in Replicas, BeginRequest(d, x) PROVE CallInv(d)'
  <2> DEFINE pc == IF Lookup(x, clock) = "live" THEN "accepted" ELSE "read"
             r == [Begin(d, x, pc) EXCEPT !.after = sealed[x]]
  <2>1. pc \in {"accepted", "read"} /\ sealed[x] \in BOOLEAN /\ ReplicaInv(x)
    BY DEF TypeOK, IndInv
  <2>2. call'[d] = r /\ UNCHANGED <<row, since>>
    BY <1>14 DEF BeginRequest, TypeOK
  <2>3. Fresh(r, x, pc) /\ r.after = sealed[x]
    BY <2>1, BeginRequestRecord, ZenonT(60)
  <2> HIDE DEF r
  <2>4. call'[d].pc = pc /\ call'[d].now = clock /\ call'[d].after = sealed[x]
    BY <2>2, <2>3 DEF Fresh
  <2>5. CASE Lookup(x, clock) = "live"
    <3>1. cache[x].decision = "live" /\ clock - cache[x].at < TTL
      BY <2>5, PositiveAssumption DEF Lookup
    <3>2. clock < since' + TTL /\ ~sealed[x]
      BY <2>1, <2>2, <3>1, PositiveAssumption DEF ReplicaInv
    <3> QED BY <2>4, <2>5, <3>2 DEF CallInv, At, HoldsPair
  <2>6. CASE Lookup(x, clock) # "live"
    BY <2>1, <2>2, <2>4, <2>6 DEF CallInv, At, HoldsPair, ReplicaInv, Dead
  <2> QED BY <2>5, <2>6
<1>15. ASSUME NEW c \in Calls, d # c, CallAction(c), ~Issue(c) PROVE CallInv(d)'
  <2>1. UNCHANGED issued
    BY <1>15 DEF CallAction, RotateOAuthGrant, RecheckPrincipal, RevokeOAuthGrant, MarkRevoked,
          EndRequest, ReadGrant, RememberDecision, BeginRevoke, BeginRequest, BeginRefresh
  <2> QED BY <1>15, <2>1, CallUntouched, OthersUntouched
<1> QED
  BY <1>1, <1>2, <1>3, <1>5, <1>6, <1>7, <1>8, <1>9, <1>10, <1>11, <1>12, <1>13, <1>14, <1>15
     DEF Next, CallAction

\* Only a rotation hands out the right to a pair, and it leaves the token behind:
\* no call held that of the row's current token.
LEMMA PairStep ==
    ASSUME IndInv, TypeOK', Next, NEW d \in Calls
    PROVE  \/ ~HoldsPair(d)'
           \/ HoldsPair(d) /\ call'[d].token = call[d].token
           \/ /\ RotateOAuthGrant(d) /\ call'[d].token = call[d].token
              /\ call[d].token = row.hash /\ \A e \in Calls \ {d} : call'[e] = call[e]
<1>0. TypeOK
  BY DEF IndInv
<1> USE <1>0
<1>1. CASE call'[d] = call[d] \/ call'[d] = NoCall
  BY <1>1 DEF HoldsPair, NoCall
<1>2. CASE RotateOAuthGrant(d)
  <2>1. CASE End(d)
    BY <1>1, <2>1 DEF End, TypeOK
  <2>2. CASE /\ Refreshable(call[d].token, call[d].now)
             /\ call' = [call EXCEPT ![d].pc = "recheck", ![d].next = row.hash + 1]
    <3>1. /\ call'[d] = [call[d] EXCEPT !.pc = "recheck", !.next = row.hash + 1]
          /\ \A e \in Calls \ {d} : call'[e] = call[e]
      BY <2>2 DEF TypeOK
    <3>2. call'[d].token = call[d].token
      BY <3>1, Fields, Zenon DEF CallStates
    <3> QED BY <1>2, <2>2, <3>1, <3>2 DEF Refreshable
  <2> QED BY <1>2, <2>1, <2>2 DEF RotateOAuthGrant
<1>3. CASE RecheckPrincipal(d)
  <2>1. CASE End(d)
    BY <1>1, <2>1 DEF End, TypeOK
  <2>2. CASE Goto(d, "issue")
    <3>1. call'[d].token = call[d].token
      BY <2>2, Fields, Zenon DEF Goto, CallStates, TypeOK
    <3> QED BY <1>3, <3>1 DEF RecheckPrincipal, HoldsPair, At
  <2>3. CASE call' = [call EXCEPT ![d].pc = "revoke", ![d].marks = TRUE, ![d].token = 0]
    <3>1. call'[d].pc = "revoke"
      BY <2>3, Fields, Zenon DEF CallStates, TypeOK
    <3> QED BY <3>1 DEF HoldsPair
  <2> QED BY <1>3, <2>1, <2>2, <2>3 DEF RecheckPrincipal
<1>4. ASSUME NEW pc \in {"mark", "accepted", "remember", "rotate", "revoke", "read"},
             call'[d].pc = pc
      PROVE  ~HoldsPair(d)'
  BY <1>4 DEF HoldsPair
<1>5. CASE RevokeOAuthGrant(d) \/ RememberDecision(d)
  <2>1. CASE End(d)
    BY <1>1, <2>1 DEF End, TypeOK
  <2>2. ASSUME NEW pc \in {"mark", "accepted"}, Goto(d, pc) PROVE ~HoldsPair(d)'
    <3>1. call'[d].pc = pc
      BY <2>2, Fields, Zenon DEF Goto, CallStates, TypeOK
    <3> QED BY <1>4, <3>1
  <2> QED BY <1>5, <2>1, <2>2 DEF RevokeOAuthGrant, RememberDecision
<1>6. CASE ReadGrant(d)
  <2>1. CASE End(d)
    BY <1>1, <2>1 DEF End, TypeOK
  <2>2. ASSUME NEW live, call' = [call EXCEPT ![d].pc = "remember", ![d].live = live]
        PROVE  ~HoldsPair(d)'
    <3>1. call'[d].pc = "remember"
      BY <2>2, Fields, ZenonT(60) DEF CallStates, TypeOK
    <3> QED BY <1>4, <3>1
  <2> QED BY <1>6, <2>1, <2>2 DEF ReadGrant
<1>7. ASSUME NEW x \in Replicas, BeginRevoke(d, x) PROVE ~HoldsPair(d)'
  <2>1. PICK m \in BOOLEAN : call'[d] = [Begin(d, x, "revoke") EXCEPT !.marks = m]
    BY <1>7 DEF BeginRevoke, TypeOK
  <2>2. Fresh([Begin(d, x, "revoke") EXCEPT !.marks = m], x, "revoke")
    BY BeginRevokeRecord
  <2> QED BY <1>4, <2>1, <2>2 DEF Fresh
<1>8. ASSUME NEW x \in Replicas, BeginRequest(d, x) PROVE ~HoldsPair(d)'
  <2>1. PICK pc \in {"accepted", "read"} :
             call'[d] = [Begin(d, x, pc) EXCEPT !.after = sealed[x]]
    BY <1>8 DEF BeginRequest, TypeOK
  <2>2. sealed[x] \in BOOLEAN
    BY DEF TypeOK
  <2>3. Fresh([Begin(d, x, pc) EXCEPT !.after = sealed[x]], x, pc)
    BY <2>2, BeginRequestRecord
  <2> QED BY <1>4, <2>1, <2>3 DEF Fresh
<1>9. ASSUME NEW x \in Replicas, NEW t \in known, BeginRefresh(d, x, t) PROVE ~HoldsPair(d)'
  <2>1. t \in 0..MaxTokens /\ call'[d] = [Begin(d, x, "rotate") EXCEPT !.token = t]
    BY <1>9, BoundsAssumption DEF BeginRefresh, TypeOK
  <2>2. Fresh([Begin(d, x, "rotate") EXCEPT !.token = t], x, "rotate")
    BY <2>1, BeginRefreshRecord, Zenon
  <2> QED BY <1>4, <2>1, <2>2 DEF Fresh
<1>10. CASE \/ Authorize \/ DeleteExpiredOAuthGrants \/ Tick
            \/ \E x \in Replicas : Evict(x) \/ Restart(x)
            \/ Issue(d) \/ MarkRevoked(d) \/ EndRequest(d)
  BY <1>1, <1>10 DEF Authorize, DeleteExpiredOAuthGrants, Tick, Evict, Restart, Issue,
                     MarkRevoked, EndRequest, End, TypeOK
<1>11. ASSUME NEW c \in Calls, d # c, CallAction(c) PROVE call'[d] = call[d]
  BY <1>11, OthersUntouched
<1> QED
  BY <1>1, <1>2, <1>3, <1>5, <1>6, <1>7, <1>8, <1>9, <1>10, <1>11 DEF Next, CallAction

\* Every step keeps single use: two calls never come to hold one pair, and a token
\* that mints its pair has none left to mint.
LEMMA PairsStep ==
    ASSUME IndInv, TypeOK', Forward, Next
    PROVE  (\A c, d \in Calls : PairInv(c, d)') /\ (\A t \in 1..MaxTokens : TokenInv(t)')
<1>0. TypeOK /\ row.hash \in Nat /\ row'.hash \in Nat
  BY Fields, FieldsNext DEF IndInv
<1>1. ASSUME NEW c \in Calls, NEW d \in Calls PROVE PairInv(c, d)'
  <2>1. PairInv(c, d) /\ CallInv(c) /\ CallInv(d)
    BY DEF IndInv
  <2>2. HoldsPair(c) => call[c].token < row.hash
    BY <2>1 DEF CallInv
  <2>3. HoldsPair(d) => call[d].token < row.hash
    BY <2>1 DEF CallInv
  <2>4. SUFFICES ASSUME HoldsPair(c)', HoldsPair(d)', c # d
                 PROVE  call'[c].token # call'[d].token
    BY DEF PairInv
  <2>5. CASE HoldsPair(c) /\ call'[c].token = call[c].token
    <3>1. CASE HoldsPair(d) /\ call'[d].token = call[d].token
      BY <2>1, <2>4, <2>5, <3>1 DEF PairInv
    <3>2. CASE call'[d].token = row.hash
      BY <1>0, <2>2, <2>5, <3>2
    <3> QED BY <2>4, <3>1, <3>2, PairStep
  <2>6. CASE /\ call'[c].token = row.hash /\ call[c].token = row.hash
             /\ \A e \in Calls \ {c} : call'[e] = call[e]
    <3>1. HoldsPair(d) /\ call'[d].token = call[d].token
      BY <2>4, <2>6 DEF HoldsPair
    <3> QED BY <1>0, <2>3, <2>6, <3>1
  <2> QED BY <2>4, <2>5, <2>6, PairStep
<1>2. ASSUME NEW t \in 1..MaxTokens PROVE TokenInv(t)'
  <2>1. TokenInv(t) /\ issued[t] \in Nat
    BY <1>0 DEF IndInv, TypeOK
  <2>2. CASE issued'[t] = issued[t]
    BY <1>0, <2>1, <2>2, BoundsAssumption DEF TokenInv, Forward
  <2>3. ASSUME NEW c \in Calls, Issue(c), t = call[c].token PROVE TokenInv(t)'
    <3>1. t < row.hash /\ issued[t] = 0
      BY <2>3 DEF IndInv, CallInv, HoldsPair, Issue, At
    <3>2. issued'[t] = 1
      BY <1>0, <2>3, <3>1 DEF Issue, TypeOK
    <3> QED BY <1>0, <3>1, <3>2, BoundsAssumption DEF TokenInv, Forward
  <2>4. ASSUME NEW c \in Calls, Issue(c), t # call[c].token PROVE issued'[t] = issued[t]
    BY <1>0, <2>4 DEF Issue, TypeOK
  <2> QED
    BY <2>2, <2>3, <2>4
       DEF Next, Authorize, DeleteExpiredOAuthGrants, Tick, Evict, Restart, RotateOAuthGrant,
           RecheckPrincipal, RevokeOAuthGrant, MarkRevoked, ReadGrant, RememberDecision,
           EndRequest, BeginRevoke, BeginRequest, BeginRefresh
<1> QED BY <1>1, <1>2

\* A replica whose cache and seal a step leaves alone, while it puts no live
\* decision on its way to the cache, keeps its part.
LEMMA ReplicaUntouched ==
    ASSUME IndInv, TypeOK', Forward, NEW x \in Replicas,
           cache'[x] = cache[x], sealed'[x] => sealed[x],
           sealed[x] => \A c \in Calls :
                          (At(c, "remember") /\ call[c].replica = x /\ call[c].live)'
                            => At(c, "remember") /\ call[c].replica = x /\ call[c].live
    PROVE  ReplicaInv(x)'
<1>1. TypeOK /\ ReplicaInv(x)
  BY DEF IndInv
<1>2. cache[x].at <= clock /\ cache[x].at \in Nat /\ clock \in Nat /\ since \in Nat /\ since' \in Nat
  BY <1>1, Fields, FieldsNext DEF TypeOK
<1>3. cache'[x].decision = "live" => cache'[x].at <= since'
  BY <1>1, <1>2 DEF ReplicaInv, Forward
<1> QED
  BY <1>1, <1>3 DEF ReplicaInv, Forward

\* A call brings a live decision to the cache only if it had it, or has just read
\* the row and the row is not dead.
LEMMA LiveOnItsWay ==
    ASSUME IndInv, Next, NEW x \in Replicas, NEW c \in Calls,
           (At(c, "remember") /\ call[c].replica = x /\ call[c].live)'
    PROVE  \/ At(c, "remember") /\ call[c].replica = x /\ call[c].live
           \/ ~Dead
<1>0. TypeOK /\ call[c] \in CallStates
  BY Fields DEF IndInv
<1> DEFINE OnItsWay == At(c, "remember") /\ call[c].replica = x /\ call[c].live
<1>1. CASE call'[c] = call[c]
  BY <1>1 DEF At
<1>2. CASE call'[c].pc # "remember"
  BY <1>2 DEF At
<1>3. CASE ReadGrant(c)
  <2>1. CASE End(c)
    BY <1>0, <1>2, <2>1 DEF End, TypeOK, NoCall
  <2>2. CASE call' = [call EXCEPT ![c].pc = "remember",
                        ![c].live = row.stored /\ ~row.revoked /\ row.expires > clock]
    <3>1. call'[c].live = (row.stored /\ ~row.revoked /\ row.expires > clock)
      <4> DEFINE live == row.stored /\ ~row.revoked /\ row.expires > clock
      <4> HIDE DEF live
      <4>1. call'[c] = [call[c] EXCEPT !.pc = "remember", !.live = live]
        BY <1>0, <2>2 DEF TypeOK, live
      <4>2. call'[c].live = live
        BY <1>0, <4>1, Zenon DEF CallStates
      <4> QED BY <4>2 DEF live
    <3>2. row.stored /\ ~row.revoked
      BY <3>1, Zenon DEF At
    <3> QED BY <3>2, Zenon DEF Dead
  <2> QED BY <1>3, <2>1, <2>2 DEF ReadGrant
<1>4. ASSUME NEW pc \in {"recheck", "issue", "revoke", "mark", "accepted"}, Goto(c, pc)
      PROVE  call'[c].pc # "remember"
  BY <1>0, <1>4, Zenon DEF Goto, TypeOK, CallStates
<1>5. CASE End(c)
  BY <1>0, <1>5 DEF End, TypeOK, NoCall, At
<1>6. CASE \/ call' = [call EXCEPT ![c].pc = "revoke", ![c].marks = TRUE, ![c].token = 0]
           \/ call' = [call EXCEPT ![c].pc = "recheck", ![c].next = row.hash + 1]
  <2>1. CASE call' = [call EXCEPT ![c].pc = "revoke", ![c].marks = TRUE, ![c].token = 0]
    BY <1>0, <1>2, <2>1, Zenon DEF TypeOK, CallStates
  <2>2. CASE call' = [call EXCEPT ![c].pc = "recheck", ![c].next = row.hash + 1]
    BY <1>0, <1>2, <2>2, Zenon DEF TypeOK, CallStates
  <2> QED BY <1>6, <2>1, <2>2
<1>7. CASE RotateOAuthGrant(c) \/ RecheckPrincipal(c) \/ RevokeOAuthGrant(c) \/ RememberDecision(c)
           \/ MarkRevoked(c) \/ EndRequest(c) \/ Issue(c)
  BY <1>2, <1>4, <1>5, <1>6, <1>7
     DEF RotateOAuthGrant, RecheckPrincipal, RevokeOAuthGrant, RememberDecision,
         MarkRevoked, EndRequest, Issue
<1>8. ASSUME NEW y \in Replicas, BeginRevoke(c, y) PROVE call'[c].pc # "remember"
  <2>1. PICK m \in BOOLEAN : call'[c] = [Begin(c, y, "revoke") EXCEPT !.marks = m]
    BY <1>0, <1>8 DEF BeginRevoke, TypeOK
  <2> QED BY <2>1, Zenon DEF Begin, NoCall
<1>9. ASSUME NEW y \in Replicas, BeginRequest(c, y) PROVE call'[c].pc # "remember"
  <2>1. PICK pc \in {"accepted", "read"} :
             call'[c] = [Begin(c, y, pc) EXCEPT !.after = sealed[y]]
    BY <1>0, <1>9 DEF BeginRequest, TypeOK
  <2> QED BY <2>1, Zenon DEF Begin, NoCall
<1>10. ASSUME NEW y \in Replicas, NEW t \in known, BeginRefresh(c, y, t)
       PROVE  call'[c].pc # "remember"
  <2>1. call'[c] = [Begin(c, y, "rotate") EXCEPT !.token = t]
    BY <1>0, <1>10 DEF BeginRefresh, TypeOK
  <2> QED BY <2>1, Zenon DEF Begin, NoCall
<1>11. CASE \/ Authorize \/ DeleteExpiredOAuthGrants \/ Tick \/ \E y \in Replicas : Evict(y)
  BY <1>1, <1>11 DEF Authorize, DeleteExpiredOAuthGrants, Tick, Evict
<1>12. ASSUME NEW y \in Replicas, Restart(y) PROVE call'[c] = call[c] \/ call'[c].pc # "remember"
  BY <1>12 DEF Restart, NoCall
<1>13. ASSUME NEW d \in Calls, d # c, CallAction(d) PROVE call'[c] = call[c]
  BY <1>0, <1>13, OthersUntouched
<1> QED
  BY <1>1, <1>2, <1>3, <1>7, <1>8, <1>9, <1>10, <1>11, <1>12, <1>13 DEF Next, CallAction

\* Every step keeps the caches honest.  The delicate ones: a decision enters the
\* cache with the instant it was asked for, a live one never replaces a
\* revocation, and an eviction unseals a replica a live one is on its way to.
LEMMA ReplicaStep ==
    ASSUME IndInv, TypeOK', Forward, Next, NEW x \in Replicas
    PROVE  ReplicaInv(x)'
<1>0. TypeOK /\ ReplicaInv(x)
  BY DEF IndInv
<1>1. CASE cache'[x] = cache[x] /\ sealed'[x] = sealed[x]
  <2>1. sealed[x] => Dead
    BY <1>0 DEF ReplicaInv
  <2> QED BY <1>1, <2>1, ReplicaUntouched, LiveOnItsWay
<1>2. ASSUME NEW y \in Replicas, Evict(y) PROVE ReplicaInv(x)'
  <2>1. CASE y # x
    BY <1>0, <1>1, <1>2, <2>1 DEF Evict, TypeOK
  <2>2. CASE y = x
    <3>1. cache'[x].decision = "none"
      BY <1>0, <1>2, <2>2 DEF Evict, TypeOK, NoEntry
    <3>2. sealed'[x] => /\ sealed[x]
                        /\ ~ \E c \in Calls : At(c, "remember") /\ call[c].replica = x /\ call[c].live
      BY <1>0, <1>2, <2>2 DEF Evict, TypeOK
    <3>3. UNCHANGED <<call, row>>
      BY <1>2 DEF Evict
    <3> QED BY <1>0, <3>1, <3>2, <3>3 DEF ReplicaInv, At, Dead
  <2> QED BY <2>1, <2>2
<1>3. ASSUME NEW y \in Replicas, Restart(y) PROVE ReplicaInv(x)'
  <2>1. CASE y # x
    BY <1>0, <1>1, <1>3, <2>1 DEF Restart, TypeOK
  <2>2. CASE y = x
    <3>1. cache'[x].decision = "none"
      BY <1>0, <1>3, <2>2 DEF Restart, TypeOK, NoEntry
    <3>2. \A c \in Calls : ~(At(c, "remember") /\ call[c].replica = x /\ call[c].live)'
      BY <1>3, <2>2 DEF Restart, NoCall, At
    <3>3. sealed'[x] => Dead'
      <4>1. sealed'[x] = row.revoked /\ row' = row
        BY <1>0, <1>3, <2>2 DEF Restart, TypeOK
      <4>2. row.revoked => row.hash # 0
        BY DEF IndInv
      <4> QED BY <4>1, <4>2 DEF Dead
    <3> QED BY <3>1, <3>2, <3>3 DEF ReplicaInv
  <2> QED BY <2>1, <2>2
<1>4. ASSUME NEW c \in Calls, MarkRevoked(c) PROVE ReplicaInv(x)'
  <2>1. CASE call[c].replica # x
    BY <1>0, <1>1, <1>4, <2>1 DEF MarkRevoked, Revoke, TypeOK
  <2>2. CASE call[c].replica = x
    <3>1. cache'[x].decision = "revoked" /\ Dead'
      BY <1>0, <1>4, <2>2 DEF MarkRevoked, Revoke, TypeOK, IndInv, CallInv, At, Dead
    <3> QED BY <3>1 DEF ReplicaInv
  <2> QED BY <2>1, <2>2
<1>5. ASSUME NEW c \in Calls, RememberDecision(c) PROVE ReplicaInv(x)'
  <2>0. At(c, "remember") /\ UNCHANGED <<row, since, sealed>> /\ CallInv(c)
    BY <1>5 DEF RememberDecision, IndInv
  <2>1. CASE call[c].replica # x \/ UNCHANGED cache
    BY <1>0, <1>1, <1>5, <2>1 DEF RememberDecision, Remember, TypeOK
  <2>2. CASE /\ call[c].replica = x /\ ~call[c].live
             /\ cache' = [cache EXCEPT ![x] = [decision |-> "revoked", at |-> call[c].now]]
    <3>1. cache'[x].decision = "revoked"
      BY <1>0, <2>2 DEF TypeOK
    <3> QED BY <1>0, <2>0, <3>1 DEF ReplicaInv, Dead
  <2>3. CASE /\ call[c].replica = x /\ call[c].live /\ cache[x].decision # "revoked"
             /\ cache' = [cache EXCEPT ![x] = [decision |-> "live", at |-> call[c].now]]
    <3>1. cache'[x].decision = "live" /\ cache'[x].at = call[c].now
      BY <1>0, <2>3 DEF TypeOK
    <3>2. call[c].now <= since
      BY <2>0, <2>3 DEF CallInv
    <3>3. ~sealed[x]
      BY <1>0, <2>0, <2>3 DEF ReplicaInv
    <3> QED BY <2>0, <3>1, <3>2, <3>3 DEF ReplicaInv
  <2> QED BY <1>5, <2>1, <2>2, <2>3 DEF RememberDecision, Remember
<1> QED
  BY <1>1, <1>2, <1>3, <1>4, <1>5
     DEF Next, Authorize, DeleteExpiredOAuthGrants, Tick, RotateOAuthGrant, RecheckPrincipal, Issue,
         RevokeOAuthGrant, ReadGrant, EndRequest, BeginRevoke, BeginRequest, BeginRefresh

-----------------------------------------------------------------------------
\* A step that changes nothing keeps the invariant.
LEMMA StutterStep == IndInv /\ UNCHANGED vars => IndInv'
BY DEF IndInv, vars, TypeOK, CallInv, PairInv, TokenInv, ReplicaInv, HoldsPair, At, Dead

\* The inductive invariant holds in every state the calls, the replicas and the
\* maintenance runner can reach.
THEOREM Invariance == Spec => []IndInv
<1>1. Init => IndInv
  <2> SUFFICES ASSUME Init PROVE IndInv
    OBVIOUS
  <2>1. clock = 0 /\ faults = 0 /\ known = {} /\ since = Never /\ row.hash = 0 /\ row.expires = 0
    BY DEF Init
  <2>2. row \in Rows /\ row.revoked = FALSE /\ row.stored = FALSE
    BY DEF Init, Rows
  <2>3. /\ call \in [Calls -> CallStates]
        /\ \A c \in Calls : /\ call[c].pc = "idle" /\ call[c].now = 0 /\ call[c].next = 0
                            /\ call[c].after = FALSE
    <3>1. call \in [Calls -> CallStates]
      BY CallRecords DEF Init
    <3>2. \A c \in Calls : call[c] = NoCall
      BY DEF Init
    <3> QED BY <3>1, <3>2 DEF NoCall
  <2>4. /\ cache \in [Replicas -> Entries] /\ sealed \in [Replicas -> BOOLEAN]
        /\ \A x \in Replicas : cache[x].decision = "none" /\ cache[x].at = 0 /\ sealed[x] = FALSE
    BY DEF Init, NoEntry, Entries
  <2>5. issued \in [1..MaxTokens -> Nat] /\ \A t \in 1..MaxTokens : issued[t] = 0
    BY DEF Init
  <2>7. row.revoked = (since # Never)
    BY <2>1, <2>2
  <2>6. TypeOK
    BY <2>7, <2>1, <2>2, <2>3, <2>4, <2>5, BoundsAssumption, PositiveAssumption DEF TypeOK, Never
  <2> QED
    BY <2>1, <2>2, <2>3, <2>4, <2>5, <2>6
       DEF IndInv, CallInv, PairInv, TokenInv, ReplicaInv, HoldsPair, At
<1>2. IndInv /\ [Next]_vars => IndInv'
  <2>1. IndInv /\ Next => IndInv'
    <3> SUFFICES ASSUME IndInv, Next PROVE IndInv'
      OBVIOUS
    <3>1. TypeOK' /\ Forward
      BY TypeStep, StepsForward
    <3>2. \A d \in Calls : CallInv(d)'
      BY <3>1, CallStep
    <3>3. \A x \in Replicas : ReplicaInv(x)'
      BY <3>1, ReplicaStep
    <3> QED BY <3>1, <3>2, <3>3, PairsStep DEF IndInv, Forward
  <2> QED BY <2>1, StutterStep
<1> QED BY <1>1, <1>2, PTL DEF Spec

\* In every reachable state the row, the caches and the calls are well-formed,
\* nothing is stamped with an instant to come, and the client holds no refresh
\* token that was never the row's.
THEOREM TypeCorrectness == Spec => []TypeOK
<1>1. IndInv => TypeOK
  BY DEF IndInv
<1> QED BY <1>1, Invariance, PTL

\* A refresh token mints at most one pair, however many calls present it at once:
\* RotateOAuthGrant addresses the row by the token it replaces.
THEOREM TokensAreSingleUse == Spec => []SingleUse
<1>1. IndInv => SingleUse
  BY DEF IndInv, TokenInv, SingleUse
<1> QED BY <1>1, Invariance, PTL

\* No replica accepts a token of a revoked app on a check that began TTL or more
\* after the revocation: grantRevoked stamps a cached decision with the instant it
\* was asked for.
THEOREM RefusalWithinTTL == Spec => []RefusedWithinTTL
<1>1. IndInv => RefusedWithinTTL
  BY DEF IndInv, CallInv, RefusedWithinTTL
<1> QED BY <1>1, Invariance, PTL

\* A replica that marked the revocation, or restarted after it, refuses every check
\* that begins there: Remember never replaces a cached revocation by "live".
THEOREM RefusalHereAtOnce == Spec => []RefusedHereAtOnce
<1>1. IndInv => RefusedHereAtOnce
  BY DEF IndInv, CallInv, RefusedHereAtOnce, At
<1> QED BY <1>1, Invariance, PTL

\* A revoked row is only ever pruned: no rotation under way revives it and no later
\* revocation takes it over.
THEOREM RevocationFinality == Spec => RevocationIsFinal
<1>1. IndInv /\ [Next]_vars
        => [row.revoked => row' \in {row, [row EXCEPT !.stored = FALSE]}]_vars
  <2> SUFFICES ASSUME IndInv, Next, row.revoked
               PROVE  row' \in {row, [row EXCEPT !.stored = FALSE]}
    OBVIOUS
  <2>1. row.hash # 0
    BY DEF IndInv
  <2> QED
    BY <2>1 DEF Next, Authorize, DeleteExpiredOAuthGrants, Tick, Evict, Restart, RotateOAuthGrant,
                Refreshable, RecheckPrincipal, Issue, RevokeOAuthGrant, MarkRevoked, ReadGrant,
                RememberDecision, EndRequest, BeginRevoke, BeginRequest, BeginRefresh
<1> QED BY <1>1, Invariance, PTL DEF Spec, RevocationIsFinal
=============================================================================
