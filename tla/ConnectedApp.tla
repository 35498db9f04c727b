---------------------------- MODULE ConnectedApp ----------------------------
(***************************************************************************)
(* One connected app: the grant row whose refresh credential rotates in    *)
(* place (store/oauth_grant.go, api/oauth/grant.go), the calls that        *)
(* refresh it, revoke it or present an access token of it, and the         *)
(* revocation cache every replica keeps in front of the row                *)
(* (component/state/revocation_cache.go, api/auth/authenticator.go).       *)
(*                                                                         *)
(* A call is served by one replica and is several statements and cache     *)
(* operations; between any two of them the other calls run and the clock   *)
(* moves.  TTL is revocationCacheTTL, RefreshTTL the lifetime of a refresh *)
(* token, Retention connectedAppRetention.  The refresh tokens of the app  *)
(* are numbered as they are minted.  MaxTime bounds the clock, MaxTokens   *)
(* the tokens presented, MaxFaults failed statements, lost responses,      *)
(* evictions and restarts.  What the principal lookup answers is an        *)
(* input.  `since', `sealed', `issued' and a call's `after' are history:   *)
(* when the revocation committed, whether a replica must refuse at once,   *)
(* the pairs issued for each refresh token, and that the call began on a   *)
(* sealed replica.                                                         *)
(***************************************************************************)
EXTENDS Naturals, FiniteSets

CONSTANTS Replicas, Calls, TTL, RefreshTTL, Retention, MaxTime, MaxTokens, MaxFaults

ASSUME PositiveAssumption == TTL \in Nat \ {0} /\ RefreshTTL \in Nat \ {0} /\ Retention \in Nat
ASSUME BoundsAssumption == MaxTime \in Nat /\ MaxTokens \in Nat \ {0} /\ MaxFaults \in Nat

VARIABLES
    clock,   \* the wall clock
    row,     \* the row of oauth_refresh_token
    cache,   \* GrantRevocationCache of each replica
    call,    \* the calls under way
    known,   \* the refresh tokens the client was handed
    issued, since, sealed, faults

vars == <<clock, row, cache, call, known, issued, since, sealed, faults>>

Never == MaxTime + 1
NoEntry == [decision |-> "none", at |-> 0]
NoCall == [pc |-> "idle", replica |-> "none", now |-> 0, token |-> 0, next |-> 0,
           marks |-> FALSE, live |-> FALSE, after |-> FALSE]

Init ==
    /\ clock = 0
    /\ row = [stored |-> FALSE, hash |-> 0, expires |-> 0, revoked |-> FALSE, by |-> "none"]
    /\ cache = [x \in Replicas |-> NoEntry]
    /\ call = [c \in Calls |-> NoCall]
    /\ known = {} /\ issued = [t \in 1..MaxTokens |-> 0]
    /\ since = Never /\ sealed = [x \in Replicas |-> FALSE]
    /\ faults = 0

Fault == faults < MaxFaults /\ faults' = faults + 1
At(c, pc) == call[c].pc = pc
Goto(c, pc) == call' = [call EXCEPT ![c].pc = pc]
End(c) == call' = [call EXCEPT ![c] = NoCall]
Begin(c, x, pc) == [NoCall EXCEPT !.pc = pc, !.replica = x, !.now = clock]

-----------------------------------------------------------------------------
\* RevocationCache

Lookup(x, now) ==
    IF cache[x].decision = "none" \/ now - cache[x].at >= TTL THEN "unknown" ELSE cache[x].decision

\* Mutant: the decision is stamped when it is stored, not when it was asked for.
RememberMutant(x, live, now) ==
    IF live /\ cache[x].decision = "revoked" THEN UNCHANGED cache
    ELSE cache' = [cache EXCEPT ![x] = [decision |-> IF live THEN "live" ELSE "revoked", at |-> clock]]

\* Mutant: a decision read from the table always replaces the cached one.
RememberDowngrades(x, live, now) ==
    cache' = [cache EXCEPT ![x] = [decision |-> IF live THEN "live" ELSE "revoked", at |-> now]]

Remember(x, live, now) ==
    IF live /\ cache[x].decision = "revoked" THEN UNCHANGED cache
    ELSE cache' = [cache EXCEPT ![x] = [decision |-> IF live THEN "live" ELSE "revoked", at |-> now]]

Revoke(x, now) == cache' = [cache EXCEPT ![x] = [decision |-> "revoked", at |-> now]]

\* The LRU drops the entry for another app's.  A replica stays sealed unless a
\* read from before the revocation is still on its way to Remember.
Evict(x) ==
    /\ cache[x].decision # "none" /\ Fault
    /\ cache' = [cache EXCEPT ![x] = NoEntry]
    /\ sealed' = [sealed EXCEPT ![x] =
         @ /\ ~ \E c \in Calls : At(c, "remember") /\ call[c].replica = x /\ call[c].live]
    /\ UNCHANGED <<clock, row, call, known, issued, since>>

-----------------------------------------------------------------------------
\* The authorization and the refresh of the app.

\* createGrant, CreateCLIGrant and the first token pair
Authorize ==
    /\ row.hash = 0
    /\ row' = [row EXCEPT !.stored = TRUE, !.hash = 1, !.expires = clock + RefreshTTL]
    /\ known' = {1}
    /\ UNCHANGED <<clock, cache, call, issued, since, sealed, faults>>

Refreshable(token, now) ==
    row.stored /\ row.hash = token /\ now < row.expires /\ ~row.revoked

\* exchangeRefreshToken, RotateCLIGrant up to the rotation: the row is looked up
\* by a token the client has, this one or an older one, and checked.
BeginRefresh(c, x, t) ==
    /\ At(c, "idle") /\ t <= MaxTokens
    /\ Refreshable(t, clock)
    /\ call' = [call EXCEPT ![c] = [Begin(c, x, "rotate") EXCEPT !.token = t]]
    /\ UNCHANGED <<clock, row, cache, known, issued, since, sealed, faults>>

\* Mutant: the rotation addresses the row by its id.
RotateById(c) ==
    /\ At(c, "rotate")
    /\ \/ /\ row.stored /\ call[c].now < row.expires /\ ~row.revoked
          /\ row' = [row EXCEPT !.hash = @ + 1, !.expires = call[c].now + RefreshTTL]
          /\ call' = [call EXCEPT ![c].pc = "recheck", ![c].next = row.hash + 1]
       \/ ~(row.stored /\ call[c].now < row.expires /\ ~row.revoked) /\ End(c) /\ UNCHANGED row
    /\ UNCHANGED <<clock, cache, known, issued, since, sealed, faults>>

\* Mutant: the revocation is only checked before the rotation.
RotateRevoked(c) ==
    /\ At(c, "rotate")
    /\ \/ /\ row.stored /\ row.hash = call[c].token /\ call[c].now < row.expires
          /\ row' = [row EXCEPT !.hash = @ + 1, !.expires = call[c].now + RefreshTTL]
          /\ call' = [call EXCEPT ![c].pc = "recheck", ![c].next = row.hash + 1]
       \/ ~(row.stored /\ row.hash = call[c].token) /\ End(c) /\ UNCHANGED row
    /\ UNCHANGED <<clock, cache, known, issued, since, sealed, faults>>

\* Mutant: a failed statement is taken for a rotation.
RotateUnwritten(c) ==
    /\ At(c, "rotate")
    /\ \/ /\ Refreshable(call[c].token, call[c].now)
          /\ row' = [row EXCEPT !.hash = @ + 1, !.expires = call[c].now + RefreshTTL]
          /\ call' = [call EXCEPT ![c].pc = "recheck", ![c].next = row.hash + 1]
          /\ UNCHANGED faults
       \/ /\ Fault /\ UNCHANGED row
          /\ call' = [call EXCEPT ![c].pc = "recheck", ![c].next = row.hash + 1]
    /\ UNCHANGED <<clock, cache, known, issued, since, sealed>>

\* RotateOAuthGrant, in one statement.  The instant it compares and extends with
\* is the one the call took before.
RotateOAuthGrant(c) ==
    /\ At(c, "rotate")
    /\ \/ /\ Refreshable(call[c].token, call[c].now)
          /\ row' = [row EXCEPT !.hash = @ + 1, !.expires = call[c].now + RefreshTTL]
          /\ call' = [call EXCEPT ![c].pc = "recheck", ![c].next = row.hash + 1]
          /\ UNCHANGED faults
       \/ /\ ~Refreshable(call[c].token, call[c].now)
          /\ End(c) /\ UNCHANGED <<row, faults>>
       \/ /\ Fault
          /\ End(c) /\ UNCHANGED row
    /\ UNCHANGED <<clock, cache, known, issued, since, sealed>>

\* recheckGrantPrincipal: the principal is fine, cannot use the app any more, or
\* cannot be read, which leaves the row alone.
RecheckPrincipal(c) ==
    /\ At(c, "recheck")
    /\ \/ Goto(c, "issue") /\ UNCHANGED faults
       \/ /\ call' = [call EXCEPT ![c].pc = "revoke", ![c].marks = TRUE, ![c].token = 0]
          /\ UNCHANGED faults
       \/ Fault /\ End(c)
    /\ UNCHANGED <<clock, row, cache, known, issued, since, sealed>>

\* writeGrantResponse; the response may be lost.
Issue(c) ==
    /\ At(c, "issue")
    /\ issued' = [issued EXCEPT ![call[c].token] = @ + 1]
    /\ \/ known' = known \cup {call[c].next} /\ UNCHANGED faults
       \/ Fault /\ UNCHANGED known
    /\ End(c)
    /\ UNCHANGED <<clock, row, cache, since, sealed>>

-----------------------------------------------------------------------------
\* The revocation of the app.

\* RevokeConnectedApp and Logout of a CLI token mark the cache whatever the
\* statement changed; Logout of an MCP token only for the rows it changed.
BeginRevoke(c, x) ==
    /\ At(c, "idle") /\ row.stored
    /\ \E marks \in BOOLEAN :
         call' = [call EXCEPT ![c] = [Begin(c, x, "revoke") EXCEPT !.marks = marks]]
    /\ UNCHANGED <<clock, row, cache, known, issued, since, sealed, faults>>

\* RevokeOAuthGrant, RevokeOAuthGrantsByUserAndClient: only a row that is not
\* revoked yet.  A failed statement is logged or reported; nothing is marked.
RevokeOAuthGrant(c) ==
    /\ At(c, "revoke")
    /\ \/ /\ row.stored /\ ~row.revoked
          /\ row' = [row EXCEPT !.revoked = TRUE,
                                !.by = IF call[c].next = 0 THEN "user" ELSE "system"]
          /\ since' = clock /\ Goto(c, "mark") /\ UNCHANGED faults
       \/ /\ ~(row.stored /\ ~row.revoked)
          /\ IF call[c].marks THEN Goto(c, "mark") ELSE End(c)
          /\ UNCHANGED <<row, since, faults>>
       \/ /\ Fault /\ End(c)
          /\ UNCHANGED <<row, since>>
    /\ UNCHANGED <<clock, cache, known, issued, sealed>>

\* Marked after the write commits, with the instant taken before it.
MarkRevoked(c) ==
    /\ At(c, "mark")
    /\ Revoke(call[c].replica, call[c].now)
    /\ sealed' = [sealed EXCEPT ![call[c].replica] = TRUE]
    /\ End(c)
    /\ UNCHANGED <<clock, row, known, issued, since, faults>>

-----------------------------------------------------------------------------
\* Resolve of an access token of the app, grantRevoked in particular.

\* A cached revocation refuses at once; a refused request leaves no trace.
BeginRequest(c, x) ==
    /\ At(c, "idle") /\ known # {}
    /\ Lookup(x, clock) # "revoked"
    /\ call' = [call EXCEPT ![c] =
         [Begin(c, x, IF Lookup(x, clock) = "live" THEN "accepted" ELSE "read")
            EXCEPT !.after = sealed[x]]]
    /\ UNCHANGED <<clock, row, cache, known, issued, since, sealed, faults>>

\* IsOAuthGrantLive; a missing row is not live, and a failed read refuses.
ReadGrant(c) ==
    /\ At(c, "read")
    /\ \/ /\ call' = [call EXCEPT ![c].pc = "remember",
                        ![c].live = row.stored /\ ~row.revoked /\ row.expires > clock]
          /\ UNCHANGED faults
       \/ Fault /\ End(c)
    /\ UNCHANGED <<clock, row, cache, known, issued, since, sealed>>

RememberDecision(c) ==
    /\ At(c, "remember")
    /\ Remember(call[c].replica, call[c].live, call[c].now)
    /\ IF call[c].live THEN Goto(c, "accepted") ELSE End(c)
    /\ UNCHANGED <<clock, row, known, issued, since, sealed, faults>>

\* The rest of Resolve and the request itself.
EndRequest(c) ==
    /\ At(c, "accepted") /\ End(c)
    /\ UNCHANGED <<clock, row, cache, known, issued, since, sealed, faults>>

-----------------------------------------------------------------------------
\* The maintenance runner, restarts and time.

DeleteExpiredOAuthGrants ==
    /\ row.stored /\ row.expires + Retention < clock
    /\ row' = [row EXCEPT !.stored = FALSE]
    /\ UNCHANGED <<clock, cache, call, known, issued, since, sealed, faults>>

\* A replica that restarts after the revocation reads the row before it accepts.
Restart(x) ==
    /\ Fault
    /\ cache' = [cache EXCEPT ![x] = NoEntry]
    /\ call' = [c \in Calls |-> IF call[c].replica = x THEN NoCall ELSE call[c]]
    /\ sealed' = [sealed EXCEPT ![x] = row.revoked]
    /\ UNCHANGED <<clock, row, known, issued, since>>

Tick ==
    /\ clock < MaxTime /\ clock' = clock + 1
    /\ UNCHANGED <<row, cache, call, known, issued, since, sealed, faults>>

Next ==
    \/ Authorize \/ DeleteExpiredOAuthGrants \/ Tick
    \/ \E x \in Replicas : Evict(x) \/ Restart(x)
    \/ \E c \in Calls :
         \/ RotateOAuthGrant(c) \/ RecheckPrincipal(c) \/ Issue(c)
         \/ RevokeOAuthGrant(c) \/ MarkRevoked(c)
         \/ ReadGrant(c) \/ RememberDecision(c) \/ EndRequest(c)
         \/ \E x \in Replicas : \/ BeginRevoke(c, x) \/ BeginRequest(c, x)
                                \/ \E t \in known : BeginRefresh(c, x, t)

Spec == Init /\ [][Next]_vars

-----------------------------------------------------------------------------
Pcs == {"idle", "rotate", "recheck", "issue", "revoke", "mark", "read", "remember", "accepted"}

Rows == [stored : BOOLEAN, hash : Nat, expires : Nat, revoked : BOOLEAN,
         by : {"none", "user", "system"}]
Entries == [decision : {"none", "live", "revoked"}, at : Nat]
CallStates == [pc : Pcs, replica : Replicas \cup {"none"}, now : Nat, token : 0..MaxTokens,
               next : Nat, marks : BOOLEAN, live : BOOLEAN, after : BOOLEAN]

\* The types; nothing is stamped with an instant to come, and the client holds no
\* refresh token that was never the row's.
TypeOK ==
    /\ clock \in 0..MaxTime /\ faults \in 0..MaxFaults
    /\ row \in Rows /\ row.expires <= MaxTime + RefreshTTL
    /\ cache \in [Replicas -> Entries] /\ \A x \in Replicas : cache[x].at <= clock
    /\ call \in [Calls -> CallStates]
    /\ \A c \in Calls : call[c].now <= clock /\ call[c].next <= row.hash
    /\ known \subseteq 1..row.hash
    /\ issued \in [1..MaxTokens -> Nat] /\ sealed \in [Replicas -> BOOLEAN]
    /\ since \in 0..clock \cup {Never} /\ row.revoked = (since # Never)

\* Single use: a refresh token mints at most one pair, however often and by
\* however many concurrent calls it is presented (the rotation gate).
SingleUse == \A t \in 1..MaxTokens : issued[t] <= 1

\* "Refuses its outstanding access tokens within 30 seconds": no replica accepts a
\* token of the app on a check that began TTL or more after the revocation
\* committed, however slow reads, evictions and restarts interleave with it.
RefusedWithinTTL ==
    \A c \in Calls : At(c, "accepted") => call[c].now < since + TTL

\* "Immediately on the replica that did it": a check that begins after a replica
\* marked the revocation, or restarted after it, is refused there, although reads
\* from before the revocation finish after it.
RefusedHereAtOnce ==
    \A c \in Calls : call[c].after => ~At(c, "accepted")

\* A revocation is final: no rotation under way revives the row, no later
\* revocation takes over who ended it, and the row is only ever pruned.
RevocationIsFinal ==
    [][row.revoked => row' \in {row, [row EXCEPT !.stored = FALSE]}]_vars
=============================================================================
