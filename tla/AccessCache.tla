---------------------------- MODULE AccessCache ----------------------------
(***************************************************************************)
(* The gateway's short-lived caches of what auth-svc decides: one API token  *)
(* (apitoken.Loader) or one user's role (authz.Loader), the gateway replicas *)
(* that cache it for 30 seconds, and the changes made through them.          *)
(*                                                                           *)
(* The subject's versions are numbered; a role's versions all answer, a      *)
(* token's only answers "active" until it is revoked.                        *)
(***************************************************************************)
EXTENDS Naturals

CONSTANTS
  Gateways,   \* gateway replicas
  Requests,   \* requests that may be in progress on each
  MaxChanges  \* bound: changes of the subject in auth-svc

VARIABLES
  kind,    \* "token" or "role"
  version, \* the subject's present version in auth-svc
  entry,   \* gateway -> the cached version, or Empty
  pc,      \* gateway, request -> "idle", "asked" or "answered"
  answer,  \* gateway, request -> the version auth-svc answered with
  change,  \* gateway -> the version its own change made and has yet to evict, or 0
  evicted  \* gateway -> the last version it evicted after

vars == <<kind, version, entry, pc, answer, change, evicted>>

\* An entry: the version and whether its lookup was under way at an eviction.
Entries == [v : 0..MaxChanges, spans : BOOLEAN]
Empty == [v |-> MaxChanges + 1, spans |-> FALSE]

TypeOK ==
  /\ kind \in {"token", "role"} /\ version \in 0..MaxChanges
  /\ entry \in [Gateways -> Entries \cup {Empty}]
  /\ pc \in [Gateways \X Requests -> {"idle", "asked", "answered"}]
  /\ answer \in [Gateways \X Requests -> Entries]
  /\ change \in [Gateways -> 0..MaxChanges]
  /\ evicted \in [Gateways -> 0..MaxChanges]

Init ==
  /\ kind \in {"token", "role"} /\ version = 0
  /\ entry = [g \in Gateways |-> Empty]
  /\ pc = [q \in Gateways \X Requests |-> "idle"]
  /\ answer = [q \in Gateways \X Requests |-> [v |-> 0, spans |-> FALSE]]
  /\ change = [g \in Gateways |-> 0]
  /\ evicted = [g \in Gateways |-> 0]

-----------------------------------------------------------------------------
\* Load: a hit is served at once; a miss asks auth-svc.
Miss(g, r) ==
  /\ pc[<<g, r>>] = "idle" /\ entry[g] = Empty
  /\ pc' = [pc EXCEPT ![<<g, r>>] = "asked"]
  /\ UNCHANGED <<kind, version, entry, answer, change, evicted>>

\* auth-svc reads the subject.  A token that is not active is refused and its
\* answer dropped; a role is cached whatever it is, the empty one included.
Cacheable == kind = "role" \/ version = 0
Lookup(g, r) ==
  /\ pc[<<g, r>>] = "asked"
  /\ pc' = [pc EXCEPT ![<<g, r>>] = IF Cacheable THEN "answered" ELSE "idle"]
  /\ answer' = [answer EXCEPT ![<<g, r>>] = IF Cacheable THEN [v |-> version, spans |-> FALSE] ELSE @]
  /\ UNCHANGED <<kind, version, entry, change, evicted>>

\* The answer arrives and is cached, over whatever is there by now.
Store(g, r) ==
  /\ pc[<<g, r>>] = "answered"
  /\ entry' = [entry EXCEPT ![g] = answer[<<g, r>>]]
  /\ pc' = [pc EXCEPT ![<<g, r>>] = "idle"]
  /\ answer' = [answer EXCEPT ![<<g, r>>] = [v |-> 0, spans |-> FALSE]]
  /\ UNCHANGED <<kind, version, change, evicted>>

\* The call of auth-svc fails: nothing is cached.
LookupFails(g, r) ==
  /\ pc[<<g, r>>] # "idle"
  /\ pc' = [pc EXCEPT ![<<g, r>>] = "idle"]
  /\ answer' = [answer EXCEPT ![<<g, r>>] = [v |-> 0, spans |-> FALSE]]
  /\ UNCHANGED <<kind, version, entry, change, evicted>>

\* A change through gateway g commits in auth-svc.  A revoked token stays so.
Changeable == version < MaxChanges /\ (kind = "token" => version = 0)

\* Revoke of a token, Add to a team, TransferOwnership for the actor, Grant of a
\* platform role: the handler goes on to evict.
Change(g) ==
  /\ Changeable /\ change[g] = 0
  /\ version' = version + 1
  /\ change' = [change EXCEPT ![g] = version + 1]
  /\ UNCHANGED <<kind, entry, pc, answer, evicted>>

\* UpdateRole and Remove of a member, the promotion by a transfer, UpdateRole and
\* Revoke of an administrator: nothing is evicted.  So it is when the answer is lost.
QuietChange ==
  /\ Changeable
  /\ version' = version + 1
  /\ UNCHANGED <<kind, entry, pc, answer, change, evicted>>

\* Mutant of AfterEvict: the entry is looked for under another key.
AfterEvictOfOtherKey(g) == entry

AfterEvict(g) == [entry EXCEPT ![g] = Empty]

\* Evict, after the change, on this replica alone.
Evict(g) ==
  /\ change[g] > 0
  /\ entry' = AfterEvict(g)
  /\ answer' = [q \in Gateways \X Requests |->
       IF q[1] = g /\ pc[q] = "answered" THEN [answer[q] EXCEPT !.spans = TRUE] ELSE answer[q]]
  /\ evicted' = [evicted EXCEPT ![g] = change[g]]
  /\ change' = [change EXCEPT ![g] = 0]
  /\ UNCHANGED <<kind, version, pc>>

\* Thirty seconds after Store, used or not in between, the entry is a miss.
Expire(g) ==
  /\ entry[g] # Empty
  /\ entry' = [entry EXCEPT ![g] = Empty]
  /\ UNCHANGED <<kind, version, pc, answer, change, evicted>>

Load(g, r) == Miss(g, r) \/ Lookup(g, r) \/ Store(g, r) \/ LookupFails(g, r)
Next ==
  \/ \E g \in Gateways : (\E r \in Requests : Load(g, r)) \/ Change(g) \/ Evict(g) \/ Expire(g)
  \/ QuietChange

Spec == Init /\ [][Next]_vars

-----------------------------------------------------------------------------
\* What a gateway serves after the change it made itself was evicted is not older
\* than that change, unless the entry's lookup was already answered when Evict ran.
EvictionCovers ==
  \A g \in Gateways : entry[g] # Empty /\ entry[g].v < evicted[g] => entry[g].spans
============================================================================
