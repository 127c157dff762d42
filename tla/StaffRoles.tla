----------------------------- MODULE StaffRoles -----------------------------
(***************************************************************************)
(* auth-svc's RBACService: the team of one seller, or the platform's        *)
(* administrators.  Each operation is a READ COMMITTED transaction of       *)
(* several reads and a last write, so every read is a step of its own and   *)
(* sees what has been committed by then.                                    *)
(***************************************************************************)
EXTENDS Naturals, FiniteSets

CONSTANTS
  Users,    \* Auth0 users
  Founder,  \* a seller's first owner; the super_admin a deployment is started with
  Calls,    \* calls in progress
  MaxCalls  \* bound: operations started

VARIABLES
  scope,  \* "seller" (top role owner) or "platform" (top role super_admin)
  role,   \* user -> "none", "member" (a platform's support), "admin", or the top role
  id,     \* user -> number of the row the user has (a new row, a new number)
  pc,     \* call -> the statement it runs next
  call,   \* call -> its arguments
  started

vars == <<scope, role, id, pc, call, started>>

Roles == {"none", "member", "admin", "top"}
Ops == {"add", "update", "remove", "transfer", "boot"}
Operation == [op : Ops, actor : Users, row : Nat, target : Users, id : Nat, new : Roles]
NoCall == [op |-> "add", actor |-> Founder, row |-> 0, target |-> Founder, id |-> 0, new |-> "none"]
Tops == {u \in Users : role[u] = "top"}

TypeOK ==
  /\ scope \in {"seller", "platform"}
  /\ role \in [Users -> Roles]
  /\ id \in [Users -> Nat]
  /\ pc \in [Calls -> {"idle", "check", "target", "count", "write"}]
  /\ call \in [Calls -> Operation]
  /\ started \in 0..MaxCalls

\* CreateSeller installs the caller as owner; a platform is found before its
\* bootstrap or after it.
Init ==
  /\ scope \in {"seller", "platform"}
  /\ \E first \in {"none", "top"} :
       /\ scope = "seller" => first = "top"
       /\ role = [u \in Users |-> IF u = Founder THEN first ELSE "none"]
  /\ id = [u \in Users |-> 0]
  /\ pc = [c \in Calls |-> "idle"]
  /\ call = [c \in Calls |-> NoCall]
  /\ started = 0

\* A call goes on to its next statement, or returns.
Goto(c, p) ==
  /\ pc' = [pc EXCEPT ![c] = p]
  /\ call' = IF p = "idle" THEN [call EXCEPT ![c] = NoCall] ELSE call
Start(c, p, request) ==
  /\ pc[c] = "idle" /\ started < MaxCalls
  /\ started' = started + 1
  /\ pc' = [pc EXCEPT ![c] = p]
  /\ call' = [call EXCEPT ![c] = request]
Target(c) == call[c].target

\* The row that is updated by its id is still there.
RowStands(u, i) == role[u] # "none" /\ id[u] = i
TargetStands(c) == RowStands(Target(c), call[c].id)

\* A request.  Only the platform's roles may be set to the top one; a seller
\* gets an owner by transfer alone.
Assignable == IF scope = "platform" THEN {"member", "admin", "top"} ELSE {"member", "admin"}
Granted(op, n) ==
  CASE op = "remove"   -> "none"
    [] op = "transfer" -> "top"
    [] OTHER           -> n
Request(c) ==
  /\ \E op \in Ops \ {"boot"}, a, t \in Users, n \in Assignable :
       /\ op = "transfer" => scope = "seller"
       /\ op \in {"remove", "transfer"} => n = "member"   \* they carry no role
       /\ Start(c, "check", [op |-> op, actor |-> a, row |-> 0, target |-> t, id |-> id[t],
                             new |-> Granted(op, n)])
  /\ UNCHANGED <<scope, role, id>>

\* The actor must hold the top role; the row it holds it in is remembered.  A
\* grant goes on to its insert: the lookup before it only words the error the
\* unique index would give.
Check(c) ==
  /\ pc[c] = "check"
  /\ IF role[call[c].actor] # "top"
     THEN Goto(c, "idle")
     ELSE /\ pc' = [pc EXCEPT ![c] = IF call[c].op = "add" THEN "write" ELSE "target"]
          /\ call' = [call EXCEPT ![c].row = id[call[c].actor]]
  /\ UNCHANGED <<scope, role, id, started>>

\* Mutant of Refused: one may remove oneself.
RefusedUnlessThere(c) == ~TargetStands(c)

\* ErrTargetNotFound, ErrSelfRoleChange.
Refused(c) == ~TargetStands(c) \/ Target(c) = call[c].actor

\* The target: refused, or already in the role, ends the call; a holder of the
\* top role is only touched after a count.
Settled(c) == Refused(c) \/ (call[c].op = "update" /\ role[Target(c)] = call[c].new)
MustCount(c) == call[c].op # "transfer" /\ role[Target(c)] = "top"
ReadTarget(c) ==
  /\ pc[c] = "target"
  /\ Goto(c, IF Settled(c) THEN "idle" ELSE IF MustCount(c) THEN "count" ELSE "write")
  /\ UNCHANGED <<scope, role, id, started>>

\* ErrLastOwner, ErrLastSuperAdmin.
Count(c) ==
  /\ pc[c] = "count"
  /\ Goto(c, IF Cardinality(Tops) <= 1 THEN "idle" ELSE "write")
  /\ UNCHANGED <<scope, role, id, started>>

\* The roles a call's statements leave behind; a row that is gone is an error,
\* which rolls the whole transaction back.  A transfer makes its actor an admin
\* before it promotes.
Demoted(c) == IF call[c].op = "transfer" THEN {call[c].actor} ELSE {}
Written(c) ==
  [u \in Users |-> IF u = Target(c) THEN call[c].new
                   ELSE IF u \in Demoted(c) THEN "admin" ELSE role[u]]
Writable(c) ==
  CASE call[c].op \in {"add", "boot"} -> role[Target(c)] = "none"
    [] call[c].op = "transfer"        -> TargetStands(c) /\ RowStands(call[c].actor, call[c].row)
    [] OTHER                          -> TargetStands(c)

\* The write; its audit entry commits with it and is left out.
Write(c) ==
  /\ pc[c] = "write"
  /\ IF Writable(c)
     THEN /\ role' = Written(c)
          /\ id' = IF call[c].op \in {"add", "boot"} THEN [id EXCEPT ![Target(c)] = @ + 1] ELSE id
     ELSE UNCHANGED <<role, id>>
  /\ Goto(c, "idle")
  /\ UNCHANGED <<scope, started>>

\* A replica starts: BootstrapSuperAdmin counts outside its transaction.
Bootstrap(c) ==
  /\ scope = "platform" /\ Tops = {}
  /\ Start(c, "write", [op |-> "boot", actor |-> Founder, row |-> 0, target |-> Founder, id |-> id[Founder], new |-> "top"])
  /\ UNCHANGED <<scope, role, id>>

Next == \E c \in Calls :
  Request(c) \/ Check(c) \/ ReadTarget(c) \/ Count(c) \/ Write(c) \/ Bootstrap(c)

Spec == Init /\ [][Next]_vars

-----------------------------------------------------------------------------
\* "The last owner cannot be removed" (rbac.go:219), as the code keeps it: the top
\* role only dies out in a write whose actor had lost it after the check.  In
\* particular no transfer demotes the owner without a successor.
LastTopFalls ==
  Tops # {} /\ Tops' = {} =>
    \E c \in Calls : pc[c] = "write" /\ pc'[c] = "idle" /\ role[call[c].actor] # "top"
LastTopFallsToADemotedActor == [][LastTopFalls]_vars

\* "The last owner of a seller cannot be demoted" (rbac.go:150-151) or removed
\* (rbac.go:219-220): a seller, created with an owner, has one for ever.
SellerHasOwner == scope = "seller" => Tops # {}
=============================================================================
