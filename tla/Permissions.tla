------------------------------ MODULE Permissions ------------------------------
(***************************************************************************)
(* PermissionManagementService for one member of staff, one store and one  *)
(* permission: what the rows grant, what a check of a request answers      *)
(* (hasPermission), and the list that clients keep a copy of               *)
(* (getUserPermissions), cached for five minutes.                          *)
(*                                                                         *)
(* Either reads its tables one after the other.  Grants and their recall   *)
(* drop the cached list after their write, in a statement of its own; a    *)
(* change of role, the end of the access and of a termination do not.      *)
(***************************************************************************)
EXTENDS Integers, FiniteSets

CONSTANTS
    Callers,      \* requests, each with a call of its own
    RoleGrants    \* the roles that have the permission, of Roles

Roles == {"CASHIER", "SHIFT_SUPERVISOR"}

VARIABLES
    role, access,     \* the row of UserStore: its role, and whether it is active
    custom,           \* the row of UserPermission: "none", "granted", "revoked"
    temporary,        \* whether a TemporaryPermission is in force, one at a time
    cached,           \* the list in Redis: "none", or whether the permission is on it
    call,
    behind,           \* the cached list may be out of date: a change was made that
                      \* drops nothing, or the list was read around a write
    wrong             \* a check was answered against all that was so meanwhile,
                      \* though the rows did not change twice

permissionVars == <<role, access, custom, temporary, cached, call, behind, wrong>>

Idle == [op |-> "idle"]
Rows == [role |-> role, access |-> access, custom |-> custom, temporary |-> temporary]

\* What hasPermission makes of the rows: a grant for a time first, then what was
\* granted or revoked by name, then the role, which alone asks for access.
Allows(r) ==
    \/ r.temporary
    \/ r.custom = "granted"
    \/ r.custom = "none" /\ r.access /\ r.role \in RoleGrants

\* What getUserPermissions makes of them: nothing without access, and what was
\* revoked by name is off whoever else grants it.
Lists(r) ==
    r.access /\ r.custom # "revoked" /\ (r.temporary \/ r.custom = "granted" \/ r.role \in RoleGrants)

-----------------------------------------------------------------------------

\* The rows change: checks under way may go by either, and lists are outdated.
Seen(d, r) ==
    IF d.op = "check"
    THEN [op |-> "check", at |-> d.at, seen |-> d.seen \union {Allows(r)},
          once |-> d.once \/ r # Rows, torn |-> d.torn \/ (d.once /\ r # Rows)]
    ELSE IF d.op = "list" THEN [d EXCEPT !.around = TRUE] ELSE d

Change(next(_)) ==
    call' = [d \in Callers |-> Seen(next(d), [role |-> role', access |-> access', custom |-> custom', temporary |-> temporary'])]

\* A write that is followed by dropping the cached list, or by nothing.
ThenDrop(c) ==
    /\ call[c] = Idle
    /\ Change(LAMBDA d : IF d = c THEN [op |-> "drop"] ELSE call[d])
    /\ UNCHANGED <<cached, behind, wrong>>

AndNoMore ==
    /\ Change(LAMBDA d : call[d])
    /\ behind' = TRUE
    /\ UNCHANGED <<cached, wrong>>

grantTemporaryPermission(c) ==
    temporary' = TRUE /\ UNCHANGED <<role, access, custom>> /\ ThenDrop(c)

\* Faulty variant: the list is left in the cache.
RevokeQuietly(c) ==
    /\ temporary' = FALSE /\ UNCHANGED <<role, access, custom, cached, behind, wrong>>
    /\ call[c] = Idle /\ Change(LAMBDA d : call[d])

revokeTemporaryPermission(c) ==
    temporary' = FALSE /\ UNCHANGED <<role, access, custom>> /\ ThenDrop(c)

grantCustomPermission(c) ==
    custom' = "granted" /\ UNCHANGED <<role, access, temporary>> /\ ThenDrop(c)

revokeCustomPermission(c) ==
    custom' = "revoked" /\ UNCHANGED <<role, access, temporary>> /\ ThenDrop(c)

\* A temporary permission runs out.
RunOut == temporary /\ temporary' = FALSE /\ UNCHANGED <<role, access, custom>> /\ AndNoMore

\* updateStoreRole drops a key that nobody writes.
updateStoreRole(r) ==
    role # r /\ role' = r /\ UNCHANGED <<access, custom, temporary>> /\ AndNoMore

\* revokeStoreAccess, terminateStaff, grantStoreAccess.
SetAccess(value) ==
    access # value /\ access' = value /\ UNCHANGED <<role, custom, temporary>> /\ AndNoMore

\* invalidateCache, which passes over an error.
DropList(c) ==
    /\ call[c].op = "drop" /\ cached' = "none"
    /\ call' = [call EXCEPT ![c] = Idle]
    /\ behind' = FALSE
    /\ UNCHANGED <<role, access, custom, temporary, wrong>>

DropFails(c) ==
    /\ call[c].op = "drop" /\ behind' = TRUE
    /\ call' = [call EXCEPT ![c] = Idle]
    /\ UNCHANGED <<role, access, custom, temporary, cached, wrong>>

-----------------------------------------------------------------------------
(* hasPermission, for checkPermission and checkAnyPermission; an error denies. *)

Read == UNCHANGED <<role, access, custom, temporary>>
Goto(c, next) == call' = [call EXCEPT ![c] = next]

hasPermission(c) ==
    /\ call[c] = Idle /\ Goto(c, [op |-> "check", at |-> "temporary", seen |-> {Allows(Rows)},
                               once |-> FALSE, torn |-> FALSE])
    /\ Read /\ UNCHANGED <<cached, behind, wrong>>

Answer(c, allowed) ==
    /\ wrong' = (wrong \/ (allowed \notin call[c].seen /\ ~call[c].torn))
    /\ Goto(c, Idle)

CheckTemporary(c) ==
    /\ call[c].op = "check" /\ call[c].at = "temporary"
    /\ IF temporary THEN Answer(c, TRUE)
       ELSE Goto(c, [call[c] EXCEPT !.at = "custom"]) /\ UNCHANGED wrong
    /\ Read /\ UNCHANGED <<cached, behind>>

\* Faulty variant: a revoked permission is looked for in the role.
RoleAfterRevoked(c) ==
    /\ call[c].op = "check" /\ call[c].at = "custom"
    /\ IF custom = "granted" THEN Answer(c, TRUE)
       ELSE Goto(c, [call[c] EXCEPT !.at = "role"]) /\ UNCHANGED wrong
    /\ Read /\ UNCHANGED <<cached, behind>>

CheckCustom(c) ==
    /\ call[c].op = "check" /\ call[c].at = "custom"
    /\ IF custom # "none" THEN Answer(c, custom = "granted")
       ELSE Goto(c, [call[c] EXCEPT !.at = "role"]) /\ UNCHANGED wrong
    /\ Read /\ UNCHANGED <<cached, behind>>

CheckRole(c) ==
    /\ call[c].op = "check" /\ call[c].at = "role"
    /\ Answer(c, access /\ role \in RoleGrants)
    /\ Read /\ UNCHANGED <<cached, behind>>

-----------------------------------------------------------------------------
(* getUserPermissions: the four reads are taken as one; a write around them *)
(* is what the call remembers.                                             *)

getUserPermissions(c) ==
    /\ call[c] = Idle /\ cached = "none"
    /\ Goto(c, [op |-> "list", on |-> Lists(Rows), around |-> FALSE])
    /\ Read /\ UNCHANGED <<cached, behind, wrong>>

StoreList(c) ==
    /\ call[c].op = "list"
    /\ cached' = IF call[c].on THEN "on" ELSE "off"
    /\ behind' = call[c].around
    /\ Goto(c, Idle)
    /\ Read /\ UNCHANGED wrong

\* Five minutes pass.
Expire ==
    /\ cached # "none" /\ cached' = "none"
    /\ behind' = FALSE
    /\ Read /\ UNCHANGED <<call, wrong>>

-----------------------------------------------------------------------------

Init ==
    /\ role \in Roles /\ access = TRUE /\ custom = "none" /\ temporary = FALSE
    /\ cached = "none" /\ call = [c \in Callers |-> Idle]
    /\ behind = FALSE /\ wrong = FALSE

Next ==
    \/ \E c \in Callers :
           \/ grantTemporaryPermission(c) \/ revokeTemporaryPermission(c)
           \/ grantCustomPermission(c) \/ revokeCustomPermission(c)
           \/ DropList(c) \/ DropFails(c)
           \/ hasPermission(c) \/ CheckTemporary(c) \/ CheckCustom(c) \/ CheckRole(c)
           \/ getUserPermissions(c) \/ StoreList(c)
    \/ RunOut \/ Expire
    \/ \E r \in Roles : updateStoreRole(r)
    \/ \E value \in BOOLEAN : SetAccess(value)

Spec == Init /\ [][Next]_permissionVars

-----------------------------------------------------------------------------

\* A check is answered by what the rows allowed at some moment of it, although
\* it reads three tables one after the other, unless they change twice meanwhile.
ChecksReal == ~wrong

\* The cached list tells what the rows list, but for changes that drop nothing,
\* lists that were read around a write, and the moment before a list is dropped.
ListsCurrent ==
    cached = "none" \/ behind \/ (\E c \in Callers : call[c].op = "drop") \/ (cached = "on") = Lists(Rows)

\* Whatever is listed is allowed; what is allowed and not listed was granted to
\* one whose access has ended, or for a time after it was revoked.
ListedIsAllowed ==
    /\ Lists(Rows) => Allows(Rows)
    /\ Allows(Rows) /\ ~Lists(Rows) => ~access \/ (temporary /\ custom = "revoked")

PermissionsKept == ChecksReal /\ ListsCurrent /\ ListedIsAllowed
================================================================================
